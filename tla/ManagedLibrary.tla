--------------------------- MODULE ManagedLibrary ---------------------------
(***************************************************************************)
(* One Library through its life: Plans are made by Add, Organize, Refresh  *)
(* and Undo, reviewed, cancelled or applied, and checked, while other      *)
(* programs edit the files and the user edits the settings. A planner      *)
(* lists, captures, inventories, judges and saves at different moments, and*)
(* files are edited in between. Operations exclude each other              *)
(* (OperationRuntime); a process may die in the middle of one, and the     *)
(* reconciliation that then settles it is the same step.                   *)
(***************************************************************************)
EXTENDS AddPlanner, OrganizePlanner, RefreshPlanner, ApplyAction, LibraryCheck

CONSTANTS
    Worlds,    \* initial Libraries, with what users and programs may do there
    MaxFaults  \* crashes and failing moves

VARIABLES
    world,     \* the initial Library chosen
    work,      \* the operation that holds the exclusive lock
    touched,   \* paths other programs edited since a move was verified there
    edits, faults  \* how many there were

vars == <<files, tracks, assets, library, policy, plans, world, work, touched, edits, faults>>

Idle == [pc |-> "idle"]

Init ==
    /\ world \in Worlds
    /\ files = world.files /\ tracks = world.tracks /\ assets = world.assets
    /\ library = world.library /\ policy = world.policy
    /\ plans = <<>> /\ work = Idle
    /\ touched = world.touched /\ edits = 0 /\ faults = 0

With(found, p, file) ==
    [q \in (DOMAIN found \cup {p}) \ (IF file = Gone THEN {p} ELSE {}) |->
        IF q = p THEN file ELSE found[q]]

-----------------------------------------------------------------------------
(* Planning. The settings and the rows are read first, then the files.      *)

\* What the file scanner finds for a planner, and what it captures.
Listing(kind) ==
    CASE kind = "add"      -> {p \in DOMAIN files : p.dir = "in" /\ Audio(p)}
      [] kind = "organize" -> {p \in DOMAIN files : InLibrary(p) /\ Audio(p)}
      [] OTHER             -> {}

StartPlan(kind, scope) ==
    /\ work = Idle /\ Len(plans) < world.plans /\ kind \in world.requests
    /\ kind = "add" => AddAllowed(policy)
    /\ kind = "refresh" => RefreshAllowed(policy, scope)
    /\ work' = [pc |-> "capture", kind |-> kind, policy |-> policy, scope |-> scope,
                recoverable |-> Recoverable(DOMAIN assets),
                listed |-> [p \in Listing(kind) |-> files[p]],
                seen |-> <<>>, inventory |-> {}]
    /\ UNCHANGED <<rows, files, policy, world, touched, edits, faults>>

Capture ==
    LET observed == IF work.kind = "refresh" THEN {tracks[t].path : t \in ToSet(Selected(work.scope))}
                    ELSE DOMAIN work.listed IN
    /\ work.pc = "capture"
    /\ work' = [work EXCEPT !.pc = "inventory", !.seen = [p \in observed |-> At(p)]]
    /\ UNCHANGED <<rows, files, policy, world, touched, edits, faults>>

\* SourceInventoryReader: every regular file below the root.
ReadInventory ==
    /\ work.pc = "inventory"
    /\ work' = [work EXCEPT !.pc = "judge",
                   !.inventory = {p \in DOMAIN files : IF work.kind = "add" THEN p.dir = "in"
                                                       ELSE InLibrary(p)}]
    /\ UNCHANGED <<rows, files, policy, world, touched, edits, faults>>

\* A planner judges every target, by the files, and saves what it made of them
\* later, in a transaction. Each target is looked at once, so a look before another
\* program's edit of a path and one after it are this step before or after Edit.
\* late holds the paths that were edited between the judging and the saving.
Judged(saved) ==
    [pc |-> "save", saved |-> saved, tracks |-> tracks, assets |-> assets, library |-> library,
     late |-> {}]

JudgeAdd ==
    /\ work.pc = "judge" /\ work.kind = "add"
    /\ work' = Judged(<<NewPlan("add", 0, work.policy, Actions(AddCandidates(work)))>>)
    /\ UNCHANGED <<rows, files, policy, world, touched, edits, faults>>

JudgeRefresh ==
    /\ work.pc = "judge" /\ work.kind = "refresh"
    /\ work' = Judged(<<NewPlan("refresh", 0, work.policy, RefreshActions(work))>>)
    /\ UNCHANGED <<rows, files, policy, world, touched, edits, faults>>

\* Organize has rows to save, the Library and, when there is anything to do, a Plan.
JudgeOrganize ==
    /\ work.pc = "judge" /\ work.kind = "organize"
    /\ LET found   == OrganizeCandidates(work)
           actions == OrganizeActions(found)
           plan    == NewPlan("organize", 0, work.policy, actions) IN
       work' = [Judged(IF actions = <<>> THEN <<>> ELSE <<plan>>) EXCEPT
                   !.tracks  = OrganizedTracks(found.audio),
                   !.assets  = OrganizedAssets(found.companions),
                   !.library = OrganizedLibrary(actions, work.policy)]
    /\ UNCHANGED <<rows, files, policy, world, touched, edits, faults>>

\* Undo reads the rows, looks at the files and saves in one transaction, which no
\* other program knows of; a ready Undo Plan of the Run is returned again.
JudgeUndo(n) ==
    /\ work = Idle /\ Len(plans) < world.plans /\ "undo" \in world.requests
    /\ UndoAllowed(n) /\ ReadyUndo(n) = {} /\ UndoActions(n) # <<>>
    /\ work' = Judged(<<NewPlan("undo", n, plans[n].policy, UndoActions(n))>>)
    /\ UNCHANGED <<rows, files, policy, world, touched, edits, faults>>

\* The transaction at the end of every planner (_persist_result of Organize).
Save ==
    /\ work.pc = "save"
    /\ plans' = plans \o work.saved
    /\ tracks' = work.tracks /\ assets' = work.assets /\ library' = work.library
    /\ work' = Idle
    /\ UNCHANGED <<files, policy, world, touched, edits, faults>>

\* Cancelling holds the lock as every Operation does.
Cancel(n) ==
    /\ work = Idle /\ plans[n].status = "ready"
    /\ "cancel" \in world.requests
    /\ plans' = [plans EXCEPT ![n].status = "cancelled"]
    /\ UNCHANGED <<files, tracks, assets, library, policy, world, work, touched, edits, faults>>

-----------------------------------------------------------------------------
(* Applying. Each action is one step; ApplyPlan has the steps inside.       *)

Claim(n) ==
    /\ work = Idle /\ plans[n].status = "ready"
    /\ plans' = [plans EXCEPT ![n].status = "applying"]
    /\ work' = [pc |-> "apply", plan |-> n]
    /\ UNCHANGED <<files, tracks, assets, library, policy, world, touched, edits, faults>>

\* The next action of the claimed Plan; blocked ones are passed over.
IsNext(i) ==
    /\ work.pc = "apply"
    /\ plans[work.plan].actions[i].status = "planned"
    /\ \A j \in 1 .. i - 1 : plans[work.plan].actions[j].status # "planned"

\* Action i of the claimed Plan ends with a status, an event and a Track.
Ended(i, status, event, track) ==
    plans' = [plans EXCEPT ![work.plan].actions[i] =
                 [@ EXCEPT !.status = status, !.event = event, !.track = track]]

Skip(i) ==
    LET a == plans[work.plan].actions[i] IN
    /\ IsNext(i) /\ a.op = "skip"
    /\ Ended(i, "applied", "none", a.track)
    /\ UNCHANGED <<files, tracks, assets, library, policy, world, work, touched, edits, faults>>

Refuse(i) ==
    LET a == plans[work.plan].actions[i] IN
    /\ IsNext(i) /\ a.op # "skip" /\ Refusal(work.plan, i) # "none"
    /\ Ended(i, "failed", "none", a.track)
    /\ UNCHANGED <<files, tracks, assets, library, policy, world, work, touched, edits, faults>>

Record(i) ==
    LET recorded == Recorded(work.plan, i) IN
    /\ tracks' = recorded.tracks /\ assets' = recorded.assets

RefreshTrack(i) ==
    LET a == plans[work.plan].actions[i] IN
    /\ IsNext(i) /\ a.op = "refresh" /\ Refusal(work.plan, i) = "none"
    /\ Record(i)
    /\ Ended(i, "applied", "none", a.track)
    /\ touched' = touched \ {a.target}
    /\ UNCHANGED <<files, library, policy, world, work, edits, faults>>

\* The move fails: its target is taken, or a call of the mover raises.
FailMove(i) ==
    LET a == plans[work.plan].actions[i] IN
    /\ IsNext(i) /\ a.op = "move" /\ Refusal(work.plan, i) = "none"
    /\ IF At(a.target) # Gone THEN faults' = faults
       ELSE faults < MaxFaults /\ faults' = faults + 1
    /\ Ended(i, "failed", "failed", a.track)
    /\ UNCHANGED <<files, tracks, assets, library, policy, world, work, touched, edits>>

Moved(a) == With(With(files, a.source, Gone), a.target, a.content)

Move(i) ==
    LET a == plans[work.plan].actions[i] IN
    /\ IsNext(i) /\ a.op = "move" /\ Refusal(work.plan, i) = "none"
    /\ At(a.target) = Gone
    /\ files' = Moved(a)
    /\ Record(i)
    /\ Ended(i, "applied", "succeeded", Recorded(work.plan, i).track)
    /\ touched' = touched \ {a.source, a.target}
    /\ UNCHANGED <<library, policy, world, work, edits, faults>>

\* _finish_apply, with the registration an applied organize Plan earns.
Finish ==
    LET plan == plans[work.plan] IN
    /\ work.pc = "apply"
    /\ \A i \in ActionsOf(work.plan) : plan.actions[i].status # "planned"
    /\ plans' = [plans EXCEPT ![work.plan].status = Verdict(plan.actions)]
    /\ library' = IF /\ plan.type = "organize" /\ Verdict(plan.actions) = "applied"
                     /\ \A i \in ActionsOf(work.plan) : plan.actions[i].status # "blocked"
                  THEN [library EXCEPT !.status = "registered"] ELSE library
    /\ work' = Idle
    /\ UNCHANGED <<files, tracks, assets, policy, world, touched, edits, faults>>

-----------------------------------------------------------------------------
(* Crashes, with the reconciliation of what they leave behind.              *)

\* ReconcileOperationsUseCase: what was not begun is interrupted, skips apply.
Reconciled(plan) ==
    LET actions == [i \in DOMAIN plan.actions |->
            IF plan.actions[i].status # "planned" THEN plan.actions[i]
            ELSE [plan.actions[i] EXCEPT
                     !.status = IF plan.actions[i].op = "skip" THEN "applied" ELSE "interrupted"]] IN
    [plan EXCEPT !.actions = actions, !.status = Verdict(actions)]

Crash ==
    /\ work # Idle /\ faults < MaxFaults
    /\ faults' = faults + 1
    /\ work' = Idle
    /\ plans' = IF work.pc = "apply" THEN [plans EXCEPT ![work.plan] = Reconciled(@)] ELSE plans
    /\ UNCHANGED <<files, tracks, assets, library, policy, world, touched, edits>>

\* A crash after the pending event of action i was written: the file may have
\* been moved, and no row says so.
CrashInMove(i) ==
    LET a == plans[work.plan].actions[i]
        pending == [plans[work.plan] EXCEPT !.actions[i].event = "pending"] IN
    /\ IsNext(i) /\ a.op = "move" /\ Refusal(work.plan, i) = "none"
    /\ faults < MaxFaults /\ faults' = faults + 1
    /\ files' \in {files} \cup (IF At(a.target) = Gone THEN {Moved(a)} ELSE {})
    /\ plans' = [plans EXCEPT ![work.plan] = Reconciled(pending)]
    /\ work' = Idle
    /\ UNCHANGED <<tracks, assets, library, policy, world, touched, edits>>

-----------------------------------------------------------------------------
(* Other programs and the user.                                             *)

Edit(e) ==
    /\ edits < world.limit /\ At(e.path) # e.file
    /\ files' = With(files, e.path, e.file)
    /\ touched' = touched \cup {e.path}
    /\ edits' = edits + 1
    /\ work' = IF work.pc = "save" THEN [work EXCEPT !.late = @ \cup {e.path}] ELSE work
    /\ UNCHANGED <<rows, policy, world, faults>>

ChangePolicy(naming) ==
    /\ edits < world.limit /\ policy # naming
    /\ policy' = naming
    /\ edits' = edits + 1
    /\ UNCHANGED <<rows, files, world, work, touched, faults>>

Perform ==
    \E i \in IF work.pc = "apply" THEN ActionsOf(work.plan) ELSE {} :
        Skip(i) \/ Refuse(i) \/ RefreshTrack(i) \/ FailMove(i) \/ Move(i) \/ CrashInMove(i)

Next ==
    \/ \E scope \in world.scopes : StartPlan("refresh", scope)
    \/ \E kind \in {"add", "organize"} : StartPlan(kind, {})
    \/ Capture \/ ReadInventory \/ JudgeAdd \/ JudgeRefresh \/ JudgeOrganize \/ Save
    \/ \E n \in DOMAIN plans : JudgeUndo(n) \/ Cancel(n) \/ Claim(n)
    \/ Perform \/ Finish \/ Crash
    \/ \E e \in world.edits : Edit(e)
    \/ \E naming \in world.policies : ChangePolicy(naming)

Spec == Init /\ [][Next]_vars

-----------------------------------------------------------------------------
(* Properties. *)

\* Nothing but this program changed anything, and none of it failed.
Undisturbed == edits = 0 /\ faults = 0

\* Files an executable action takes and places it puts them.
Executables(actions) == {i \in DOMAIN actions : actions[i].op = "move" /\ actions[i].status = "planned"}

\* A Plan that is saved can be applied as a whole in the world it is saved in:
\* no file is taken twice, no place is given twice, none is occupied by a file
\* or a row, and nothing depends on an action that will not run. The planners
\* judge this from what they saw at several earlier moments. A place that another
\* program filled after the planner looked at it, while the Plan was being saved,
\* is the exception: no planner looks again, and Apply refuses the action then.
PlansAreSound ==
    [][\A n \in DOMAIN plans' \ DOMAIN plans :
          LET actions == plans'[n].actions IN
          \A i \in Executables(actions) :
             /\ actions[i].target \in work.late \/ At(actions[i].target) = Gone
             /\ actions[i].target \notin Occupied
             /\ \A j \in Executables(actions) \ {i} :
                   actions[i].source # actions[j].source /\ actions[i].target # actions[j].target
             /\ plans'[n].type # "undo" => actions[i].deps \subseteq
                   Executables(actions) \cup (IF plans'[n].type = "organize" THEN {} ELSE {0})]_vars

\* Two Plans reviewed at once give one companion an asset id each.
TakenTwice(a) ==
    \E at \in UNION {{<<n, i>> : i \in ActionsOf(n)} : n \in DOMAIN plans} :
        /\ Action(at).kind = assets[a].kind /\ Action(at).source = assets[a].path
        /\ Action(at).asset # a /\ Action(at).event # "none"

\* The active rows agree with the files, and no two have one path, whatever
\* crashes: except where another program has been, and where a FileEvent is
\* pending, which Check reports. An asset row stays behind, in this code, when
\* an older Plan knows its file under another id. What an Add imported with a
\* Track stays no longer than the Track does: a companion that a later Plan found
\* may (docs/execution/undo.md).
RowsFollowFiles ==
    LET unclear == touched \cup UNION {UNION {{plans[n].actions[i].source, plans[n].actions[i].target} :
                       i \in {j \in ActionsOf(n) : plans[n].actions[j].event = "pending"}} :
                       n \in DOMAIN plans} IN
    /\ \A t \in {u \in ActiveTracks : tracks[u].path \notin unclear} :
          /\ At(tracks[t].path) = tracks[t].content
          /\ \A u \in ActiveTracks : tracks[u].path = tracks[t].path => u = t
    /\ \A a \in {b \in ActiveAssets : assets[b].path \notin unclear} :
          At(assets[a].path) = assets[a].content \/ TakenTwice(a)
    /\ \A n \in {m \in DOMAIN plans : plans[m].type = "add"} : \A i \in Succeeded(n) \ Reversed(n) :
          plans[n].actions[i].owner # 0 => plans[n].actions[i].track \in ActiveTracks

\* Which action of a Plan depends on which.
Follows(plan) ==
    UNION {{<<i, d>> : d \in plan.actions[i].deps} : i \in DOMAIN plan.actions}

\* The Run of each Plan as the abstract history sees it.
Runs == [n \in DOMAIN plans |->
    [of      |-> IF plans[n].type = "undo" THEN plans[n].from ELSE 0,
     actions |-> ActionsOf(n),
     follows |-> Follows(plans[n]),
     moved   |-> Succeeded(n), back |-> Reversed(n),
     open    |-> plans[n].status \in {"ready", "applying"}]]

History == INSTANCE RunHistory WITH runs <- Runs

\* The Library implements the history of Runs: an attempt to undo a Run puts each
\* of its files back at most once, and never while one that was moved because of
\* it, its lyrics or artwork, is left behind (docs/execution/undo.md), however
\* many attempts failed, were cancelled or crashed before.
RunsAreUndone == History!HistorySpec

\* The event of an action is reversed at most once, and one Undo Plan of a Run
\* at most is ready, under way or applied.
ReversedOnce ==
    \A n \in DOMAIN plans :
        /\ Cardinality({m \in Attempts(n) : plans[m].status \in {"ready", "applying", "applied"}}) <= 1
        /\ \A i \in ActionsOf(n) : Cardinality({m \in Attempts(n) : i \in ReversedBy({m})}) <= 1

\* The Plan was made after everything that was applied before it.
Latest(n) == \A m \in DOMAIN plans \ {n} : plans[m].status \in Reviewed \/ m \in plans[n].after

Works(i) ==
    LET a == plans[work.plan].actions[i] IN
    /\ a.op # "skip" => Refusal(work.plan, i) = "none"
    /\ a.op = "move" => At(a.target) = Gone

\* What was reviewed is what happens: the actions of a Plan made in a world that
\* nothing changed since are not refused and do not collide. Companions of
\* Organize and Refresh Plans are the exception the next property is about.
PlannedActionsWork ==
    Undisturbed /\ work.pc = "apply" =>
        (Latest(work.plan) =>
            \A i \in ActionsOf(work.plan) :
                IsNext(i) /\ ~(/\ plans[work.plan].type \in {"organize", "refresh"}
                              /\ plans[work.plan].actions[i].kind # "audio") => Works(i))

\* "companion asset/owner/dependency/source-root provenance changed after
\* planning" is why Apply refuses a companion (docs/execution/apply.md): one
\* whose Plan was made in a world that nothing changed since is not refused.
PlannedCompanionsMove ==
    Undisturbed /\ work.pc = "apply" =>
        (Latest(work.plan) => \A i \in ActionsOf(work.plan) : IsNext(i) => Works(i))

\* A file that belongs where it is.
Placed(p) == \E t \in ActiveTracks : tracks[t].path = p /\ tracks[t].canonical = p
                                     /\ Canonical(library.policy, files[p], p) = p

\* The Library becomes registered only when every audio file in it that no other
\* program touched has an active row and is where the policy puts it. The Plan
\* is the latest, made after all that was applied: Apply does not look at the policy
\* an older one was made under.
RegistrationIsEarned ==
    [][/\ library.status # "registered" /\ library'.status = "registered"
       /\ work.pc = "apply" => work.plan = Len(plans) /\ Latest(work.plan)
       => \A p \in DOMAIN files' : InLibrary(p) /\ Audio(p) => p \in touched \/ Placed(p)']_vars

\* Audio that an undo put back beside companions no Plan could move.
OrganizeUndone == \E n \in DOMAIN plans :
    plans[n].type = "undo" /\ plans[n].status \notin Reviewed /\ plans[plans[n].from].type = "organize"

\* While only this program changed a registered Library, Check has nothing to
\* report but duplicates, outdated Plans, the rows RowsFollowFiles excepts and
\* the companions that an undone organize found blocked.
CheckIsQuiet ==
    Undisturbed /\ touched = {} /\ work = Idle /\ library.status = "registered" =>
        \A x \in Issues : \/ x.type \in {"duplicate_candidate", "plan_source_changed"}
                         \/ (x.type = "unmanaged_companion_exists" /\ OrganizeUndone)
                         \/ \E a \in ActiveAssets : assets[a].path = x.path /\ TakenTwice(a)
=============================================================================
