# Formal model of omym2

omym2 organises a music library: it plans file moves, lets the user review the
Plan, applies it one action at a time and keeps a durable history that it can
undo. A Web process, a desktop shell and any number of CLI processes share one
SQLite database, one lock file and the user's files. This directory holds TLA+
models of the program, the TLC runs that check them on small instances, and
TLAPS proofs that hold for every instance.

## Inventory

Source paths are relative to `src/omym2/` of the repository.

| Component | State it keeps | Hard behaviour | What makes it correct | Modules |
| --- | --- | --- | --- | --- |
| Operation runtime (`platform/operation_composition.py`, `features/operations`, `adapters/fs/exclusive_operation_lock.py`) | lock file, executor queue, `operations` rows | lock handed from a request thread to a task, retries, crashes, reconciliation of orphans | exclusive work, one fate per Plan, one effect per request key, orphans settle | OperationLedger, OperationRuntime |
| Apply (`features/apply`) | `plan_actions`, `file_events`, `tracks`, `companion_assets` | crash between evidence and mutation, partial failure, companions and owners, root changes | evidence agrees with the disk, the reported outcome is the real one | ApplyPlan, ApplyAction |
| File mover (`adapters/fs/file_mover.py`, `win32_file_handles.py`) | files | other programs act between two system calls | never replaces or loses a file of others | FileMover, WindowsMover |
| Planning (`features/add`, `organize`, `refresh`, `undo`) | `plans`, `plan_actions`, rows of an organize | files and rows change between scan and save; conflicts; an Undo requested twice | what is reviewed can be applied; nothing is undone twice | AddPlanner, OrganizePlanner, RefreshPlanner, UndoPlanner, ManagedLibrary |
| Check (`features/check`) | `check_runs`, `check_issues` | many sources of truth at once | silent in a Library only this program changed | LibraryCheck |
| Policies (`domain/services`) | none | boundary cases of pure algorithms | portable names, albums kept together, companions follow their audio | PathNames, Companions, CompanionRecovery, LibraryState |
| Settings (`adapters/config`, `features/settings`) | `config.toml`, open forms | several forms, a text editor, power loss, six lists of the same fields | no save overwrites what its form does not show; what is saved reads back | SettingsStore, SettingsCodec |
| Artist names (`features/artist_names`, provider cadence) | accepted names, cadence row | several processes, clocks set back, whole mappings replaced | a known name sticks, requests keep their distance | ArtistNames, ArtistReconciliation |
| Migrations (`adapters/db/sqlite/migration_runner.py`) | `schema_migrations` | crash half way, several processes at once | each migration once, in order | SchemaMigrations |
| Listings (`repositories.py`, `shared/pagination.py`) | cursors | rows change between pages | every lasting row on one page | Paging |
| Readers (`adapters/fs`) | none | files change while read | a snapshot is of one file state | SnapshotReaders |
| Desktop shell (`adapters/desktop`, `platform/desktop_*`) | threads, port, window | three threads end in any order | nothing outlives the exit, the exit code is true | DesktopShell |
| Web adapter and frontend (`adapters/web`, `web/src`) | a page's Operation, guard, tokens | lost answers, restarts, other clients | the page says nothing false | OperationClient, Capabilities |
| CLI (`adapters/cli`) | none durable | other processes between two reads, partial failure | exit code and print-out are true | CommandLine |

They interact as follows. An HTTP handler or a CLI command calls the Operation
runtime. The runtime takes the exclusive lock, reconciles whatever an earlier
process left active, records the accepted Operation (an Apply also claims its
Plan and creates its Run in the same transaction), and runs the work, in the
executor's only thread or inline. The work (planning, checking or applying)
ends with a transaction that writes its results and the Operation's terminal
status together. Reconciliation settles the Plans and Runs of dead Applies from
their rows alone. Readers see nothing but committed rows. Settings are a file
of their own, read at the start of each planning Operation and saved beside it.

## Modules

Three layers stand on each other: who may work (`OperationRuntime`), one Apply
step by step (`ApplyPlan`, on `FileMover`), and the Library over many
Operations (`ManagedLibrary`). Each takes from the one below only what that one
is shown to do: `ApplyPlan` starts claimed and relies on the work running once,
alone and undisturbed (`ExclusiveWork`, `LiveOperationUndisturbed`);
`ManagedLibrary` takes an action as one step that may fail or be cut short,
which is what `ApplyPlan` shows of it (`EvidenceIsTrue`, `DependenciesFirst`).
The services beside them share no state with each other, so `MCServices` runs
them one at a time under one specification.

| Module | Models |
| --- | --- |
| `OperationLedger` | abstract specification: what the `operations`, `plans` and `runs` rows promise a reader, without locks, threads or processes |
| `OperationRuntime`, `OperationRuntimeProofs`, `OperationAnswersProofs`, `MCOperationRuntime` | callers, executor task, supervisor, lock, rows, retention, crashes; proofs, refinement of the ledger included, and what follows from them for callers and rows; instances |
| `ApplyPlan`, `ApplyPlanProofs`, `MCApplyPlan`, `MCApplyShapes` | the worker of one claimed Apply, its rows, the files, other programs and the reconciliation of an interrupted Apply; proofs; the shapes of Plan the planners create |
| `FileMover`, `FileMoverProofs` | one POSIX `move`, system call by system call, among other programs; proofs |
| `RunHistory` | abstract specification: what the history of Runs promises who undoes one of them |
| `LibraryState` | the files and rows of one Library, paths, collisions, the records of Plans |
| `Companions`, `CompanionRecovery` | which lyrics and artwork follow which audio file, and which failed companion moves may be planned again |
| `AddPlanner`, `OrganizePlanner`, `RefreshPlanner`, `UndoPlanner` | what each planner saves, from what it saw and when |
| `ApplyAction`, `LibraryCheck` | why an action is refused and the row it writes; the issues of a Check |
| `ManagedLibrary`, `MCManagedLibrary` | all of these over the life of one Library; small Libraries |
| `SettingsStore`, `SettingsCodec` | saves and readers of the settings file; its formats |
| `SchemaMigrations`, `Paging`, `SnapshotReaders` | migrations, listings, reads of files that change |
| `ArtistNames`, `ArtistReconciliation`, `PathNames` | lookups and mappings; names in paths of an Add; the path policy, albums and artist ids |
| `DesktopShell`, `OperationClient`, `Capabilities`, `CommandLine` | the three front ends |
| `WindowsMover` | one Windows `move`, native call by native call |
| `PersistenceProofs` | proofs about `SettingsStore`, `SettingsCodec`, `SchemaMigrations`, `ArtistNames`, `Paging` |
| `FilesystemProofs` | proofs about `WindowsMover`, `SnapshotReaders`, `PathNames` |
| `LibraryProofs` | proofs about `ManagedLibrary`, refinement of the history included |
| `ClientProofs` | proofs about `DesktopShell`, `OperationClient`, `Capabilities`, `CommandLine` |
| `MCServices` | the twelve services above, for TLC |

### OperationRuntime

A step is one SQLite transaction or one lock or thread event. `pc[c]` is where
a request thread or CLI process stands (`accept`, `accept_apply`, `run_inline`,
`run_inline_apply`, `execute_exclusive` share one sequence: `lock`, `reconcile`,
`cleanup`, `reserve`, then `submit` for the Web and `inline` for the CLI).
`exec[o]` is where the work stands (`_run` and the bodies of the inline
functions: `mark`, `work`, `check`, `fail`, `leave`). `lock` is the lock file
with its process-local set of claimed paths, named after the caller whose
ExitStack holds it; `submit` hands that stack to the task. `sup` is the
supervisor thread. `status`, `row` and `age` are a row of `operations` and its
two retention deadlines; `plan` and `run` are the status columns. Every
transaction may raise (`CallerFails`, `ExecutionFails`, `SupervisorFails`),
`submit` may raise when the executor is shut down or cannot start its thread,
and each process may crash at any step.

`SubmitRaises` models a detail of `ThreadPoolExecutor`: when its first thread
cannot be started the exception comes after the task was queued, so a task may
run later whose Operation was interrupted and whose ExitStack is closed.
`ExclusiveWork` shows that `MarkOperationRunning` stops it.

### ApplyPlan

`pc` follows `_execute_confirmed` and the processing of one action: `next`,
`root`, `verify`, `capture`, `intend` (the pending FileEvent), the mover,
`moved` or `unmoved` (the recorded outcome), `finish`.
`status`, `event`, `number` and `managed` are the rows; `source` and `target`
say whose file is at the two paths. `runs.status` is written with
`plans.status` in every transaction, so `plan` stands for both. The durable
provenance an Undo target, a companion or an unprocessed file needs is
abstracted to the constant `Stale`, except for dependencies and companion
ownership, which are modelled. `EditSource`, `OccupyTarget` and `Relink` are
other programs; no Operation changes `libraries.root_path` today, the worker
guards against it.

The mover is the six steps that its caller's properties tell apart: `open`
(the descriptor holds the captured source), `claim` (the link or exclusive
create), `check` (the claimed target and the source are compared), `unlink` of
the source, and after a failure `cleanup` (the stat of `_unlink_if_matches`)
and `discard` (its unlink). A check and the call it guards are two steps, so
another program may come in between: `raced` records that it did, and a target
replaced by a file that got the claim's inode is a `namesake`, which the mover
takes for its own. `EvidenceIsTrue` and `ForeignFilesSurvive` say with these
two what the code cannot promise. The two comparisons of `check` guard no call
between them and commute with edits, so they are one step. `FileMover` has every
call.

### FileMover

`pc` names the next system call of `FilesystemFileMover.move`: `open`,
`verify` (`_verify_opened_source`), `claim` (the hard link, or the exclusive
create without a source root or where a link is refused), `linked` and `hash`,
or `created`, `copy` and `copied`, then `anchor`
(`_verify_claimed_target_below_root`), `recheck`, `rehash`, `match` and
`unlink` (`_unlink_verified_source`), and `cleanup` and `discard`
(`_unlink_if_matches`) after a failure. `entry` says which file has the name at
the source and at the target, `bytes` what it holds, `drift` which stat fields
of the reviewed file differ from those the mover holds (the hard link changes
the ctime, so `CheckLink` takes a new reading), `strayed` which parents were
moved away, `held` whether the copy's descriptor is open. Other programs edit
files in place (with or without putting the mtime back), change modes, remove
or replace names and move parents between any two calls. `raced` and `history`
record what they did where the code cannot see it, and so state exactly how far
the mover's promises reach.

The state at every step is what a process that dies there leaves, so the
invariants cover a crash. They do not cover a power loss: the copy is not
synced before the source is removed. Runs of system calls whose interleaving a
later check sees anyway are one step: the walk and open of the source with its
first comparison, the walk of a check with the stats at its end, and an fstat
with the stat or hash that follows it. Apply always passes a target root, and
the route without one is left out. The Windows handles, which deny other
programs the entries while they are held, are in `WindowsMover`.

### ManagedLibrary

`files` maps paths to content, `tracks` and `assets` are the rows, `plans` the
Plans in the order of creation with their actions, events and dependencies.
`work` is the Operation under way. Add, Organize and Refresh have the steps of
the code: they read settings and rows and list (`StartPlan`), capture
(`Capture`), take the inventory of companions and leftovers (`ReadInventory`),
judge every target (`JudgeAdd`, `JudgeOrganize`, `JudgeRefresh`) and `Save`;
Undo judges and saves (`JudgeUndo`, `Save`), and its transaction holds off other
rows, not other programs. Files are edited before each of these steps, and the
fields of `work` keep what the steps before saw. The looks at the targets are
one step: each path is looked at once, so an edit between two looks is one
before or after all of them. `late` holds what was edited between the judging
and the saving, which `PlansAreSound` excepts: nothing looks again, and a Plan
may be saved whose target has just been filled. Apply finds that out. An Apply takes one action per step; `Refusal` is the sequence of
checks of `ApplyPlanUseCase` for its kind. A crash, or a failing worker, and the
reconciliation that follows are one step: the reconciliation computes from rows
that nothing writes meanwhile. Content is a record of an identity and a tag;
where the policy puts a tag is the constant `Place`, and how it computes that is
`PathNames`.

### The services

`SettingsStore`: a version is a whole file. `save.pc` follows
`TomlConfigStore.save` (the check under the settings lock, the temporary file,
the second check, `os.replace`, the sync of the directory, the answer);
`durable` holds every version a power loss may leave. Forms type, send and
retry by themselves. `SettingsCodec`: the classes of values that the form
control, the domain object, the candidate's checks, the writer and the reader
treat alike, field by field.

`SchemaMigrations`: `runners[p]` follows `MigrationRunner` in one process;
`writer` is SQLite's write lock, whose transaction a death rolls back.

`ArtistNames`: one planning Operation's lookups with retries, the cadence row,
forms that replace the mapping, the wall clock (`now`, with `stepped` when it
was set) and the monotonic wait. `ArtistReconciliation`: the order of the
renders of one Add and the cache of artist ids between them.

`Paging`: each list has its order, its cursor predicate and the key it takes
from a page's last row; these are written apart in the repositories and are
apart in the model. `SnapshotReaders`: one read of each of eight kinds, call
by call, with `read.seen` the set of file states its result came from.

`PathNames`: a step answers one request, so that every input is an initial
choice: a render of a template, an album batch, an artist id.

`DesktopShell`: `main`, `server` and `monitor` are the threads, `listener`
the socket. `OperationClient`: `page` is the frontend's state, `wire` the
requests not yet answered, `process` the server with the token it accepts,
`ledger` and `outcome` the rows. A request is handled in the steps of
`OperationRuntime.accept` and `accept_apply`: the replay lookup (`Look`), the
lock (`TakeLock`), the second lookup under a busy lock (`SecondLook`), the
reservation (`Reserve`), the dispatch (`Dispatch`); any number of request threads
are between them at once. The client never resends a mutation after a failed
connection (`docs/contracts/web-api.md:111`), but a browser may (`Resend`), so two
copies of one request can overlap. Then one of them can find the lock taken by
the other, which has not committed yet, see no row in either lookup and be
answered 409, and the other copy starts the work. The key keeps it from being
done twice; only the answer is wrong. `overtaken` remembers the keys that were
refused while this process could still accept another copy, and
`ClientTellsTruth` excepts those alone.
`Capabilities`: the same rows read by the page's code and by the use case's.
`CommandLine`: `argv` is every command line up to a length over an alphabet per
command, `docket` the Plans and Runs that other processes change between two
reads, with the actions settled and the events logged counted apart: an action
that failed before its FileEvent, or that a reconciliation settled, has none. `WindowsMover`: `original` and `made` are the two files, `sharer` a
program that has the source open or mapped.

## Runs

| Run | Shows |
| --- | --- |
| `OperationRace` | a Web apply, a CLI apply and a cancellation of one Plan, two faults, fair threads: one fate, rows that agree, the ledger implemented; orphans settle and the lock comes back |
| `OperationRetry` | two requests with one key and a third that reuses it, in an executor that may refuse a task, retention deadlines passing: a retained key works once, a stale task never works, no reconciliation disturbs live work, answers are true, terminal rows stay |
| `ApplyRefresh` | a refresh Plan with a blocked action, an update in place, two moves and their artwork, two edits, any crash or error: evidence, order, outcome |
| `ApplyShapes` | an Add, an Undo and an organize Plan under the same faults: the Apply settles |
| `FileMove` | a move on every route, any call raising, an interrupt, and three steps of other programs |
| `Library` | six Libraries through up to three Plans with edits, changed settings and one fault |
| `Services` | the twelve services, each alone |
| `ApplyOrganizeRegisters`, `FileMoveInodeReuse`, `LibraryCompanions`, `ArtistIdCache`, `SettingsUnreadable` | expected violations, see Findings |

`Library` checks that a saved Plan can be applied in the world it is saved in
(`PlansAreSound`), that nothing of a Plan is refused while nothing changed
(`PlannedActionsWork`), that rows follow files (`RowsFollowFiles`), that the
history of Runs is implemented (`RunsAreUndone`), nothing is reversed twice
(`ReversedOnce`), registration is earned (`RegistrationIsEarned`) and Check is silent when it
should be (`CheckIsQuiet`). `Services` has one property per service; each is
stated, with its exceptions, at the end of the service's module. An exception
is always a recorded event (`raced`, `late`, `overtaken`, `mishaps`,
`stepped`, `TakenTwice`): the
properties say exactly how far the code's promise reaches.

### Bounds

The Operation runs count crashes, shutdowns and failed transactions in
`MaxFaults`: two let a failure handler itself fail. Two callers of one Plan and
one third party are enough for every pair of steps to interleave, since the
lock and the single active Operation leave room for one owner and one loser.
`OperationRetry` has three requests, because its subject is the keys: two of one
request and one of another with that key. Its two faults make a submit fail and
something else go wrong after it.

`MaxEdits` counts edits by other programs in an Apply: two reach both paths of
one action, or a file and the root. `MaxDisturbances` is three for a move: one
to pass a check, one to fail a later one and one against the cleanup. Plans have
three to five actions with every kind, shared and chained dependencies, and a
failed action before and after a good one.

A world of `MCManagedLibrary` has two to five files, a set of requests, edits
and policies, at most three Plans and at most `limit` edits: enough for a Plan, its
undo and the undo's retry, or for two Plans reviewed at once, with an edit at any
of the moments a planner looks at files. The worlds are the situations the
planners distinguish: an import with shared artwork and leftovers, one with a
duplicate, a Library to be organized, two covers that want one place, a
registered Library before and after its files were retagged.

In `Services`: two forms, and three versions of a file, make one save race
another and an editor; three processes meet in a migration (one writes, one
waits, one checks); three rows with two ranks and a missing one, pages of one
row and one change exercise every cursor; two swaps put a directory there and
back; names of up to three characters over an alphabet with every class the
sanitizer knows, and limits of 1, 3 and 4 bytes around their lengths; batches
of three files tie two years and break the tie; two clicks, one death of the
server and one request repeated by the browser make copies of one request, and
another click's, meet in the server; command lines of three
arguments reach every combination the parsers refuse but a repeated `--library`;
two steps of other processes surround every read of a command. Numbers that the
code has in thousands (page sizes, retry counts, intervals) are small here,
since only whether one is exhausted matters.

### Fairness

`OperationRace` assumes weak fairness of started callers, of the execution of
each Operation and of the supervisor's loop: threads run on, the supervisor's
wait has a timeout, and work returns or raises. Nothing makes a user issue
requests, a process restart or a deadline pass; `NothingHangs` says what
follows if the Web process stays up. Taking the lock needs no fairness of its
own, because a busy lock ends the pass or the request. `ApplyShapes` assumes
weak fairness of the worker and of the reconciliation, which `NothingHangs`
justifies. The other runs check safety only. `CHECK_DEADLOCK FALSE` stands
where the system really stops: a mover that returned, a Library whose Plans
are spent, a service that has answered.

## Proofs

`OperationRuntimeProofs` proves type correctness, `ExclusiveWork`,
`PlanRunOperationAgree`, `KeyWorksOnce` and the refinement of
`OperationLedger`, for any sets of callers and Plans. None of these is
inductive by itself. The inductive invariant `IInv` adds `Threads` (who may
hold the lock at each program counter, that at most one execution is under way
and that an execution which still owns the lock is the one whose Operation is
active) and `Rows` (at most one active Operation, keys of retained rows
distinct, rows present exactly for accepted Operations, and the agreement of
the three rows). The refinement follows action by action: acceptance maps to
`Accept`, `MarkRunning` to `StartWork`, terminal writes and reconciliations to
`Settle` (there is at most one active Operation to settle), cleanup to
`Forget`, cancellation and expiry to `Withdraw`, all else to stuttering.

The assumptions are those of the module: the sets of callers are disjoint,
targets are Plans, and a CLI invocation's key is its own (`new_uuid7`).

`OperationAnswersProofs` goes on from there. `TerminalIsFinal` follows from the
refinement: only `Settle`, `StartWork` and `Accept` of the ledger write a status
and none of them an ended one's. `LiveOperationUndisturbed` follows from
`Threads`, since who reconciles must hold the lock that live work holds.
`AnswersAreTrue` needs five facts of its own (`AInv`): what a refused or
replayed caller left behind, that an accepted one has a row, that work is
entered only after the acceptance, and that the task a failed submit left in the
queue cannot be taken while its Operation is active. `SinglePlanFate` bounds a cardinality, and is proved as the
uniqueness of what counts: a Run, a cancellation and an expiry all take the Plan
away from `ready`, and nothing brings it back.

`ApplyPlanProofs` proves, for every number of actions, kinds, dependencies,
owners, blocked and stale actions: type correctness, `EvidenceIsTrue`,
`DependenciesFirst`, `OutcomeIsTrue`, `EvidenceIsFinal`,
`ForeignFilesSurvive`, `RegistrationIsEarned` (an Apply registers the Library
only as the end of an organize Plan all of whose actions were applied),
`EventsAreOrdered` and `StopsAtRelink`. The
inductive invariant adds what the worker has behind it and before it
(`Behind`, `Ahead`: actions before `current` are decided, later ones
untouched), what stands at the current program counter (`Standing`,
`Checked`), that what the mover checked still holds at the unlink it guards or
was raced (`Guarded`, on which `ForeignFilesSurvive` rests), that rows agree (`RowsAgree`) and that the counters are exactly
what the rows add up to (`Counting`, `Tally`), which is what makes the
worker's verdict equal to the reconciliation's. The numbers of FileEvents need
that the worker's sequence counts the recorded events (`SequenceCounts`), and
the stop at a changed root that the worker is past the claim of whatever
strayed (`LastStray`).

`FileMoverProofs` proves, for any number of steps of other programs, type
correctness and, on a filesystem that does not reuse inode numbers
(`InodeReuse = FALSE`), `NothingLost`, `MovedIsMoved`, `FailureUndoesTheClaim`
and `TouchesOnlyItsOwn`. The invariant `Inv` says for each program counter what
the checks passed so far still guarantee: the claim stands at the target once
`anchor` was passed (`TargetKept`), the copy and the source hold the reviewed
content once hashed (`CopyIsTrue`, `OriginalIsTrue`), the last stat still holds
at the unlink unless somebody raced it (`StatHolds`). `NothingLost` needs all
three: once the source name is gone, only they say that the target has it.

`PersistenceProofs` proves `SavesAreKept`, `SettingsReadBack`, `SchemaIsWhole`,
`LookupsAreOrderly` and `WalksAreComplete` for any number of forms, processes,
migrations, keys, names, rows and changes. A form sends the revision of a version its draft contains
(`BasesKnown`), so what is about to be replaced is what the second check saw
(`ReplacesKnown`), or raced with it; the power loss needs that versions only
grow, on the way from the temporary file to the synced directory (`SaveIsNewer`,
`DiskIsNewer`). Of the migrations, `AppliedIsPrefix` is the core: the rows are a
prefix, each script's effect is there exactly with its row (`EffectsFit`), who
marks holds the write lock for the migration after those it read (`WriterFits`),
and what any process read is an earlier prefix (`ReadsAreOld`). Lookups rest on
the wall clock not having run further since the last reservation than time has
passed, unless it was set forward (`ClockIsSlow`). Of the listings,
`ListsAreOrdered` says that each ORDER BY is a strict total order of the list's
keys and that the predicate after a cursor is that same order; `PagesHaveEnds`,
that whatever is left has an entry at which a page of any length ends, by
counting (rows and groups are finite). So what of the lasting entries has been
given is what the cursor has passed (`PagingInv`).
Settings are read back as they were asked for because what Settings reads of any
file each field accepts (`SnapshotsAreAccepted`), a form holds only values its
fields may have (`FormFits`), and the entry that the writer makes of an accepted
value is read as that value; `CodecInv` adds the shape of a file that somebody
edits (`FileType`). Assumptions: times and the number of migrations are natural
numbers.

`FilesystemProofs` proves `WindowsMoveIsSafe` and `SnapshotsAreOfOneFile` for
any number of edits, replacements and swaps, and `AlbumsAgree`, the part of
`NamesAreSound` that is about albums, for any number of files. On Windows the
handle that is held denies others the name, so `SourceIsHeld`, `ClaimIsMovers` and `HashesHold` carry
what each check established to the deletion, which is marked last
(`MarkedLast`); `NothingLeft` is the undoing. A snapshot is whole because what
a reader saw of the file it opened is no older than what was listed, and a file
does not return to an earlier state (`SnapshotHolds`); what is read by path is
held together by `AudioHolds` and `ListingHolds` as long as no directory went
there and back. That one of an album's files tells its year needs a greatest and
a least year (`MaxIs`, `MinIs`, from the well-founded order of the numbers) and,
for the most frequent one, a greatest count (`YearIsTold`); a disc is left out
only where it may be because the total bounds every number it is taken from
(`TotalIs`); and the order of the files does not matter because a list and its
reverse count the same files, by a bijection of their positions (`MirrorCounts`).
Assumptions: there are at least two files to read; a tag's numbers are natural,
0 for a missing one.

`ClientProofs` proves `DesktopEndsTruthfully`, `ClientTellsTruth`,
`OffersAreHonest` and `CommandsTellTruth`. For the desktop the invariant says
who holds the port (`PortIsHeld`), what the main thread knows of the server
(`ServerIsKnown`) and that every ending and closing has its cause recorded before
it (`EndingsHaveCauses`, `ClosingsHaveCauses`), for any number of probes. For a
page, with any number of clicks, other clients and restarts, it says that a
request on the wire is one of a click that was made (`RequestsAreKnown`), that
what a request thread has in hand is of this process, and what it is about to
dispatch still queued (`HandlersHold`), that a refused key outside `overtaken`
has no row, and no copy that this process could accept, past the answer
(`RefusalsStand`), and that an answer or poll in the page's hands is still true
when it is used (`AnswerHolds`, `PollHolds`), because an ended Operation stays
ended (`RowsTellEndings`). What pages offer needs three facts about the rows: one
Library, Undo Plans only of Runs with something to reverse, and that a ready Undo
Plan is the only one still to come (`ReadyUndoIsFresh`). A command, with
arguments of any length, Plans of any number of actions and any number of steps
of other processes, keeps which stages belong to an application and which to a
reading (`CommandGoesOn`); a Plan seen as settled is settled for good with all
its actions (`DocketHolds`, `RowsHold`); and a listing goes down by one from the
newest row there was (`Descends`), because Runs are numbered without a gap.
Assumptions: the empty click is no click, the roots are finitely many and at
least one, a Plan has at least one action.

`LibraryProofs` proves `ReversedOnce` for every Library, policy, request and
edit, any number of Plans and of faults. The property is not inductive: that no
event was reversed twice so far says nothing of the Undo Plan that is about to
run. `LibraryInv` adds that a Run has at most one Undo Plan that is ready, under
way or applied (`OneAlive`) and that what an open one is about to reverse, no
other attempt has reversed (`OpenIsFresh`). The first makes the second stay
true: only an open Plan's actions gain events, and while one is open no rival
is. Cancel, Claim, every outcome of an action and the reconciliation of a crash
are one lemma (`Rewrite`: an open Plan may be rewritten but keeps what its
actions reverse), and every planner another (`Addition`: a new Plan has moved
nothing). That an Undo Plan takes its actions from what is left needs one fact
about counting (`LastFirstTakes`): a finite set of numbers can be listed from
its last to its first. That the set is finite is part of the invariant, because
each step gives one action an event; what the other planners compute does not
matter. Between its judging and its saving a Plan exists only in `work.saved`;
the invariant says of it what it says of a saved one (`Fits`).

`NothingIsLeftBehind` and the refinement of `RunHistory` go further: a file is
put back only after all that followed it in its Run, over any number of attempts
to undo it, some of which failed, were cancelled or crashed half way. That needs
that the actions of a Plan are decided in order (`OpenInOrder`), that an
inverse's dependencies are the inverses of what followed its event
(`InversesFit`), what each outcome says of its event (`OutcomesAgree`), that the
source of an Undo has settled (`SourcesAreSettled`), and, for the attempts that
ended, the property itself (`LeaveFirst`); `OrderInv` is their conjunction. A
Library step adds a Plan, takes one further, or leaves the history alone: a new
Plan maps to `Begin`, an action that ended to `MoveFile` or `PutBack`, a Plan
that settled or was cancelled to `End`, all else to stuttering
(`ImplementsHistory`). There are no assumptions about the constants beyond the
module's own.

Bounds that TLC needs (`MaxStirs`, `MaxRestarts`, `MaxResends`, `MaxUndos`, `MaxDisturbances`
and the like) are guards of the modules, so the theorems hold for every value of
them, those beyond the runs included.

Model-checked only:

- The liveness properties `NothingHangs` and `ApplySettles`: liveness under
  fairness is beyond the prover.
- `ManagedLibrary`'s `RowsFollowFiles`, and what rests on it:
  `PlannedActionsWork`, `PlansAreSound`, `CheckIsQuiet`, `RegistrationIsEarned`.
  `RowsFollowFiles` does not hold of every Library: the code compares the content
  of an audio action's source and not its Track (`apply_plan.py:232`, `:1175`),
  so where two managed files hold one content a stale Plan may move the other
  one's file and rewrite the wrong row. The Libraries of the run have no such
  pair, and what planners compute there are folds over sequences, whose results
  for every input need induction over data. Simulation of larger Libraries (some
  ten million states) found no violation of `PlannedActionsWork` and
  `CheckIsQuiet`.
- The paths and artist ids of `NamesAreSound`, which are folds too. Its albums are
  proved.

No property says that a companion keeps its owner: one that a later Plan found
may outlive its Track when the Add is undone (`docs/execution/undo.md:64`).

## Findings

`ApplyOrganizeRegisters`: `docs/execution/organize.md:35` promises that the
Library becomes registered when an organize Plan applies successfully and no
blocking issue remains. Registration is part of `_finish_apply`. If the process
dies, or that transaction raises, after the last action was applied, the
reconciliation derives `applied` and `succeeded` from the rows and does not
register the Library.

`FileMoveInodeReuse`: `docs/contracts/path-identity-storage.md:48` promises that
failure cleanup deletes only the exact target object this attempt claimed, and
line 46 that the claimed target is retained until the move ends.
`_claim_and_copy_at` closes the copy's descriptor before the checks that follow,
and identity is then device and inode number alone. If another program replaces
the copy and the filesystem reuses its inode number, the cleanup deletes that
program's file. The hard-link route and the Windows handles are not affected:
there the descriptor or handle stays open.

`LibraryCompanions`: `docs/execution/apply.md:142` refuses a companion whose
provenance changed after planning. Organize and Refresh plan a companion with
the Track the association chose, but with the asset row found at its path,
whose owner may be another Track. Apply compares the two and refuses every such
action, although nothing changed.

`ArtistIdCache`: `docs/execution/add.md:36` has Add stop when a resolved name would
move a Track of the Library. The path policy keeps the artist id it generated
for a raw name, and Add renders its own paths with the resolved name first, so
both renders of the guard use that id and no difference shows.

`SettingsUnreadable`: a test says that saved TOML round-trips. A character
beyond U+FFFF is written as a surrogate pair, which the TOML reader refuses; a
path component of wide blanks is accepted by the domain and refused by the
reader. The save answers success and the file cannot be read from then on.

### Observations without a run

These were met while modelling. No document contradicts the code, or the
disagreement is one of wording; properties that touch them state the exception.

Apply and mover:

- A `KeyboardInterrupt` that is raised with the return of the source's unlink,
  or of `delete_exact` on Windows, makes the handler delete the target as well,
  and neither name is left (`NothingLost` and `WindowsMoveIsSafe` except it).
- A copied file is not synced before its source is removed
  (`file_mover.py:947`): a power loss may keep the removal and lose the
  content. No property covers this hazard: the models have no write cache
  under the mover.
- `duplicate_binary_fd` (`file_mover.py:273`) is called before the `try`; when it
  fails the empty claimed target stays.
- An older organize Plan, applied after later changes, may register the Library
  (`apply_plan.py:1284`); `RegistrationIsEarned` in `ManagedLibrary` speaks of
  the latest Plan.
- A retry that fails before its FileEvent makes a companion's earlier failure
  unrecoverable. A crash that leaves an event pending, followed by an Add of
  the same file, gives two active rows, which Check reports.
- Two reviewed Plans that know one companion under two asset ids leave a stale
  asset row (`TakenTwice`).

Planning and undo:

- A ready Plan is applied as reviewed when an identical file is back at its
  source. Audio that arrives between the two scans of Add is collected as a leftover.
- `get_run_detail.py:102` offers an undo only for a Run with moved audio, while
  `docs/execution/undo.md` lists four reversible event types and the use case
  accepts them all.
- An Undo Plan with blocked actions becomes `applied` when the rest is, and its
  Run cannot be undone again. Undoing the Add that brought a Track leaves the
  companions a later Plan recovered (`undo.md:64`). Undoing an organize leaves
  the Library registered.
- Albums are grouped by raw names before the artist names are resolved.
- With several files, one whose tags raise `ValueError` fails the whole batch.
- A template that begins with `{disc}` yields a rooted path when the disc is
  hidden, which is refused as `invalid_path`.

Settings and lookups:

- The revision in a save's answer is read from the path after the replacement
  (`toml_config_store.py:192-202`); a file put there in between is taken for the
  saved one (`raced`). A process that is killed leaves its temporary file.
- `STORAGE.md:82` says that no exclusive lock is held during a provider's wait. The
  composition holds the Operation's lock around the whole planning.
- A clock set far back makes a lookup wait for as long.
- A listing by path cannot see that a directory was swapped there and back
  (`docs/contracts/path-identity-storage.md:46`); the mover fails closed later. On
  Windows the "change time" is the creation time, so that a rewrite which restores
  size and mtime is invisible.

Front ends:

- The CLI's prompt does not name the Plan, and `apply latest` picks it before the
  confirmation, so a newer ready Plan may exist when it is applied. `undo`
  prints "Undo plan created" for an existing Plan as well. "Plan remains ready"
  may be untrue if another process took the Plan meanwhile.
- The Web guard stays active until a reload when polling stops on an error that
  is not final. `PlanExecutionControls` has no key and keeps its state when the
  page changes its Plan.
- Check is disabled in the Web for Libraries whose check the use case accepts.
  `LibraryStatus.STALE` is never stored.

## Plan

1. done: the runtime, one Apply, the mover, with their proofs.
2. done: the planners, Check and the life of a Library; the services.
3. done: proofs of every safety property of the runtime, of one Apply, and of
   the services that keep state across steps; of the listings and the settings'
   formats; of albums; that nothing is reversed twice or left behind, and that a
   Library implements the history of Runs.
4. Left. Refinement: an abstract move (a file has its reviewed content at one of two
   names) that `FileMover`, `WindowsMover` and the two mover steps of
   `ApplyPlan` implement; an abstract settings register behind `SettingsStore`.

## Not modelled

- Row mapping in the repositories, serialisation in Web routes, rendering in the
  CLI and the frontend, filters of listings: they copy and select data, keep no
  state and are covered by tests that compare values. Listings' cursors and the
  capabilities the pages show are modelled.
- The metadata reader: a wrapper of a tag library. What it reads is the tag of a
  model's file.
- How a provider's candidates are ranked and romanised: a lookup answers any name
  or none.
- The checks of the WebView2 installation, packaging, benchmarks and audits under
  `scripts/`: they read an environment and stop.
- The CLI commands `config`, `inspect` and `settings`: they print a file or the
  settings, or start the server.
- A power loss under the mover, see above.
