-------------------------- MODULE SchemaMigrations --------------------------
(***************************************************************************)
(* Several processes of one release open one SQLite database, each at its  *)
(* first UnitOfWork (migration_runner.py): they create or upgrade its      *)
(* schema while others do, and die at any moment.                          *)
(***************************************************************************)
EXTENDS Naturals

CONSTANTS Processes,
          Packaged,     \* the number of migrations the release packages
          MaxDeaths     \* bound on the processes that die

ASSUME SchemaAssumption == Packaged \in Nat /\ "none" \notin Processes

VARIABLES
    tables,     \* "marker": schema_migrations, "app": those of the baseline
    applied,    \* the migrations schema_migrations names
    effects,    \* per migration: how often its script took effect
    writer,     \* the transaction that holds the write lock: process, migration
    runners,    \* per process: where migrate_database is and what it read
    deaths

schemaVars == <<tables, applied, effects, writer, runners, deaths>>

Migrations == 1 .. Packaged
NoWriter == [by |-> "none"]
Fresh == [pc |-> "new", tables |-> {}, applied |-> {}]

SchemaInit ==
    /\ \* no file, or a database that an earlier release left
       \E n \in 0 .. Packaged :
          /\ applied = 1 .. n
          /\ tables = IF n = 0 THEN {} ELSE {"marker", "app"}
          /\ effects = [m \in Migrations |-> IF m <= n THEN 1 ELSE 0]
    /\ writer = NoWriter /\ deaths = 0
    /\ runners = [p \in Processes |-> Fresh]

Running(p, pc) == runners[p].pc = pc
StepTo(p, pc) == runners' = [runners EXCEPT ![p].pc = pc]

\* ensure_database_migrated, on a process that has not: list the tables.
ListTables(p) ==
    /\ Running(p, "new")
    /\ runners' = [runners EXCEPT ![p] = [@ EXCEPT !.pc = "listed", !.tables = tables]]
    /\ UNCHANGED <<tables, applied, effects, writer, deaths>>

\* Without the marker table the database has to be empty and the table is
\* created, if nobody else did (CREATE ... IF NOT EXISTS); with it, its rows are read.
ReadApplied(p) ==
    /\ Running(p, "listed")
    /\ writer = NoWriter \/ "marker" \in runners[p].tables
    /\ IF "marker" \in runners[p].tables
       THEN /\ runners' = [runners EXCEPT ![p] = [@ EXCEPT !.pc = "validate", !.applied = applied]]
            /\ UNCHANGED tables
       ELSE IF runners[p].tables # {}
       THEN StepTo(p, "refused") /\ UNCHANGED tables
       ELSE /\ tables' = tables \cup {"marker"}
            /\ StepTo(p, "validate")
    /\ UNCHANGED <<applied, effects, writer, deaths>>

\* Tables without a migration, or not the first of the packaged migrations, are
\* taken for a pre-release database, to be deleted by the user.
Validate(p) ==
    /\ Running(p, "validate")
    /\ LET read == runners[p].applied IN
       IF \/ "app" \in runners[p].tables /\ read = {}
          \/ \A n \in 0 .. Packaged : read # 1 .. n
       THEN StepTo(p, "refused")
       ELSE StepTo(p, "apply")
    /\ UNCHANGED <<tables, applied, effects, writer, deaths>>

\* The migrations this process still has to apply, by what it read.
Pending(p) == Migrations \ runners[p].applied
NextMigration(p) == CHOOSE m \in Pending(p) : \A n \in Pending(p) : m <= n

\* Mutant of RunScript: the script is not part of a transaction.
RunsOutsideTransaction(p) ==
    /\ Running(p, "apply") /\ writer = NoWriter /\ Pending(p) # {}
    /\ IF effects[NextMigration(p)] > 0
       THEN StepTo(p, "failed") /\ UNCHANGED <<tables, effects, writer>>
       ELSE /\ writer' = [by |-> p, m |-> NextMigration(p)]
            /\ tables' = tables \cup {"app"}
            /\ effects' = [effects EXCEPT ![NextMigration(p)] = 1]
            /\ StepTo(p, "mark")
    /\ UNCHANGED <<applied, deaths>>

\* BEGIN and the script, under SQLite's write lock. The baseline creates tables,
\* which fails when they exist; the later scripts rebuild theirs.
RunScript(p) ==
    /\ Running(p, "apply") /\ writer = NoWriter /\ Pending(p) # {}
    /\ IF NextMigration(p) = 1 /\ "app" \in tables
       THEN StepTo(p, "failed") /\ UNCHANGED writer
       ELSE /\ writer' = [by |-> p, m |-> NextMigration(p)]
            /\ StepTo(p, "mark")
    /\ UNCHANGED <<tables, applied, effects, deaths>>

\* The marker row and COMMIT, or the primary key refuses it and all is rolled back.
MarkApplied(p) ==
    /\ Running(p, "mark")
    /\ IF writer.m \in applied
       THEN StepTo(p, "failed") /\ UNCHANGED <<tables, applied, effects>>
       ELSE /\ tables' = tables \cup {"app"}
            /\ effects' = [effects EXCEPT ![writer.m] = @ + 1]
            /\ applied' = applied \cup {writer.m}
            /\ runners' = [runners EXCEPT ![p].pc = "apply",
                                         ![p].applied = @ \cup {writer.m}]
    /\ writer' = NoWriter
    /\ UNCHANGED deaths

\* All applied: the process opens UnitOfWorks from now on without looking again.
FinishMigration(p) ==
    /\ Running(p, "apply") /\ Pending(p) = {}
    /\ StepTo(p, "ready")
    /\ UNCHANGED <<tables, applied, effects, writer, deaths>>

\* The error reaches the caller; the next UnitOfWork of the process tries again.
TriesAgain(p) ==
    /\ Running(p, "failed")
    /\ runners' = [runners EXCEPT ![p] = Fresh]
    /\ UNCHANGED <<tables, applied, effects, writer, deaths>>

\* The process dies, or its write fails; an open transaction is rolled back.
ProcessDies(p) ==
    /\ deaths < MaxDeaths /\ runners[p].pc \notin {"new", "refused"}
    /\ deaths' = deaths + 1
    /\ runners' = [runners EXCEPT ![p] = Fresh]
    /\ writer' = IF writer.by = p THEN NoWriter ELSE writer
    /\ UNCHANGED <<tables, applied, effects>>

SchemaNext ==
    \E p \in Processes :
        \/ ListTables(p) \/ ReadApplied(p) \/ Validate(p) \/ RunScript(p) \/ MarkApplied(p)
        \/ FinishMigration(p) \/ TriesAgain(p) \/ ProcessDies(p)

SchemaSpec == SchemaInit /\ [][SchemaNext]_schemaVars

-----------------------------------------------------------------------------
(* Properties. *)

\* Whatever the processes raced for and wherever one died: every migration the
\* database names took effect once and no other did, they are the first packaged
\* ones, a process that is ready works on the whole schema, and none takes a
\* database of this program for a pre-release one and asks the user to delete it.
SchemaIsWhole ==
    /\ \E n \in 0 .. Packaged : applied = 1 .. n
    /\ \A m \in Migrations : effects[m] = IF m \in applied THEN 1 ELSE 0
    /\ \A p \in Processes : /\ runners[p].pc # "refused"
                            /\ runners[p].pc = "ready" => applied = Migrations
=============================================================================
