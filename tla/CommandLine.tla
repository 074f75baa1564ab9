---------------------------- MODULE CommandLine ----------------------------
(***************************************************************************)
(* One invocation of the command line program, beside other processes that *)
(* create, cancel and apply Plans (adapters/cli). What the use cases do is *)
(* in the planners and in OperationRuntime; here is what the command asks  *)
(* of them, in which order it reads what it prints, and its exit code.     *)
(***************************************************************************)
EXTENDS Naturals, Sequences, FiniteSets, TLC

CONSTANTS MaxStirs,     \* steps of other processes
          MaxArguments, \* length of a command's arguments
          ActionRows    \* actions of a Plan

ASSUME ActionRowsAssumption == ActionRows \in Nat \ {0}

VARIABLES
    argv,       \* the command and its arguments
    stage,      \* where its function stands
    pick,       \* the Plan it is about, 0 before there is one
    shown,      \* what it printed of a Plan or Run, or of a listing
    said,       \* its last message
    exit,       \* its exit code
    mine,       \* the Plan this process applied, with which outcome and whose consent
    docket,     \* every Plan in the order of creation: status, kind, actions settled,
                \* events logged, the action in hand among them, Run
    stirs       \* steps of other processes so far

commandVars == <<argv, stage, pick, shown, said, exit, mine, docket, stirs>>

-----------------------------------------------------------------------------
(* Arguments: "id" parses as a UUID, "text" does not.                      *)

Operands == {"id", "text", "latest", "ready", "blocked", "1", "0"}
Alphabet ==
    [add      |-> {"text", "--apply", "--yes", "--bogus"},
     organize |-> {"text", "--library", "--apply", "--trust-stat"},
     refresh  |-> {"text", "--all", "--apply", "--trust-stat"},
     undo     |-> {"id", "text", "--apply"},
     check    |-> {"text", "--trust-stat"},
     apply    |-> {"id", "latest", "text", "--yes", "--bogus"},
     history  |-> {"id", "text", "--bogus"},
     plans    |-> {"id", "text", "--json", "--summary", "--diff", "--blocked-only",
                   "--actions", "blocked", "--status", "ready", "--limit", "1", "0"}]

Has(token) == \E i \in DOMAIN argv.args : argv.args[i] = token
Positionals(args) == {i \in DOMAIN args : args[i] \in Operands}

\* Every argument stands alone or is the value of the option before it; an
\* option with a value is given once.
Formed(args, alone, valued) ==
    LET values == {i \in DOMAIN args : i > 1 /\ args[i - 1] \in DOMAIN valued}
    IN /\ \A i \in DOMAIN args :
             IF i \in values THEN args[i] \in valued[args[i - 1]]
             ELSE args[i] \in alone \/ (args[i] \in DOMAIN valued /\ i < Len(args))
       /\ \A option \in DOMAIN valued :
             Cardinality({i \in DOMAIN args : args[i] = option}) <= 1

Bare == [option \in {} |-> {}]
AddArgs(args) ==
    /\ Formed(args, Operands \cup {"--apply", "--yes"}, Bare) /\ Cardinality(Positionals(args)) <= 1
    /\ Has("--yes") => Has("--apply")
OrganizeArgs(args) == Formed(args, {"--apply", "--trust-stat"}, "--library" :> Operands)
RefreshArgs(args) ==
    /\ Formed(args, Operands \cup {"--apply", "--trust-stat", "--all"}, Bare)
    /\ Cardinality(Positionals(args)) = IF Has("--all") THEN 0 ELSE 1
UndoArgs(args) ==
    /\ Formed(args, {"id", "--apply"}, Bare) /\ Cardinality(Positionals(args)) = 1
CheckArgs(args) == args \in {<<>>, <<"--trust-stat">>}
ApplyArgs(args) ==
    /\ Formed(args, Operands \cup {"--yes"}, Bare) /\ Cardinality(Positionals(args)) = 1
HistoryArgs(args) == args = <<>> \/ (Len(args) = 1 /\ args[1] \in Operands)

Detailed(args) == args # <<>> /\ args[1] \in Operands
PlanDetailArgs(args) ==
    /\ Formed(args, {"--json", "--summary", "--diff", "--blocked-only"}, "--actions" :> {"blocked"})
    /\ Has("--blocked-only") => ~Has("--actions")
    /\ Has("--summary") => ~(Has("--diff") \/ Has("--actions") \/ Has("--blocked-only"))
    /\ Has("--json") => ~(Has("--summary") \/ Has("--diff"))
PlanListArgs(args) == Formed(args, {"--json"}, ("--status" :> {"ready"}) @@ ("--limit" :> {"1"}))
PlansArgs(args) == IF Detailed(args) THEN PlanDetailArgs(Tail(args)) ELSE PlanListArgs(args)

Understood ==
    \/ argv.command = "add" /\ AddArgs(argv.args)
    \/ argv.command = "organize" /\ OrganizeArgs(argv.args)
    \/ argv.command = "refresh" /\ RefreshArgs(argv.args)
    \/ argv.command = "undo" /\ UndoArgs(argv.args)
    \/ argv.command = "check" /\ CheckArgs(argv.args)
    \/ argv.command = "apply" /\ ApplyArgs(argv.args)
    \/ argv.command = "history" /\ HistoryArgs(argv.args)
    \/ argv.command = "plans" /\ PlansArgs(argv.args)

-----------------------------------------------------------------------------
Finals == {"applied", "partial_failed", "failed"}
ReadyPlans == {n \in DOMAIN docket : docket[n].status = "ready"}
Newest(numbers) == CHOOSE n \in numbers : \A m \in numbers : m <= n
NewPlan(undo) ==
    [status |-> "ready", undo |-> undo, done |-> 0, events |-> 0, logged |-> FALSE, run |-> 0]

\* A Run is made when a Plan is claimed; Runs are numbered in the order they started.
HasRun(n) == docket[n].run # 0
NextRun == Cardinality({n \in DOMAIN docket : HasRun(n)}) + 1

Nothing == [status |-> "none", rows |-> <<>>]
Nobody == [plan |-> 0, outcome |-> "none", consent |-> FALSE]

Started ==
    /\ stage = "parse" /\ pick = 0 /\ shown = Nothing /\ said = "nothing"
    /\ exit = "none" /\ mine = Nobody /\ stirs = 0

CommandInit ==
    /\ Started
    /\ \E command \in DOMAIN Alphabet :
          \E n \in 0 .. MaxArguments : \E args \in [1 .. n -> Alphabet[command]] :
             argv = [command |-> command, args |-> args]
    /\ \E events \in {0, 1} :   \* its first action failed before its event, or after it
          docket \in {<<NewPlan(FALSE)>>, <<NewPlan(FALSE), NewPlan(TRUE)>>,
                     <<NewPlan(FALSE),
                       [NewPlan(FALSE) EXCEPT !.status = "applying", !.done = 1,
                                              !.events = events, !.run = 1]>>}

Ends(code, message) == stage' = "ended" /\ exit' = code /\ said' = message

\* A Plan is being applied, so that its process holds the lock.
Held == \E n \in DOMAIN docket : docket[n].status = "applying"

FirstStage ==
    IF argv.command \in {"plans", "history"}
    THEN IF Detailed(argv.args) THEN "header" ELSE "list"
    ELSE IF argv.command \in {"check", "apply"} THEN argv.command ELSE "plan"

Parse ==
    /\ stage = "parse"
    /\ IF Understood
       THEN stage' = (IF FirstStage = "apply" THEN "select" ELSE FirstStage)
            /\ UNCHANGED <<exit, said>>
       ELSE Ends("usage", "usage")
    /\ UNCHANGED <<argv, pick, shown, mine, docket, stirs>>

\* The command is refused, finds the lock held, or raises. A claim that finds another
\* Library root lets the Plan expire.
Fails ==
    /\ stage \in {"plan", "check", "apply"}
    /\ Ends("error", "error")
    /\ \/ UNCHANGED docket
       \/ /\ stage = "apply" /\ ~Held /\ pick \in ReadyPlans
          /\ docket' = [docket EXCEPT ![pick].status = "expired"]
    /\ UNCHANGED <<argv, pick, shown, mine, stirs>>

\* _write_result, and the way to the application.
Announces == said' = "created"
             /\ IF Has("--apply") THEN stage' = "confirm" /\ UNCHANGED exit
                                  ELSE stage' = "ended" /\ exit' = "success"

\* A new Plan. What follows its transaction may raise before it is announced.
CreatePlans ==
    /\ stage = "plan" /\ ~Held
    /\ argv.command = "undo" => \A n \in ReadyPlans : ~docket[n].undo
    /\ docket' = Append(docket, NewPlan(argv.command = "undo"))
    /\ pick' = Len(docket) + 1
    /\ Announces \/ Ends("error", "error")
    /\ UNCHANGED <<argv, shown, mine, stirs>>

\* The ready Plan of the same Run is given again.
ReturnUndoPlan ==
    /\ stage = "plan" /\ ~Held /\ argv.command = "undo"
    /\ \E n \in ReadyPlans : docket[n].undo /\ pick' = n
    /\ Announces
    /\ UNCHANGED <<argv, shown, mine, docket, stirs>>

\* Organize finds nothing to do and makes no Plan.
RegisterLibrary ==
    /\ stage = "plan" /\ ~Held /\ argv.command = "organize"
    /\ Ends("success", "registered")
    /\ UNCHANGED <<argv, pick, shown, mine, docket, stirs>>

CheckLibraryFiles ==
    /\ stage = "check" /\ ~Held
    /\ Ends("success", "no issues") \/ Ends("error", "issues")
    /\ UNCHANGED <<argv, pick, shown, mine, docket, stirs>>

\* _selected_plan_id: a number that is no Plan's stands for an unknown id.
SelectPlan ==
    /\ stage = "select"
    /\ \/ /\ Has("latest") /\ ReadyPlans # {}
          /\ pick' = Newest(ReadyPlans)
          /\ stage' = "confirm" /\ UNCHANGED <<exit, said>>
       \/ /\ Has("id")
          /\ pick' \in 1 .. Len(docket) + 1
          /\ stage' = "confirm" /\ UNCHANGED <<exit, said>>
       \/ /\ ~Has("id") /\ (Has("latest") => ReadyPlans = {})
          /\ Ends("error", "no plan") /\ UNCHANGED pick
    /\ UNCHANGED <<argv, shown, mine, docket, stirs>>

Confirm ==
    /\ stage = "confirm"
    /\ \/ stage' = "apply" /\ mine' = [mine EXCEPT !.consent = TRUE] /\ UNCHANGED <<exit, said>>
       \/ ~Has("--yes") /\ Ends("error", "remains ready") /\ UNCHANGED mine
    /\ UNCHANGED <<argv, pick, shown, docket, stirs>>

\* Mutant of ExitOf: a Run that failed in part is reported as a success.
ForgivesPartialFailure(outcome) == IF outcome = "failed" THEN "error" ELSE "success"

ExitOf(outcome) == IF outcome \in {"failed", "partial_failed"} THEN "error" ELSE "success"

\* Claimed, applied and reported; or something raises after the claim, and the
\* Plan is reconciled to what its actions are.
Execute ==
    /\ stage = "apply" /\ ~Held /\ pick \in ReadyPlans
    /\ \E outcome \in Finals, events \in 0 .. ActionRows :
          /\ docket' = [docket EXCEPT ![pick].status = outcome,
                                   ![pick].done = ActionRows,
                                   ![pick].events = events,
                                   ![pick].run = NextRun]
          /\ mine' = [mine EXCEPT !.plan = pick, !.outcome = outcome]
          /\ Ends(ExitOf(outcome), "completed") \/ Ends("error", "error")
    /\ UNCHANGED <<argv, pick, shown, stirs>>

\* The header of a Plan, or the row of its Run.
ReadHeader ==
    /\ stage = "header"
    /\ \/ /\ argv.args[1] = "id"
          /\ \E n \in DOMAIN docket :
                /\ argv.command = "history" => HasRun(n)
                /\ pick' = n /\ shown' = [Nothing EXCEPT !.status = docket[n].status]
          /\ stage' = "rows" /\ UNCHANGED <<exit, said>>
       \/ Ends("error", "not found") /\ UNCHANGED <<pick, shown>>
    /\ UNCHANGED <<argv, mine, docket, stirs>>

\* A page of its actions or of its events, each of one row. An action's row says whether
\* it is settled, whatever became of an event. None is blocked.
Filtered == Has("--blocked-only") \/ Has("--actions")
Lasting == IF argv.command = "history" THEN docket[pick].events ELSE ActionRows
ReadRows ==
    /\ stage = "rows"
    /\ LET row == Len(shown.rows) + 1
       IN IF row <= Lasting /\ ~Filtered
          THEN shown' = [shown EXCEPT !.rows =
                            Append(@, argv.command = "history" \/ row <= docket[pick].done)]
               /\ UNCHANGED <<stage, exit, said>>
          ELSE Ends("success", "printed") /\ UNCHANGED shown
    /\ UNCHANGED <<argv, pick, mine, docket, stirs>>

\* The numbers of the Runs, or of the Plans, a listing has.
Listed ==
    IF argv.command = "history"
    THEN {docket[n].run : n \in {m \in DOMAIN docket : HasRun(m)}}
    ELSE {n \in DOMAIN docket : Has("ready") => docket[n].status = "ready"}

\* Mutant of LastPage: the walk ends with its first page.
OnePage(rest) == TRUE

LastPage(rest) == Has("--limit") \/ Cardinality(rest) = 1

\* A page of a listing, newest first; --limit is one page.
ReadListing ==
    /\ stage = "list"
    /\ LET rest == {n \in Listed : \A i \in DOMAIN shown.rows : n < shown.rows[i]}
       IN IF rest = {} THEN Ends("success", "printed") /\ UNCHANGED shown
          ELSE /\ shown' = [shown EXCEPT !.rows = Append(@, Newest(rest))]
               /\ IF LastPage(rest) THEN Ends("success", "printed")
                                    ELSE UNCHANGED <<stage, exit, said>>
    /\ UNCHANGED <<argv, pick, mine, docket, stirs>>

\* Another process creates a Plan, cancels (or lets expire) or claims one, logs the event
\* of the next action of the one it applies, settles that action (which may have failed
\* before its event), or ends it; a reconciliation settles what is left, without events,
\* and ends it at once. Parsing reads nothing of theirs.
OthersStir ==
    /\ exit = "none" /\ stage # "parse" /\ stirs < MaxStirs /\ stirs' = stirs + 1
    /\ \/ \E undo \in BOOLEAN : docket' = Append(docket, NewPlan(undo))
       \/ \E n \in ReadyPlans : docket' = [docket EXCEPT ![n].status = "cancelled"]
       \/ ~Held /\ \E n \in ReadyPlans :
             docket' = [docket EXCEPT ![n].status = "applying", ![n].run = NextRun]
       \/ \E n \in DOMAIN docket :
             /\ docket[n].status = "applying"
             /\ \/ /\ docket[n].done < ActionRows /\ ~docket[n].logged
                   /\ docket' = [docket EXCEPT ![n].events = @ + 1, ![n].logged = TRUE]
                \/ /\ docket[n].done < ActionRows
                   /\ docket' = [docket EXCEPT ![n].done = @ + 1, ![n].logged = FALSE]
                \/ \E outcome \in Finals :
                      docket' = [docket EXCEPT ![n].status = outcome, ![n].done = ActionRows]
    /\ UNCHANGED <<argv, stage, pick, shown, said, exit, mine>>

CommandNext ==
    \/ Parse \/ Fails \/ CreatePlans \/ ReturnUndoPlan \/ RegisterLibrary \/ CheckLibraryFiles
    \/ SelectPlan \/ Confirm \/ Execute \/ ReadHeader \/ ReadRows \/ ReadListing \/ OthersStir

CommandSpec == CommandInit /\ [][CommandNext]_commandVars

-----------------------------------------------------------------------------
\* A script may believe the exit code and the reader what is printed. Success of a
\* command that was to apply a Plan means that this process applied all of the Plan
\* it announced, or that there was nothing to do; no Plan is applied unasked; a
\* misunderstood command did nothing; a Plan or Run printed as settled is printed with
\* its actions, all settled, or with all the events it has; and a listing has every row
\* that was there all the time exactly once.
CommandsTellTruth ==
    /\ exit = "success" /\ (Has("--apply") \/ argv.command = "apply") =>
           said = "registered" \/ (mine.plan = pick /\ mine.outcome = "applied")
    /\ mine.plan # 0 => mine.consent /\ (Has("--apply") \/ argv.command = "apply")
    /\ exit = "usage" => pick = 0 /\ mine = Nobody
    /\ said = "printed" /\ shown.status \in Finals /\ ~Filtered =>
           Len(shown.rows) = Lasting /\ \A i \in DOMAIN shown.rows : shown.rows[i]
    /\ said = "printed" /\ pick = 0 /\ ~Has("--limit") =>
           /\ \A i, j \in DOMAIN shown.rows : i < j => shown.rows[j] < shown.rows[i]
           /\ shown.rows # <<>> /\ ~Has("ready") =>
                 {shown.rows[i] : i \in DOMAIN shown.rows} = 1 .. shown.rows[1]
=============================================================================
