---------------------------- MODULE MCApplyShapes ----------------------------
(***************************************************************************)
(* ApplyPlan with the other shapes of Plan the planners create (an Add     *)
(* Plan, an Undo Plan, an organize Plan), chosen at the start.             *)
(***************************************************************************)
EXTENDS Naturals

VARIABLES shape, pc, current, successes, failures, stopped, sequence, status, event, number,
          managed, source, target, edits, raced, root, stray, plan, operation, registered

\* An Add Plan: two audio files, the artwork of their directory, a skipped
\* duplicate and an unprocessed leftover.
Add ==
    INSTANCE ApplyPlan WITH
        PlanType <- "add", LastAction <- 5, Blocked <- {}, Stale <- {}, MaxEdits <- 2,
        Kind <- <<"move", "move", "companion", "skip", "unprocessed">>,
        Deps <- <<{}, {}, {1, 2}, {}, {}>>, Owner <- <<0, 0, 1, 0, 0>>

\* The Undo Plan of an Add: the companion goes back before its owner, and a
\* second audio file whose Track has moved on since.
Undo ==
    INSTANCE ApplyPlan WITH
        PlanType <- "undo", LastAction <- 4, Blocked <- {}, Stale <- {3}, MaxEdits <- 2,
        Kind <- <<"companion", "move", "move", "unprocessed">>,
        Deps <- <<{}, {1}, {}, {}>>, Owner <- <<2, 0, 0, 0>>

\* An organize Plan: two misplaced files and the lyrics of the second.
Organize ==
    INSTANCE ApplyPlan WITH
        PlanType <- "organize", LastAction <- 3, Blocked <- {}, Stale <- {}, MaxEdits <- 1,
        Kind <- <<"move", "move", "companion">>,
        Deps <- <<{}, {}, {2}>>, Owner <- <<0, 0, 2>>

vars == <<shape, Undo!vars>>

Init ==
    \/ shape = "add" /\ Add!Init
    \/ shape = "undo" /\ Undo!Init
    \/ shape = "organize" /\ Organize!Init

Next ==
    /\ shape' = shape
    /\ \/ shape = "add" /\ Add!Next
       \/ shape = "undo" /\ Undo!Next
       \/ shape = "organize" /\ Organize!Next

\* The fairness of ApplyPlan!FairSpec.
Worker ==
    /\ shape' = shape
    /\ \/ shape = "add" /\ Add!WorkerStep
       \/ shape = "undo" /\ Undo!WorkerStep
       \/ shape = "organize" /\ Organize!WorkerStep

Reconciler ==
    /\ shape' = shape
    /\ \/ shape = "add" /\ Add!Reconcile
       \/ shape = "undo" /\ Undo!Reconcile
       \/ shape = "organize" /\ Organize!Reconcile

FairSpec == Init /\ [][Next]_vars /\ WF_vars(Worker) /\ WF_vars(Reconciler)

\* ApplyPlan!ApplySettles: a claimed Apply settles, whatever crashed or raised.
ApplySettles == Add!ApplySettles
=============================================================================
