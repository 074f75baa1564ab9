---------------------------- MODULE Capabilities ----------------------------
(***************************************************************************)
(* What the pages offer against what the use cases accept.  The bootstrap  *)
(* answer, a Plan's page and a Run's page each say which buttons work;     *)
(* they compute it apart from the code that answers the request, from the  *)
(* same rows.  The state is the part of those rows that either side reads: *)
(* the settings file, the Libraries, one Plan, and one Run with the Undo   *)
(* Plans made of it.                                                       *)
(***************************************************************************)
EXTENDS Naturals, FiniteSets, Sequences

CONSTANTS
    Roots,         \* Library roots a user may name
    Policies,      \* path policies, as their fingerprints
    SourceEvents,  \* the numbers of the source Run's moves, in order
    MaxUndos       \* bound: Undo Plans made of the source Run

ASSUME RootsAssumption == IsFiniteSet(Roots) /\ Roots # {}

VARIABLES
    open,     \* the page a user has before them: "start", "plan" or "run"
    conf,     \* the settings file: readable, valid, its path policy; the database readable
    shelf,    \* the Library rows, by root
    sheet,    \* the Plan on the Plan page
    source,   \* the Run on the Run page
    undos     \* the Undo Plans of that Run, oldest first

offerVars == <<open, conf, shelf, sheet, source, undos>>

Nowhere == [status |-> "absent"]
LibraryRow == [status : {"registered", "unregistered", "blocked"}, policy : Policies]
Moves == {"audio", "companion", "unprocessed"}
Outcomes == {"succeeded", "failed", "pending"}

Known == {r \in Roots : shelf[r] # Nowhere}

-----------------------------------------------------------------------------
\* The bootstrap answer.

Usable == conf.readable /\ conf.valid

\* The one Library, when there is exactly one.
Sole == {r \in Known : Cardinality(Known) = 1}

LibraryReady ==
    \E r \in Sole : shelf[r].status = "registered" /\ shelf[r].policy = conf.policy

\* What the bootstrap answer offers.
Offered ==
    {c \in {"read_state"} : conf.stored}
    \cup {c \in {"change_settings"} : conf.readable}
    \cup {c \in {"start_operations"} : Usable /\ conf.stored /\ LibraryReady}
    \cup {c \in {"start_organize"} : Usable /\ conf.stored}

\* What the three forms send: the active Library, or nothing.
Chosen == IF Sole = {} THEN {} ELSE {CHOOSE r \in Sole : TRUE}

\* The Library an Add or a Refresh works on: the one named, or the only
\* registered one; it must be registered under the current policy.
PlanLibrary(named) ==
    LET registered == {r \in Known : shelf[r].status = "registered"}
        picked == IF named # {} THEN named \cap registered
                  ELSE {r \in registered : Cardinality(registered) = 1}
    IN {r \in picked : shelf[r].policy = conf.policy}

AddAccepts(named) == Usable /\ conf.stored /\ PlanLibrary(named) # {}
CheckAccepts(named) == Usable /\ conf.stored /\ (IF named = {} THEN Known ELSE named \cap Known) # {}

\* Organize takes a Library by its root, and makes one only when there is none.
OrganizeAccepts(root) == Usable /\ conf.stored /\ (root \in Known \/ Known = {})

-----------------------------------------------------------------------------
\* The Plan page.

PlanCapabilities ==
    {c \in {"apply", "cancel"} : sheet.status = "ready" /\ (c = "apply" => ~sheet.moved)}

ClaimAccepts == sheet.status = "ready" /\ ~sheet.moved
CancelAccepts == sheet.status = "ready"

-----------------------------------------------------------------------------
\* The Run page.

Performed(kinds) ==
    {e \in SourceEvents : source.events[e].status = "succeeded" /\ source.events[e].kind \in kinds}

ReversedEvents ==
    {e \in SourceEvents : \E i \in 1..Len(undos) :
        e \in undos[i].covers /\ undos[i].done[e] = "succeeded"}

Unresolved ==
    \/ \E e \in SourceEvents : source.events[e].status = "pending"
    \/ \E i \in 1..Len(undos) : \E e \in undos[i].covers : undos[i].done[e] = "pending"

\* Mutant of UndoDisabledReasons: an Undo Plan that is being applied is forgotten.
ForgetsUndoInProgress ==
    {r \in {"run_not_terminal"} : source.running}
    \cup {r \in {"undo_refresh_metadata_unsupported"} : source.refreshes}
    \cup {r \in {"pending_file_event_requires_review"} : Unresolved}
    \cup {r \in {"nothing_to_undo"} : Performed({"audio"}) \subseteq ReversedEvents}

\* Why the Run page does not offer an Undo Plan.
UndoDisabledReasons ==
    LET taken == \E i \in 1..Len(undos) : undos[i].status \in {"applying", "applied"}
    IN {r \in {"run_not_terminal"} : source.running}
       \cup {r \in {"undo_refresh_metadata_unsupported"} : source.refreshes}
       \cup {r \in {"pending_file_event_requires_review"} : Unresolved}
       \cup {r \in {"nothing_to_undo"} : ~taken /\ Performed({"audio"}) \subseteq ReversedEvents}
       \cup {r \in {"already_undone_or_in_progress"} : taken}

CanCreateUndo == UndoDisabledReasons = {}

ReadyUndo == {i \in 1..Len(undos) : undos[i].status = "ready"}

\* CreateUndoPlan: the code it refuses with, or the ready Plan, or a new one.
UndoDecision ==
    LET all == Performed(Moves)
        left == all \ ReversedEvents
        taken == \E i \in 1..Len(undos) : undos[i].status \in {"applying", "applied"}
    IN CASE source.running -> "run_not_terminal"
         [] ~source.running /\ source.refreshes -> "undo_refresh_metadata_unsupported"
         [] ~source.running /\ ~source.refreshes /\ Unresolved -> "pending_file_event_requires_review"
         [] OTHER -> IF all = {} THEN "nothing_to_undo"
                     ELSE IF taken THEN "already_undone_or_in_progress"
                     ELSE IF ReadyUndo # {} THEN "ready plan"
                     ELSE IF left = {} THEN "nothing_to_undo" ELSE "new plan"

UndoAccepted == UndoDecision \in {"ready plan", "new plan"}

-----------------------------------------------------------------------------
\* How these rows change.

OffersInit ==
    /\ open \in {"start", "plan", "run"}
    /\ conf \in [readable : {TRUE}, valid : {TRUE}, stored : {TRUE}, policy : Policies]
    /\ shelf = [r \in Roots |-> Nowhere]
    /\ sheet = [status |-> "ready", moved |-> FALSE]
    /\ source \in [running : {TRUE}, refreshes : BOOLEAN,
                   events : [SourceEvents -> [kind : IF open = "run" THEN Moves ELSE {"audio"},
                                              status : {"pending"}]]]
    /\ undos = <<>>

EditSettings ==
    /\ open = "start"
    /\ conf' \in [readable : BOOLEAN, valid : BOOLEAN, stored : BOOLEAN, policy : Policies]
    /\ UNCHANGED <<open, shelf, sheet, source, undos>>

\* Organize saves the Library with the current policy, and the status its Plan earns.
Organize(root) ==
    /\ open = "start"
    /\ OrganizeAccepts(root)
    /\ \E status \in {"registered", "unregistered", "blocked"} :
           shelf' = [shelf EXCEPT ![root] = [status |-> status, policy |-> conf.policy]]
    /\ UNCHANGED <<open, conf, sheet, source, undos>>

\* The Plan is claimed, cancelled, or found to be of a root that has changed.
UsePlan ==
    /\ open = "plan"
    /\ sheet.status = "ready"
    /\ sheet' \in {[sheet EXCEPT !.status = s] : s \in
                      (IF sheet.moved THEN {"expired", "cancelled"} ELSE {"applying", "cancelled"})}
    /\ UNCHANGED <<open, conf, shelf, source, undos>>

MoveRoot ==
    /\ open = "plan"
    /\ sheet' = [sheet EXCEPT !.moved = TRUE]
    /\ UNCHANGED <<open, conf, shelf, source, undos>>

\* The source Run ends; a crash leaves its last move pending.
EndSource ==
    /\ open = "run"
    /\ source.running
    /\ \E ends \in [SourceEvents -> Outcomes] :
           source' = [source EXCEPT !.running = FALSE,
                          !.events = [e \in SourceEvents |-> [@[e] EXCEPT !.status = ends[e]]]]
    /\ UNCHANGED <<open, conf, shelf, sheet, undos>>

CreateUndo ==
    /\ Len(undos) < MaxUndos
    /\ UndoDecision = "new plan"
    /\ LET left == Performed(Moves) \ ReversedEvents
       IN undos' = Append(undos, [status |-> "ready", covers |-> left,
                                  done |-> [e \in left |-> "planned"]])
    /\ UNCHANGED <<open, conf, shelf, sheet, source>>

CancelUndo ==
    /\ \E i \in ReadyUndo : undos' = [undos EXCEPT ![i].status = "cancelled"]
    /\ UNCHANGED <<open, conf, shelf, sheet, source>>

ClaimUndo ==
    /\ \E i \in ReadyUndo : undos' = [undos EXCEPT ![i].status = "applying"]
    /\ UNCHANGED <<open, conf, shelf, sheet, source>>

\* An Undo Run ends with each reversal moved, failed, unknown, or never started.
EndUndo ==
    /\ \E i \in 1..Len(undos) :
         /\ undos[i].status = "applying"
         /\ \E ends \in [undos[i].covers -> Outcomes \cup {"planned"}] :
              LET moved == {e \in undos[i].covers : ends[e] = "succeeded"}
                  status == IF moved = undos[i].covers THEN "applied"
                            ELSE IF moved = {} THEN "failed" ELSE "partial_failed"
              IN undos' = [undos EXCEPT ![i].done = ends, ![i].status = status]
    /\ UNCHANGED <<open, conf, shelf, sheet, source>>

OffersNext ==
    \/ EditSettings \/ UsePlan \/ MoveRoot \/ EndSource
    \/ CreateUndo \/ CancelUndo \/ ClaimUndo \/ EndUndo
    \/ \E root \in Roots : Organize(root)

OffersSpec == OffersInit /\ [][OffersNext]_offerVars

-----------------------------------------------------------------------------
\* A button that works is answered: what the bootstrap answer, a Plan's page
\* and a Run's page offer, the use case does not refuse while nothing has
\* changed; and, Check and a Run with moves other than audio apart, what the
\* use case would do is offered, and an Undo it refuses is refused for a
\* reason the page gives.
OffersAreHonest ==
    /\ ("start_operations" \in Offered) <=> AddAccepts(Chosen)
    /\ ("start_operations" \in Offered) => CheckAccepts(Chosen)
    /\ ("start_organize" \in Offered) <=> \E root \in Roots : OrganizeAccepts(root)
    /\ ("apply" \in PlanCapabilities) <=> ClaimAccepts
    /\ ("cancel" \in PlanCapabilities) <=> CancelAccepts
    /\ CanCreateUndo => UndoAccepted
    /\ Performed(Moves) = Performed({"audio"}) =>
           IF UndoAccepted THEN CanCreateUndo ELSE UndoDecision \in UndoDisabledReasons
=============================================================================
