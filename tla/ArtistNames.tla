----------------------------- MODULE ArtistNames -----------------------------
(***************************************************************************)
(* The accepted artist names. A planning Operation, under the exclusive    *)
(* lock, looks up the names it does not know (resolve_artist_names.py) at  *)
(* the pace the database keeps for all processes (provider_request_cadence *)
(* .py), and forms replace the whole mapping (save_artist_name_mappings    *)
(* .py). The process may die and the wall clock may be set.                *)
(***************************************************************************)
EXTENDS Naturals, FiniteSets

CONSTANTS Keys, Names, NoName,
          Forms,        \* the forms that edit the mapping
          RetryLimit,   \* retries after the first request
          Interval,     \* the least time between two requests
          MaxTime,      \* bound on the time that passes
          MaxSaves      \* bound on the mappings saved

ASSUME PaceAssumption == Interval \in Nat /\ MaxTime \in Nat

VARIABLES
    names,      \* accepted_artist_names: key -> English name
    forms,      \* per form: the mapping it was given
    saves,
    lookup,     \* the Operation that holds the lock
    slot,       \* last_request_at of the provider's row; MaxTime + 1 for no row
    clock,      \* the wall clock
    now,        \* the time that has passed
    reserved,   \* when the last request was reserved
    stepped     \* the clock was set forward since

timeVars == <<slot, clock, now, reserved, stepped>>
namesVars == <<names, forms, saves, lookup, timeVars>>

NoLookup == [pc |-> "none"]
NoSlot == MaxTime + 1
Mappings == [Keys -> Names \cup {NoName}]

NamesInit ==
    /\ names = [k \in Keys |-> NoName]
    /\ forms = [f \in Forms |-> names] /\ saves = 0
    /\ lookup = NoLookup
    /\ slot = NoSlot /\ clock \in 0 .. MaxTime /\ now = 0 /\ reserved = 0 /\ stepped = FALSE

-----------------------------------------------------------------------------
(* The Operation. *)

\* The cached names are read in one transaction, the others are looked up.
StartLookup ==
    /\ lookup = NoLookup
    /\ lookup' = [pc |-> "wait", todo |-> {k \in Keys : names[k] = NoName}, attempt |-> 0,
                  found |-> [k \in Keys |-> NoName]]
    /\ UNCHANGED <<names, forms, saves, timeVars>>

\* Mutant of Elapsed: a clock that was set back makes the last request an old one.
AbsoluteElapsed == IF clock < slot THEN slot - clock ELSE clock - slot

\* A clock that was set back never shortens the interval.
Elapsed == IF clock < slot THEN 0 ELSE clock - slot

\* BEGIN IMMEDIATE, read the row, stamp it and commit; or sleep and try again.
ReserveRequest ==
    /\ lookup.pc = "wait" /\ lookup.todo # {}
    /\ slot = NoSlot \/ Elapsed >= Interval
    /\ slot' = clock /\ reserved' = now /\ stepped' = FALSE
    /\ lookup' = [lookup EXCEPT !.pc = "request"]
    /\ UNCHANGED <<names, forms, saves, clock, now>>

\* The batch goes on with its next key.
Settle(key, name) ==
    lookup' = [lookup EXCEPT !.pc = "wait", !.todo = @ \ {key}, !.attempt = 0,
                             !.found[key] = name]

\* An answer, with one confident match or none.
ReceiveAnswer ==
    /\ lookup.pc = "request"
    /\ \E key \in lookup.todo, name \in Names \cup {NoName} : Settle(key, name)
    /\ UNCHANGED <<names, forms, saves, timeVars>>

\* An error is retried, each time after a reservation of its own, then the
\* original name is used.
RequestFails ==
    /\ lookup.pc = "request"
    /\ IF lookup.attempt < RetryLimit
       THEN lookup' = [lookup EXCEPT !.pc = "wait", !.attempt = @ + 1]
       ELSE \E key \in lookup.todo : Settle(key, NoName)
    /\ UNCHANGED <<names, forms, saves, timeVars>>

\* The new names in one transaction; a row that exists wins.
PersistNames ==
    /\ lookup.pc = "wait" /\ lookup.todo = {}
    /\ names' = [k \in Keys |-> IF names[k] = NoName THEN lookup.found[k] ELSE names[k]]
    /\ lookup' = NoLookup
    /\ UNCHANGED <<forms, saves, timeVars>>

\* The process dies, or a storage error ends the Operation: the lock is released.
LookupDies ==
    /\ lookup # NoLookup
    /\ lookup' = NoLookup
    /\ UNCHANGED <<names, forms, saves, timeVars>>

-----------------------------------------------------------------------------
(* The forms. *)

LoadMapping(f) ==
    /\ forms' = [forms EXCEPT ![f] = names]
    /\ UNCHANGED <<names, saves, lookup, timeVars>>

\* Mutant of SameRevision: the rows that are to be deleted are not compared.
SameWhereKept(seen, draft) == \A k \in Keys : draft[k] # NoName => seen[k] = names[k]

\* The revision is a digest of every key and name.
SameRevision(seen, draft) == seen = names

\* A complete mapping replaces the rows if they are those the form was given:
\* keys it does not name are deleted. One transaction under the lock.
SaveMapping(f) ==
    /\ lookup = NoLookup /\ saves < MaxSaves
    /\ \E draft \in Mappings :
          /\ SameRevision(forms[f], draft)
          /\ names' = draft
          /\ forms' = [forms EXCEPT ![f] = draft]
    /\ saves' = saves + 1
    /\ UNCHANGED <<lookup, timeVars>>

-----------------------------------------------------------------------------
(* Time. *)

Tick ==
    /\ now < MaxTime /\ clock < MaxTime
    /\ now' = now + 1 /\ clock' = clock + 1
    /\ UNCHANGED <<names, forms, saves, lookup, slot, reserved, stepped>>

SetClock ==
    /\ clock' \in 0 .. MaxTime
    /\ stepped' = (stepped \/ clock' > clock)
    /\ UNCHANGED <<names, forms, saves, lookup, slot, now, reserved>>

NamesNext ==
    \/ StartLookup \/ ReserveRequest \/ ReceiveAnswer \/ RequestFails \/ PersistNames \/ LookupDies
    \/ \E f \in Forms : LoadMapping(f) \/ SaveMapping(f)
    \/ Tick \/ SetClock

NamesSpec == NamesInit /\ [][NamesNext]_namesVars

-----------------------------------------------------------------------------
(* Properties. *)

\* An accepted name is changed or deleted only by a form that shows it: what an
\* Operation or another form added meanwhile is not lost with the whole mapping
\* the form puts in its place.
NamesStick ==
    [][\A k \in Keys : names[k] # NoName /\ names'[k] # names[k] =>
          \E f \in Forms : forms[f][k] = names[k] /\ forms'[f] = names']_namesVars

\* Requests keep their distance, those of retries and of processes started again
\* included, unless the clock was set forward in between.
RequestsAreSpaced ==
    [][slot # NoSlot /\ lookup'.pc = "request" /\ lookup.pc = "wait" =>
          now - reserved >= Interval \/ stepped]_namesVars

\* Both: a name once known stays, and the provider is not asked faster than it allows.
LookupsAreOrderly == NamesStick /\ RequestsAreSpaced
=============================================================================
