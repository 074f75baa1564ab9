------------------------------- MODULE Paging -------------------------------
(***************************************************************************)
(* The keyset pages of the browse lists (repositories.py query_page,       *)
(* _group_member_page and group_page, pagination.py): a client walks a     *)
(* list page by page while Operations add, remove and change its rows.     *)
(* Every list has its ORDER BY, its cursor predicate and the key it takes  *)
(* from the last row of a page, each written separately; they have to      *)
(* agree. A row stands for a row of the list's table:                      *)
(*   rank   what the list orders by: path, time, sort order, sequence or   *)
(*          track number (0: none)                                         *)
(*   group  the value of the grouping the client chose                     *)
(*   hit    whether search, facets and parent group of the request match   *)
(***************************************************************************)
EXTENDS Naturals, FiniteSets, Sequences

CONSTANTS Rows,         \* the ids, ordered
          Ranks,        \* 0 .. n
          Groups,       \* numbers, for their order
          Lists,        \* the lists that are walked
          Limit,        \* rows per page
          MaxChanges    \* bound on the changes during a walk

ASSUME PagingAssumption ==
    /\ Rows \subseteq Nat /\ Groups \subseteq Nat /\ Ranks \subseteq Nat
    /\ IsFiniteSet(Rows) /\ IsFiniteSet(Groups)
    /\ Lists \subseteq {"issues", "issue members", "issue groups", "tracks", "track members",
                        "track groups", "plans", "runs", "actions", "action groups", "events"}
    /\ Limit \in Nat \ {0} /\ MaxChanges \in Nat

VARIABLES table,        \* the rows there are
          changes,
          walk          \* the client: list, cursor, what it was given, what kept still

pagingVars == <<table, changes, walk>>

NoCursor == <<>>
Absent == [rank |-> 0, group |-> 0, hit |-> FALSE]
Present == [rank : Ranks, group : Groups, hit : BOOLEAN]

-----------------------------------------------------------------------------
(* What the lists show. Group 1 is the one whose members are walked. *)

ByGroup == {"issue groups", "track groups", "action groups"}
OfGroup == {"issue members", "track members"}

Matches(t, list, r) ==
    t[r].hit /\ (list \in OfGroup => t[r].group = 1)

MembersIn(t, list, g) == {r \in Rows : Matches(t, list, r) /\ t[r].group = g}

EntriesIn(t, list) ==
    IF list \in ByGroup THEN {g \in Groups : MembersIn(t, list, g) # {}}
    ELSE {r \in Rows : Matches(t, list, r)}

(* The columns each list is ordered by. *)

IssueOrder(t, r) == <<r>>
IssueMemberOrder(t, r) == <<r>>
TrackOrder(t, r) == <<t[r].rank, r>>
PlanOrder(t, r) == <<t[r].rank, r>>
RunOrder(t, r) == <<t[r].rank, r>>
ActionOrder(t, r) == <<t[r].rank, r>>
EventOrder(t, r) == <<t[r].rank, r>>

\* Numbered tracks first; those without a number all have number 0.
TrackMemberOrder(t, r) ==
    IF t[r].rank >= 1 THEN <<0, t[r].rank, r>> ELSE <<1, 0, r>>

IssueGroupOrder(t, g) == <<Cardinality(MembersIn(t, "issue groups", g)), g>>
TrackGroupOrder(t, g) == <<Cardinality(MembersIn(t, "track groups", g)), g>>

\* Counted in Python, from one projection of all the Plan's actions.
ActionGroupOrder(t, g) == <<Cardinality(MembersIn(t, "action groups", g)), g>>

Order(t, list, e) ==
    CASE list = "issues" -> IssueOrder(t, e)
      [] list = "issue members" -> IssueMemberOrder(t, e)
      [] list = "issue groups" -> IssueGroupOrder(t, e)
      [] list = "tracks" -> TrackOrder(t, e)
      [] list = "track members" -> TrackMemberOrder(t, e)
      [] list = "track groups" -> TrackGroupOrder(t, e)
      [] list = "plans" -> PlanOrder(t, e)
      [] list = "runs" -> RunOrder(t, e)
      [] list = "actions" -> ActionOrder(t, e)
      [] list = "action groups" -> ActionGroupOrder(t, e)
      [] list = "events" -> EventOrder(t, e)

\* Row values are compared column by column.
Less(k, l) == \E i \in 1 .. Len(k) : k[i] < l[i] /\ \A j \in 1 .. i - 1 : k[j] = l[j]

\* ASC, but for Plans and Runs, newest first, and groups, largest first.
Precedes(list, k, l) ==
    CASE list \in {"plans", "runs"} -> Less(l, k)
      [] list \in ByGroup -> k[1] > l[1] \/ (k[1] = l[1] /\ k[2] < l[2])
      [] OTHER -> Less(k, l)

-----------------------------------------------------------------------------
(* The predicates that continue after a cursor. *)

AfterIssue(k, cursor) == k[1] > cursor[1]
AfterTrack(k, cursor) == Less(cursor, k)
AfterMember(k, cursor) == Less(cursor, k)
AfterPlan(k, cursor) == Less(k, cursor)
AfterRun(k, cursor) == Less(k, cursor)
AfterAction(k, cursor) == Less(cursor, k)
AfterEvent(k, cursor) == Less(cursor, k)
AfterGroup(k, cursor) == k[1] < cursor[1] \/ (k[1] = cursor[1] /\ k[2] > cursor[2])
AfterActionGroup(k, cursor) == k[1] < cursor[1] \/ (k[1] = cursor[1] /\ k[2] > cursor[2])

AfterCursor(list, k, cursor) ==
    \/ cursor = NoCursor
    \/ CASE list \in {"issues", "issue members"} -> AfterIssue(k, cursor)
         [] list = "tracks" -> AfterTrack(k, cursor)
         [] list = "track members" -> AfterMember(k, cursor)
         [] list = "plans" -> AfterPlan(k, cursor)
         [] list = "runs" -> AfterRun(k, cursor)
         [] list = "actions" -> AfterAction(k, cursor)
         [] list = "events" -> AfterEvent(k, cursor)
         [] list = "action groups" -> AfterActionGroup(k, cursor)
         [] OTHER -> AfterGroup(k, cursor)

\* Mutant of MemberCursor: a missing number is kept, as the order of the rows does not.
KeepsMissingNumber(t, r) == <<0, t[r].rank, r>>

\* The key of a group's member is computed from the Track, not read from the row.
MemberCursor(t, r) == IF t[r].rank >= 1 THEN <<0, t[r].rank, r>> ELSE <<1, 0, r>>

\* The key of the last row returned, as it was then.
NextCursor(t, list, last) ==
    IF list = "track members" THEN MemberCursor(t, last) ELSE Order(t, list, last)

-----------------------------------------------------------------------------

PagingInit ==
    /\ table \in [Rows -> Present \cup {Absent}]
    /\ changes = 0
    /\ \E list \in Lists :
          walk = [list |-> list, cursor |-> NoCursor, done |-> FALSE,
                  still |-> EntriesIn(table, list), given |-> [e \in Rows \cup Groups |-> 0]]

\* One transaction reads limit + 1 rows after the cursor; the extra one says that
\* there are more, and the cursor is that of the last row shown.
ReadPage ==
    /\ ~walk.done
    /\ LET list == walk.list
           Key(e) == Order(table, list, e)
           rest == {e \in EntriesIn(table, list) : AfterCursor(list, Key(e), walk.cursor)}
           UpTo(e) == {f \in rest : ~Precedes(list, Key(e), Key(f))}
           page == {e \in rest : Cardinality(UpTo(e)) <= Limit}
           more == Cardinality(rest) > Limit
           last == CHOOSE e \in page : UpTo(e) = page
       IN walk' = [walk EXCEPT
             !.given = [e \in DOMAIN @ |-> IF e \in page THEN @[e] + 1 ELSE @[e]],
             !.cursor = IF more THEN NextCursor(table, list, last) ELSE @,
             !.done = ~more]
    /\ UNCHANGED <<table, changes>>

\* A row is added, removed or changed by an Operation; a Check replaces all
\* issues of a Library by rows with new numbers.
ChangeRow ==
    /\ ~walk.done /\ changes < MaxChanges
    /\ \E r \in Rows, v \in Present \cup {Absent} : v # table[r] /\ table' = [table EXCEPT ![r] = v]
    /\ changes' = changes + 1
    /\ walk' = [walk EXCEPT !.still =
          {e \in @ : /\ e \in EntriesIn(table', walk.list)
                     /\ Order(table', walk.list, e) = Order(table, walk.list, e)}]

PagingNext == ReadPage \/ ChangeRow

PagingSpec == PagingInit /\ [][PagingNext]_pagingVars

-----------------------------------------------------------------------------
(* Properties. *)

\* A row or group that matched from the first page to the last and kept its key
\* is returned by exactly one of the pages, whatever else changed in between.
WalksAreComplete ==
    \A e \in walk.still : /\ walk.given[e] <= 1
                          /\ walk.done => walk.given[e] = 1
=============================================================================
