----------------------------- MODULE RunHistory -----------------------------
(***************************************************************************)
(* What the history of the Runs promises to whoever wants them undone,     *)
(* with no planners, files, rows or crashes in sight: a Run that undoes    *)
(* another starts when that one has ended and no other attempt is open; it *)
(* puts a moved file back at most once, and only after all that was moved  *)
(* because of it; and what a Run moved, once it has ended, stays recorded. *)
(*                                                                         *)
(* ManagedLibrary, the module of the code, implements this specification   *)
(* (its property RunsAreUndone).                                           *)
(***************************************************************************)
EXTENDS Naturals

\* runs[n] is the Run of Plan n, also before it is claimed. It has moved the files
\* of some of its actions; some of those have been put back by other Runs.
\* follows holds <<i, d>> when action i depends on d; the Run undoes Run of, if
\* that is not 0.
VARIABLE runs

HistoryInit == runs = [n \in {} |-> n]

\* Run n has ended and no open Run undoes it.
MayUndo(n) ==
    /\ n \in DOMAIN runs /\ ~runs[n].open
    /\ \A m \in DOMAIN runs : runs[m].of = n => ~runs[m].open

\* A Run begins as an attempt to undo such a Run, or undoes nothing.
Begin(m) ==
    /\ DOMAIN runs' = DOMAIN runs \cup {m} /\ m \notin DOMAIN runs
    /\ \A n \in DOMAIN runs : runs'[n] = runs[n]
    /\ runs'[m].open /\ runs'[m].moved = {} /\ runs'[m].back = {}
    /\ runs'[m].of = 0 \/ MayUndo(runs'[m].of)

\* A Run that undoes nothing moves a file.
MoveFile(n, i) ==
    /\ runs[n].open /\ runs[n].of = 0 /\ i \notin runs[n].moved
    /\ runs' = [runs EXCEPT ![n].moved = @ \cup {i}]

\* Action j of Run m puts back what action i of the Run n it undoes moved.
PutBack(m, j, n, i) ==
    /\ runs[m].open /\ runs[m].of = n /\ j \notin runs[m].moved
    /\ ~runs[n].open
    /\ i \in runs[n].moved \ runs[n].back
    /\ \A k \in runs[n].moved : <<k, i>> \in runs[n].follows => k \in runs[n].back
    /\ runs' = [runs EXCEPT ![m].moved = @ \cup {j}, ![n].back = @ \cup {i}]

End(n) ==
    /\ runs[n].open
    /\ runs' = [runs EXCEPT ![n].open = FALSE]

HistoryNext ==
    \/ \E m \in DOMAIN runs' : Begin(m)
    \/ \E n \in DOMAIN runs : End(n) \/ \E i \in runs[n].actions : MoveFile(n, i)
    \/ \E m, n \in DOMAIN runs :
          \E j \in runs[m].actions, i \in runs[n].moved : PutBack(m, j, n, i)

HistorySpec == HistoryInit /\ [][HistoryNext]_runs
=============================================================================
