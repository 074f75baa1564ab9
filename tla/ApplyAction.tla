----------------------------- MODULE ApplyAction -----------------------------
(***************************************************************************)
(* One action of a claimed Plan against the rows and files it finds: why it *)
(* is refused, and the row it writes when its file has been moved. ApplyPlan *)
(* has the steps in between; here an action is one step.                   *)
(***************************************************************************)
EXTENDS UndoPlanner

\* The source action an inverse reverses.
SourceAction(n, a) == plans[plans[n].from].actions[a.reverses]

\* Events of the source Run reversed by other Undo Plans than n.
ReversedElsewhere(n) == ReversedBy(Attempts(plans[n].from) \ {n})

\* _absolute_target_is_verified_undo: only the undo of an Add, of a Track that is
\* still where the Undo Plan saw it, may leave the Library.
RestoreIsVerified(n, a) ==
    /\ plans[n].type = "undo" /\ plans[plans[n].from].type = "add"
    /\ a.track \in ActiveTracks /\ tracks[a.track].path = a.source
    /\ LET s == SourceAction(n, a) IN
       s.event = "succeeded" /\ s.source = a.target /\ s.track = a.track

\* _companion_undo_is_verified: the asset is as its source action left it, and
\* all audio it followed is reversed after it in this Plan, or already was.
CompanionUndoIsVerified(n, i) ==
    LET a == plans[n].actions[i]
        s == SourceAction(n, a)
        Takes(d) == {j \in ActionsOf(n) : plans[n].actions[j].reverses = d} IN
    /\ a.asset \in ActiveAssets
    /\ assets[a.asset].path = a.source /\ assets[a.asset].content = a.content
    /\ assets[a.asset].owner = a.track /\ s.track = a.track
    /\ s.event = "succeeded" /\ s.source = a.target
    /\ IF s.owner = 0 THEN a.owner = 0
       ELSE /\ s.owner \in s.deps
            /\ \/ a.owner \in Takes(s.owner)
               \/ a.owner = 0 /\ Takes(s.owner) = {} /\ s.owner \in ReversedElsewhere(n)
    /\ \A d \in s.deps :
          /\ plans[plans[n].from].actions[d].event = "succeeded"
          /\ IF Takes(d) = {} THEN d \in ReversedElsewhere(n)
             ELSE \A j \in Takes(d) : i \in plans[n].actions[j].deps
    /\ External(a.target) => plans[plans[n].from].type = "add"

\* _unprocessed_move_is_verified
CollectionIsVerified(n, a) ==
    \/ plans[n].type = "add"
    \/ /\ plans[n].type = "undo" /\ plans[plans[n].from].type = "add"
       /\ LET s == SourceAction(n, a) IN
          /\ s.event = "succeeded" /\ s.source = a.target /\ s.target = a.source
          /\ s.content = a.content /\ a.reverses \notin ReversedElsewhere(n)

\* The Track that will own the companion, 0 when its owner does not hold.
OwnerTrack(n, a) ==
    IF a.owner = 0 THEN a.track
    ELSE LET o == plans[n].actions[a.owner] IN
         IF /\ IF plans[n].type = "undo" THEN o.status \in {"planned", "blocked"}
                                         ELSE o.status = "applied" /\ a.owner \in a.deps
            /\ o.op = "move" /\ a.track \in {0, o.track}
         THEN o.track ELSE 0

\* The existing row of the companion agrees with the action.
AssetHolds(n, a, owner) ==
    IF a.asset \notin DOMAIN assets THEN plans[n].type # "undo"
    ELSE /\ assets[a.asset].kind = a.kind /\ assets[a.asset].active
         /\ assets[a.asset].owner = owner /\ assets[a.asset].path = a.source

\* _companion_move_input and _load_companion_context.
CompanionRefusal(n, i) ==
    LET a     == plans[n].actions[i]
        owner == OwnerTrack(n, a) IN
    CASE plans[n].type = "undo" /\ ~CompanionUndoIsVerified(n, i) -> "invalid_path"
      [] owner = 0 -> "companion_dependency_failed"
      [] owner \notin ActiveTracks /\ ~(plans[n].type = "undo" /\ a.owner = 0)
                   -> "companion_dependency_failed"
      [] ~AssetHolds(n, a, owner) -> "source_changed"
      [] OTHER -> "none"

\* Why action i is refused before its FileEvent, "none" when it is not.
Refusal(n, i) ==
    LET a == plans[n].actions[i]
        provenance ==
            CASE a.kind = "audio" ->
                    IF External(a.target) /\ ~RestoreIsVerified(n, a) THEN "invalid_path" ELSE "none"
              [] a.kind = "unprocessed" ->
                    IF a.deps # {} \/ ~CollectionIsVerified(n, a) THEN "invalid_path" ELSE "none"
              [] OTHER -> CompanionRefusal(n, i) IN
    CASE \E d \in a.deps : plans[n].actions[d].status # "applied" -> "companion_dependency_failed"
      [] provenance # "none"   -> provenance
      [] At(a.source) = Gone   -> "source_missing"
      [] At(a.source) # a.content -> "source_changed"
      [] OTHER -> "none"

\* The rows a moved or refreshed file is recorded in: <<tracks, assets, track>>.
\* A file that leaves the Library keeps its row, removed, at its last path.
Recorded(n, i) ==
    LET a     == plans[n].actions[i]
        owner == IF a.kind = "audio" THEN 0 ELSE OwnerTrack(n, a)
        t     == IF a.track = 0 THEN Len(tracks) + 1 ELSE a.track
        row   == IF External(a.target)
                 THEN [path |-> a.source, canonical |-> tracks[t].canonical,
                       content |-> a.content, active |-> FALSE]
                 ELSE [path |-> a.target, canonical |-> a.target,
                       content |-> a.content, active |-> TRUE]
        asset == [kind |-> a.kind, content |-> a.content, owner |-> owner,
                  path |-> IF External(a.target) THEN a.source ELSE a.target,
                  canonical |-> IF External(a.target) THEN assets[a.asset].canonical ELSE a.target,
                  active |-> ~External(a.target)] IN
    CASE a.kind = "unprocessed" -> [tracks |-> tracks, assets |-> assets, track |-> a.track]
      [] a.kind = "audio" -> [track |-> t, assets |-> assets,
                              tracks |-> [x \in DOMAIN tracks \cup {t} |->
                                             IF x = t THEN row ELSE tracks[x]]]
      [] OTHER -> [track |-> owner, tracks |-> tracks,
                   assets |-> [x \in DOMAIN assets \cup {a.asset} |->
                                  IF x = a.asset THEN asset ELSE assets[x]]]

\* _finish_apply and _reconciled_apply_outcome
Verdict(actions) ==
    LET eligible == {i \in DOMAIN actions : actions[i].op # "skip" /\ actions[i].status # "blocked"}
        failed   == {i \in eligible : actions[i].status \in {"failed", "interrupted"}}
        applied  == {i \in eligible : actions[i].status = "applied"} IN
    IF failed = {} THEN "applied" ELSE IF applied # {} THEN "partial_failed" ELSE "failed"
=============================================================================
