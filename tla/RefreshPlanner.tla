---------------------------- MODULE RefreshPlanner ----------------------------
(***************************************************************************)
(* CreateRefreshPlanUseCase: the actions of a Refresh Plan for the active   *)
(* Tracks a request selects, and for the companions of those that move.    *)
(***************************************************************************)
EXTENDS Companions

\* The active Tracks at the selected paths, in repository order.
Selected(scope) == Listed({t \in ActiveTracks : tracks[t].path \in scope})

\* One selected Track: _candidate, _with_target_paths.
RefreshAudio(t, scan) ==
    LET p      == tracks[t].path
        seen   == scan.seen[p]
        target == Canonical(scan.policy, seen, p)
        base   == [Candidate("audio", p) EXCEPT !.content = seen, !.track = t] IN
    CASE seen = Gone     -> [base EXCEPT !.reason = "source_missing"]
      [] target = NoPath -> [base EXCEPT !.reason = "missing_required_metadata"]
      [] OTHER           -> [base EXCEPT !.target = target]

NeedsAction(c) ==
    ~Unblocked(c) \/ c.target # c.source \/ c.content # tracks[c.track].content

Relocates(c) == NeedsAction(c) /\ (~Unblocked(c) \/ c.target # c.source)

\* All active audio of the Library, the selected with where it goes.
AllAudio(selected) ==
    LET listed == Listed(ActiveTracks) IN
    [i \in DOMAIN listed |->
        LET at == {j \in DOMAIN selected : selected[j].track = listed[i]} IN
        [source |-> tracks[listed[i]].path,
         target |-> IF at = {} THEN tracks[listed[i]].path ELSE selected[Max(at)].target]]

FirstOf(ids) == IF ids = {} THEN 0 ELSE Min(ids)

\* _claimed_refresh_companions: associated companions of the audio that moves,
\* with the asset row at their path and the Track row of the associated owner.
ClaimedCompanions(selected, moving, scan) ==
    LET inventory == scan.inventory \cup {assets[a].path : a \in ActiveAssets}
        claimed   == Associate(inventory, AllAudio(selected), [p \in inventory |-> At(p)])
        Row(c) == [c EXCEPT
            !.asset = FirstOf({a \in ActiveAssets : assets[a].path = c.source
                                                    /\ assets[a].kind = c.kind}),
            !.track = FirstOf({t \in ActiveTracks : tracks[t].path = c.owner})]
        concerned == SelectSeq(claimed, LAMBDA c :
            c.deps \cap moving # {} /\ ~(Unblocked(c) /\ c.target = c.source)) IN
    [i \in DOMAIN concerned |-> Row(concerned[i])]

\* _managed_companion_target: next to where the owner goes.
ManagedTarget(a, owner) ==
    IF owner.target = NoPath THEN NoPath
    ELSE IF assets[a].kind = "lyrics" THEN [owner.target EXCEPT !.ext = "lrc"]
    ELSE [assets[a].path EXCEPT !.dir = owner.target.dir]

\* Managed assets whose owner moves and that no association claimed.
ManagedCompanions(selected, moving, claimed) ==
    LET Companion(a) ==
            LET p     == assets[a].path
                owner == selected[Position(selected, tracks[assets[a].owner].path)] IN
            [Candidate(assets[a].kind, p) EXCEPT
                !.target = ManagedTarget(a, owner), !.content = At(p),
                !.asset = a, !.track = assets[a].owner,
                !.owner = owner.source, !.deps = {owner.source},
                !.reason = IF At(p) = Gone THEN "source_missing"
                           ELSE IF owner.target = NoPath THEN "companion_owner_blocked" ELSE @]
        left == {a \in ActiveAssets :
                    /\ assets[a].owner \in ActiveTracks
                    /\ tracks[assets[a].owner].path \in moving
                    /\ \A i \in DOMAIN claimed : claimed[i].source # assets[a].path} IN
    {c \in {Companion(a) : a \in left} : ~(Unblocked(c) /\ c.target = c.source)}

\* _with_companion_owner_blocks: some audio of the companion is selected, and
\* none of that is blocked.
RefreshOwnerBlocks(companions, selected) ==
    [i \in DOMAIN companions |->
        LET c    == companions[i]
            deps == {Position(selected, d) : d \in c.deps} \ {0} IN
        IF /\ c.reason \in {"none", "target_exists"}
           /\ \/ c.target = NoPath \/ c.track = 0 \/ deps = {}
              \/ \E d \in deps : ~Unblocked(selected[d])
        THEN [c EXCEPT !.reason = "companion_owner_blocked"] ELSE c]

\* _with_target_conflicts: only what moves can conflict.
WithRefreshConflicts(cands, selected, companions) ==
    LET moves == SelectSeq(selected, Relocates) IN
    [i \in DOMAIN cands |->
        LET c == cands[i] IN
        IF /\ Unblocked(c) /\ c.target \notin {NoPath, c.source}
           /\ \/ Collides(c.target, Occupied, TargetCount(c.target, moves, companions))
              \/ At(c.target) # Gone
        THEN [c EXCEPT !.reason = "target_exists"] ELSE c]

\* All candidates in the order of their actions: a Track whose file stays where
\* it is is refreshed.
RefreshCandidates(scan) ==
    LET tracked    == Selected(scan.scope)
        judged     == [i \in DOMAIN tracked |-> RefreshAudio(tracked[i], scan)]
        moving     == {c.source : c \in {x \in ToSet(judged) : Relocates(x)}}
        claimed    == ClaimedCompanions(judged, moving, scan)
        managed    == ManagedCompanions(judged, moving, claimed)
        found      == IF ~CompanionsEnabled \/ moving = {} THEN <<>>
                      ELSE SortSeq(claimed \o SetToSeq(managed),
                                   LAMBDA c, d : Index(c.source) < Index(d.source))
        companions == RefreshOwnerBlocks(found, judged)
        audio      == WithRefreshConflicts(judged, judged, companions)
        settled    == RefreshOwnerBlocks(WithRefreshConflicts(companions, judged, companions), audio)
        acting     == SelectSeq(audio, NeedsAction) IN
    [i \in DOMAIN acting |->
        [acting[i] EXCEPT !.op = IF Unblocked(acting[i]) /\ acting[i].target = acting[i].source
                                 THEN "refresh" ELSE "move"]]
    \o WithAssets(settled)

RefreshActions(scan) == Actions(RefreshCandidates(scan))

\* _select_registered_library and _selected_tracks
RefreshAllowed(naming, scope) ==
    /\ library.status = "registered" /\ library.policy = naming
    /\ Selected(scope) # <<>>
=============================================================================
