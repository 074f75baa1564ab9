--------------------------- MODULE OrganizePlanner ---------------------------
(***************************************************************************)
(* CreateOrganizePlanUseCase: the rows, the Library state and the Plan that *)
(* one organize saves. It writes a Track row for every audio file it can   *)
(* place and a CompanionAsset row for every companion already in place.    *)
(***************************************************************************)
EXTENDS Companions, CompanionRecovery

\* One scanned Library file: _candidate, _with_target_paths.
OrganizeAudio(p, scan) ==
    LET seen   == scan.seen[p]
        target == Canonical(scan.policy, seen, p)
        base   == [Candidate("audio", p) EXCEPT !.content = seen] IN
    CASE seen = Gone     -> [base EXCEPT !.reason = "source_missing"]
      [] target = NoPath -> [base EXCEPT !.reason = "missing_required_metadata"]
      [] OTHER           -> [base EXCEPT !.target = target]

InPlace(c) == Unblocked(c) /\ c.target = c.source

\* The occupied paths of an organize include every file it saw.
Taken(target, scan, audio, companions) ==
    \/ Collides(target,
                Occupied \cup scan.inventory \cup {p \in DOMAIN scan.seen : scan.seen[p] # Gone},
                TargetCount(target, audio, companions))
    \/ At(target) # Gone

\* _collision_reason, for the candidates cands among audio and companions.
WithCollisions(cands, scan, audio, companions) ==
    [i \in DOMAIN cands |->
        LET c == cands[i] IN
        IF /\ Unblocked(c) /\ c.target # c.source
           /\ Taken(c.target, scan, audio, companions)
        THEN [c EXCEPT !.reason = "target_exists"] ELSE c]

\* The Track row a file at p keeps: the one active row there, else the last row
\* listed there whatever its status, 0 when there is none.
RowAt(p) ==
    LET active == {t \in ActiveTracks : tracks[t].path = p} IN
    IF Cardinality(active) = 1 THEN Max(active)
    ELSE Max({0} \cup {t \in DOMAIN tracks : tracks[t].path = p})

\* Mutant of WithTracks: a file that was removed before gets a new Track.
AlwaysNewTracks(audio) ==
    [i \in DOMAIN audio |->
        LET c   == audio[i]
            new == {j \in 1 .. i : Unblocked(audio[j])} IN
        IF ~Unblocked(c) THEN c
        ELSE [c EXCEPT !.track = Len(tracks) + Cardinality(new)]]

\* Candidates that get a Track carry its id (_track_for_candidate).
WithTracks(audio) ==
    [i \in DOMAIN audio |->
        LET c   == audio[i]
            new == {j \in 1 .. i : Unblocked(audio[j]) /\ RowAt(audio[j].source) = 0} IN
        IF ~Unblocked(c) THEN c
        ELSE [c EXCEPT !.track = IF RowAt(c.source) # 0 THEN RowAt(c.source)
                                 ELSE Len(tracks) + Cardinality(new)]]

\* The first asset row at the companion's path and of its kind, of any status.
AssetAt(c) ==
    LET rowsThere == {a \in DOMAIN assets : assets[a].path = c.source /\ assets[a].kind = c.kind}
    IN IF rowsThere = {} THEN 0 ELSE Min(rowsThere)

\* _companion_owner_reason: a claimed companion needs its owner's Track and all
\* its audio unblocked, a recovered one its owner's Track among the saved ones.
OwnedCompanions(companions, audio) ==
    [i \in DOMAIN companions |->
        LET c     == companions[i]
            owner == Position(audio, c.owner)
            track == IF c.track # 0 THEN c.track ELSE IF owner = 0 THEN 0 ELSE audio[owner].track
            blocked == \/ c.target = NoPath
                       \/ track \notin {audio[j].track : j \in DOMAIN audio} \ {0}
                       \/ \E d \in c.deps : \/ Position(audio, d) = 0
                                            \/ ~Unblocked(audio[Position(audio, d)]) IN
        [c EXCEPT !.track  = IF \E j \in DOMAIN audio : audio[j].track = track THEN track ELSE 0,
                  !.asset  = IF c.asset # 0 THEN c.asset ELSE AssetAt(c),
                  !.reason = IF Unblocked(c) /\ blocked THEN "companion_owner_blocked" ELSE @]]

\* A recovery waits until all the audio it depended on is in its place.
Stable(r, audio) ==
    \A t \in r.deps : LET at == Position(audio, tracks[t].path) IN at # 0 /\ InPlace(audio[at])

\* Audio and companions with their Tracks, assets and reasons.
OrganizeCandidates(scan) ==
    LET listed     == Sorted(DOMAIN scan.listed)
        judged     == [i \in DOMAIN listed |-> OrganizeAudio(listed[i], scan)]
        now        == [p \in scan.inventory |-> At(p)]
        retried    == SelectSeq(RecoveryCandidates(scan.recoverable, {"organize", "refresh"}, scan.inventory,
                                                   Claimed(scan.inventory, judged), now),
                                LAMBDA x : Stable(x.recovery, judged))
        found      == IF ~CompanionsEnabled THEN <<>>
                      ELSE Associate(scan.inventory, judged, now)
                           \o [i \in DOMAIN retried |-> retried[i].candidate]
        audio      == WithTracks(WithCollisions(judged, scan, judged, found))
        companions == OwnedCompanions(found, audio) IN
    [audio      |-> audio,
     companions |-> WithAssets(WithCollisions(companions, scan, judged, found))]

\* The Track rows, with those of the placed files.
OrganizedTracks(audio) ==
    LET saved == {i \in DOMAIN audio : audio[i].track # 0} IN
    [t \in 1 .. Max({Len(tracks)} \cup {audio[i].track : i \in saved}) |->
        IF \E i \in saved : audio[i].track = t
        THEN LET c == audio[CHOOSE i \in saved : audio[i].track = t] IN
             [path |-> c.source, canonical |-> c.target, content |-> c.content, active |-> TRUE]
        ELSE tracks[t]]

\* The asset rows, with those of the companions in place.
OrganizedAssets(companions) ==
    LET kept == {i \in DOMAIN companions : InPlace(companions[i])} IN
    [a \in DOMAIN assets \cup {companions[i].asset : i \in kept} |->
        IF \E i \in kept : companions[i].asset = a
        THEN LET c == companions[CHOOSE i \in kept : companions[i].asset = a] IN
             [kind |-> c.kind, path |-> c.source, canonical |-> c.target,
              content |-> c.content, owner |-> c.track, active |-> TRUE]
        ELSE assets[a]]

\* Mutant of OrganizedLibrary: files that cannot be placed do not matter.
RegistersBlocked(actions, naming) ==
    [status |-> IF \A i \in DOMAIN actions : actions[i].status = "blocked" THEN "registered"
                ELSE "unregistered", policy |-> naming]

\* _final_library_state
OrganizedLibrary(actions, naming) ==
    [status |-> IF actions = <<>> THEN "registered"
                ELSE IF \E i \in DOMAIN actions : actions[i].status = "blocked" THEN "blocked"
                ELSE "unregistered",
     policy |-> naming]

\* What is not in its place yet.
Displaced(found) ==
    SelectSeq(found.audio, LAMBDA c : ~InPlace(c))
    \o SelectSeq(found.companions, LAMBDA c : ~InPlace(c))

OrganizeActions(found) == Actions(Displaced(found))
=============================================================================
