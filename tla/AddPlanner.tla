------------------------------ MODULE AddPlanner ------------------------------
(***************************************************************************)
(* CreateAddPlanUseCase: the actions of an Add Plan, from what the planner *)
(* listed, captured and inventoried at three moments (the fields of scan)  *)
(* and from the files and rows of the moment it judges them.               *)
(***************************************************************************)
EXTENDS Companions, CompanionRecovery

\* One scanned incoming file: _candidate, _with_target_paths, _with_duplicates.
AddAudio(p, scan) ==
    LET seen  == scan.seen[p]
        twins == {t \in ActiveTracks : tracks[t].content = seen}
        target == Canonical(scan.policy, seen, p)
        base  == [Candidate("audio", p) EXCEPT !.content = seen] IN
    CASE seen = Gone           -> [base EXCEPT !.reason = "source_missing"]
      [] seen # scan.listed[p] -> [base EXCEPT !.reason = "source_changed"]
      [] target = NoPath       -> [base EXCEPT !.reason = "missing_required_metadata"]
      [] twins = {}            -> [base EXCEPT !.target = target]
      [] OTHER                 -> [base EXCEPT !.target = target, !.op = "skip",
                                               !.reason = "duplicate_hash",
                                               !.track = Listed(twins)[1]]

\* Mutant of OwnerBlocks: a companion only waits for its owner.
BlocksOnOwnerOnly(companions, audio) ==
    [i \in DOMAIN companions |->
        LET c == companions[i]
            owner == Position(audio, c.owner) IN
        IF /\ c.reason \in {"none", "target_exists"}
           /\ \/ c.target = NoPath
              \/ owner # 0 /\ ~Executable(audio[owner])
        THEN [c EXCEPT !.reason = "companion_owner_blocked"] ELSE c]

\* _with_companion_owner_blocks: a companion needs all the audio it depends on.
OwnerBlocks(companions, audio) ==
    [i \in DOMAIN companions |->
        LET c == companions[i] IN
        IF /\ c.reason \in {"none", "target_exists"}
           /\ \/ c.target = NoPath
              \/ c.owner # NoPath /\ Position(audio, c.owner) = 0
              \/ \E d \in c.deps : \/ Position(audio, d) = 0
                                   \/ ~Executable(audio[Position(audio, d)])
        THEN [c EXCEPT !.reason = "companion_owner_blocked"] ELSE c]

\* _with_target_conflicts, for the candidates cands among audio and companions.
WithConflicts(cands, audio, companions) ==
    [i \in DOMAIN cands |->
        LET c == cands[i] IN
        IF /\ Executable(c) /\ c.target # NoPath
           /\ \/ Collides(c.target, Occupied, TargetCount(c.target, audio, companions))
              \/ At(c.target) # Gone
        THEN [c EXCEPT !.reason = "target_exists"] ELSE c]

\* An unclaimed file goes to the unprocessed directory.
Leftover(p) ==
    LET target == [p EXCEPT !.dir = "out"]
        base   == [Candidate("unprocessed", p) EXCEPT !.target = target, !.content = At(p)] IN
    CASE At(p) = Gone       -> [base EXCEPT !.reason = "source_missing"]
      [] At(target) # Gone  -> [base EXCEPT !.reason = "target_exists"]
      [] OTHER              -> base

\* All candidates in the order of their actions: audio, companions, leftovers.
AddCandidates(scan) ==
    LET listed     == Sorted(DOMAIN scan.listed)
        judged     == [i \in DOMAIN listed |-> AddAudio(listed[i], scan)]
        now        == [p \in scan.inventory |-> At(p)]
        claimed    == Claimed(scan.inventory, judged)
        retried    == RecoveryCandidates(scan.recoverable, {"add"}, scan.inventory, claimed, now)
        found      == IF ~CompanionsEnabled THEN <<>>
                      ELSE Associate(scan.inventory, judged, now)
                           \o [i \in DOMAIN retried |-> retried[i].candidate]
        companions == OwnerBlocks(found, judged)
        audio      == WithConflicts(judged, judged, companions)
        settled    == OwnerBlocks(WithConflicts(companions, judged, companions), audio)
        rest       == Sorted(scan.inventory \ (DOMAIN scan.listed \cup claimed
                                               \cup {c.source : c \in ToSet(settled)})) IN
    audio \o WithAssets(settled)
          \o (IF UnprocessedEnabled THEN [i \in DOMAIN rest |-> Leftover(rest[i])] ELSE <<>>)

\* _select_registered_library
AddAllowed(naming) == library.status = "registered" /\ library.policy = naming
=============================================================================
