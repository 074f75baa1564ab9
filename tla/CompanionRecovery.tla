-------------------------- MODULE CompanionRecovery --------------------------
(***************************************************************************)
(* find_recoverable_companions: the companion moves that failed after the  *)
(* audio they follow had moved, and that history alone allows to plan      *)
(* again. plans[n].after holds the Plans that had settled when Plan n was  *)
(* created: the order of the timestamps the code compares.                 *)
(***************************************************************************)
EXTENDS LibraryState

Failed == {"partial_failed", "failed"}

\* Every action about a companion asset, as <<plan, position>>.
ActionsAbout(asset) ==
    UNION {{<<n, i>> : i \in {j \in ActionsOf(n) : /\ plans[n].actions[j].asset = asset
                                                   /\ plans[n].actions[j].kind # "audio"}}
           : n \in DOMAIN plans}

Action(at) == plans[at[1]].actions[at[2]]

\* _succeeded_audio_track: the Track of an audio move, 0 when it did not arrive.
ArrivedTrack(n, i) ==
    LET a == plans[n].actions[i] IN
    IF /\ a.kind = "audio" /\ a.op = "move" /\ InLibrary(a.target)
       /\ a.status = "applied" /\ a.event = "succeeded"
       /\ a.track \in ActiveTracks
    THEN a.track ELSE 0

\* _current_target_path: next to the owner, or where all dependencies are now.
RecoveryTarget(a, owner, deps) ==
    LET folders == {tracks[t].path.dir : t \in deps} IN
    IF a.kind = "lyrics" THEN [tracks[owner].path EXCEPT !.ext = "lrc"]
    ELSE IF Cardinality(folders) # 1 THEN NoPath
    ELSE [a.source EXCEPT !.dir = CHOOSE d \in folders : TRUE]

\* _recoverable_companion: action i of Plan n failed with evidence, all the
\* audio it depends on arrived, and its asset row, if one is known, is as planned.
FailureIsRecoverable(known, n, i) ==
    LET a     == plans[n].actions[i]
        deps  == {ArrivedTrack(n, d) : d \in a.deps}
        owner == ArrivedTrack(n, a.owner) IN
    /\ plans[n].type \in {"add", "organize", "refresh"} /\ plans[n].status \in Failed
    /\ a.kind \in {"lyrics", "artwork"} /\ a.status = "failed" /\ a.event = "failed"
    /\ a.owner \in a.deps
    /\ 0 \notin deps /\ Cardinality(deps) = Cardinality(a.deps)
    /\ a.track \in {0, owner}
    /\ RecoveryTarget(a, owner, deps) # NoPath
    /\ a.asset \in known =>
          LET row == assets[a.asset] IN
          /\ row.kind = a.kind /\ row.path = a.source /\ row.content = a.content
          /\ row.owner = owner /\ row.active

Recovery(n, i) ==
    LET a    == plans[n].actions[i]
        deps == {ArrivedTrack(n, d) : d \in a.deps} IN
    [anchor |-> <<n, i>>, type |-> plans[n].type, kind |-> a.kind, source |-> a.source,
     content |-> a.content, asset |-> a.asset, track |-> ArrivedTrack(n, a.owner), deps |-> deps,
     target |-> RecoveryTarget(a, ArrivedTrack(n, a.owner), deps)]

\* An earlier action about the asset settled, with evidence, before the anchor's
\* Plan was created.
EarlierIsSettled(at, anchor) ==
    /\ at[1] \in plans[anchor[1]].after
    /\ \/ Action(at).status = "applied" /\ Action(at).event = "succeeded"
       \/ Action(at).status = "failed" /\ Action(at).event = "failed"

\* _retry_failure_is_valid: an earlier retry of the same failure that failed.
RetryFailed(r, at) ==
    LET a == Action(at) IN
    /\ plans[at[1]].status \in Failed
    /\ IF r.type = "add" THEN plans[at[1]].type = "add"
                         ELSE plans[at[1]].type \in {"organize", "refresh"}
    /\ a.kind = r.kind /\ a.status = "failed" /\ a.event = "failed"
    /\ a.source = r.source /\ a.content = r.content /\ a.track = r.track
    /\ InLibrary(a.target) /\ a.owner = 0 /\ a.deps = {}

\* _asset_failure_chain_is_valid: no Plan under review or under way has the
\* asset, and every other attempt is earlier and settled, or a failed retry.
ChainIsValid(r) ==
    LET others == {at \in ActionsAbout(r.asset) \ {r.anchor} :
                      /\ plans[at[1]].status \notin {"cancelled", "expired"}
                      /\ ~(plans[at[1]].status \in Settled /\ Action(at).status = "blocked")} IN
    \A at \in others :
        /\ plans[at[1]].status \notin {"ready", "applying"}
        /\ IF at[1] # r.anchor[1] /\ r.anchor[1] \notin plans[at[1]].after
           THEN EarlierIsSettled(at, r.anchor)
           ELSE RetryFailed(r, at)

\* find_recoverable_companions, with the asset rows its evidence holds. Two
\* failures about one source or one asset are ambiguous: neither is recovered.
Recoverable(known) ==
    LET found == UNION {{Recovery(n, i) : i \in {j \in ActionsOf(n) : FailureIsRecoverable(known, n, j)}}
                        : n \in DOMAIN plans}
        Alike(r, s) == \/ r.asset = s.asset
                       \/ /\ r.source = s.source /\ r.kind = s.kind
                          /\ (r.type = "add") = (s.type = "add") IN
    {r \in found : (\A s \in found : Alike(r, s) => s = r) /\ ChainIsValid(r)}

\* What a planner does with them: those whose source is in its inventory with
\* the same content and that no association claimed, in the order of history.
RecoveryCandidates(found, types, inventory, claimed, seen) ==
    LET eligible == {r \in found : /\ r.type \in types
                                         /\ r.source \in inventory \ claimed
                                         /\ seen[r.source] = r.content}
        Candidates(r) == [Candidate(r.kind, r.source) EXCEPT
                             !.target = r.target, !.content = r.content,
                             !.asset = r.asset, !.track = r.track] IN
    SetToSortSeq({[recovery |-> r, candidate |-> Candidates(r)] : r \in eligible},
                 LAMBDA x, y : \/ x.recovery.anchor[1] < y.recovery.anchor[1]
                               \/ /\ x.recovery.anchor[1] = y.recovery.anchor[1]
                                  /\ x.recovery.anchor[2] < y.recovery.anchor[2])
=============================================================================
