---------------------------- MODULE LibraryState ----------------------------
(***************************************************************************)
(* What the planners, Apply and Check share: the files of one Library and  *)
(* of one Incoming directory, and the rows about them.                     *)
(*                                                                         *)
(* A path is a record [dir, stem, ext]. "in" is the source root of Add,    *)
(* "out" its unprocessed directory, every other directory is below the     *)
(* Library root, so whether a recorded path is absolute or relative to the *)
(* Library shows in its directory. A file is a record [id, tag]: the whole *)
(* record stands for its content hash, tag for its metadata. A file whose  *)
(* content differs has another size or mtime as well.                      *)
(***************************************************************************)
EXTENDS Naturals, Sequences, FiniteSets, SequencesExt

CONSTANTS
    PathOrder,  \* every path, in the order a sorted scan lists them
    CompanionsEnabled, UnprocessedEnabled,  \* two settings of the planners
    Place       \* Place[policy][tag]: canonical directory and stem, or Unnamed

ASSUME PathAssumption ==
    /\ IsInjective(PathOrder)
    /\ \A i \in DOMAIN PathOrder : PathOrder[i].ext \in {"mp3", "lrc", "jpg", "txt"}

Paths   == ToSet(PathOrder)
NoPath  == [dir |-> "none", stem |-> "none", ext |-> "none"]
Gone    == [id |-> 0, tag |-> "gone"]
Unnamed == [dir |-> "none", stem |-> "none"]

VARIABLES
    files,    \* path -> file, for the paths that exist
    tracks,   \* track rows by id: [path, canonical, content, active]
    assets,   \* companion_assets rows by id: [kind, path, canonical, content, owner, active]
    library,  \* libraries row: [status, policy], its path_policy_hash
    policy,   \* the path policy in the settings
    plans     \* plans, runs, plan_actions, dependencies and file_events, by id

rows == <<tracks, assets, library, plans>>

At(p) == IF p \in DOMAIN files THEN files[p] ELSE Gone

Sorted(S) == SelectSeq(PathOrder, LAMBDA p : p \in S)

Index(p) == CHOOSE i \in DOMAIN PathOrder : PathOrder[i] = p

External(p)  == p.dir \in {"in", "out"}
InLibrary(p) == ~External(p) /\ p # NoPath
Audio(p)     == p.ext = "mp3"
CompanionKind(p) == IF p.ext = "lrc" THEN "lyrics" ELSE "artwork"

\* PathPolicy.canonical_path of a file, NoPath when it cannot be named: the
\* required metadata is missing or no path results from it.
Canonical(naming, file, source) ==
    IF Place[naming][file.tag] = Unnamed THEN NoPath
    ELSE [dir |-> Place[naming][file.tag].dir, stem |-> Place[naming][file.tag].stem,
          ext |-> source.ext]

ActiveTracks == {t \in DOMAIN tracks : tracks[t].active}
ActiveAssets == {a \in DOMAIN assets : assets[a].active}

\* Track ids as the repository lists them: by path, then by id.
Listed(ids) ==
    SetToSortSeq(ids, LAMBDA s, t : \/ Index(tracks[s].path) < Index(tracks[t].path)
                                   \/ (tracks[s].path = tracks[t].path /\ s < t))

\* Paths that managed rows occupy.
Occupied == {tracks[t].path : t \in ActiveTracks} \cup {assets[a].path : a \in ActiveAssets}

-----------------------------------------------------------------------------
(* Plans. A candidate is what a planner knows of one file before it becomes *)
(* an action; owner and deps are source paths of audio candidates.          *)

Candidate(kind, p) ==
    [kind |-> kind, op |-> "move", source |-> p, target |-> NoPath, content |-> Gone,
     reason |-> "none", track |-> 0, asset |-> 0, owner |-> NoPath, deps |-> {}]

Unblocked(c)  == c.reason = "none"
Executable(c) == c.op = "move" /\ Unblocked(c)

\* Where among the candidates the audio file p is, 0 when it is not.
Position(cands, p) ==
    Max({0} \cup {i \in DOMAIN cands : cands[i].kind = "audio" /\ cands[i].source = p})

\* Candidates as PlanActions in sort order; dependencies on files that have no
\* action are left out.
Actions(cands) ==
    [i \in 1 .. Len(cands) |->
        LET c == cands[i] IN
        [kind |-> c.kind, op |-> c.op, source |-> c.source, target |-> c.target,
         content |-> c.content, track |-> c.track, asset |-> c.asset,
         owner |-> Position(cands, c.owner),
         deps |-> {Position(cands, d) : d \in c.deps} \ {0},
         reason |-> c.reason, reverses |-> 0, event |-> "none",
         status |-> IF c.op = "skip" \/ Unblocked(c) THEN "planned" ELSE "blocked"]]

Reviewed == {"ready", "cancelled", "expired"}      \* Plans that never had a Run
Settled  == {"applied", "partial_failed", "failed"}

\* A new Plan; its Run shares its status once it has been claimed. An Undo Plan
\* reverses Plan from, policy is its config_hash, and after stands for the time
\* of its creation.
NewPlan(type, from, naming, actions) ==
    [type |-> type, status |-> "ready", from |-> from, policy |-> naming, actions |-> actions,
     after |-> {n \in DOMAIN plans : plans[n].status \in Settled}]

ActionsOf(n) == DOMAIN plans[n].actions

\* Fresh companion_asset_ids follow every id in use or preallocated.
LastAsset ==
    Max({0} \cup DOMAIN assets
        \cup UNION {{plans[n].actions[i].asset : i \in ActionsOf(n)} : n \in DOMAIN plans})

\* Candidates of one kind with fresh asset ids where they carry none.
WithAssets(cands) ==
    [i \in DOMAIN cands |->
        IF cands[i].asset # 0 THEN cands[i] ELSE [cands[i] EXCEPT !.asset = LastAsset + i]]

\* How many executable candidates go to one target.
TargetCount(target, audio, companions) ==
    Cardinality({i \in DOMAIN audio : Executable(audio[i]) /\ audio[i].target = target})
    + Cardinality({i \in DOMAIN companions :
                      Unblocked(companions[i]) /\ companions[i].target = target})

\* OccupiedPaths and the count of one target in a batch (CollisionPolicy).
Collides(target, occupied, count) == target \in occupied \/ count > 1
=============================================================================
