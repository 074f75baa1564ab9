------------------------ MODULE ArtistReconciliation ------------------------
(***************************************************************************)
(* Artist names in paths: one Add plans its files with the names it has    *)
(* just resolved (create_add_plan.py), then asks whether a file already in *)
(* the Library would now have another path (artist_name_reconciliation.py) *)
(* and refuses if so. Both render paths with the same PathPolicy, which    *)
(* keeps the artist ids it generated (path_policy.py). A path is the value *)
(* of each artist placeholder; the id generated from a name is the name.   *)
(***************************************************************************)
EXTENDS Naturals, Sequences, TLC

CONSTANTS Raws,         \* artist names in tags
          Latin,        \* names looked up for them
          Unknown,      \* unknown_artist
          NoName,       \* no tag, or no name found
          MaxFiles,     \* files to add
          MaxTracks     \* active Tracks

VARIABLES
    english,    \* the resolver's answer for each name, if it is another
    template,   \* the artist placeholders of the template
    files,      \* to add: tags, and whether the action will be executable
    tracks,     \* tags and path of the active Tracks
    cache,      \* _generated_artist_id_cache
    pc, at

inputVars == <<english, template, files, tracks>>
vars == <<inputVars, cache, pc, at>>

Tags == [artist : Raws \cup {NoName}, album : Raws \cup {NoName}]

FirstOf(names) == Head(SelectSeq(names, LAMBDA n : n # NoName))

\* The cache keys are the names in the tags.
SourceOf(m) == FirstOf(<<m.artist, m.album, Unknown>>)

\* The names that replace those of the tags.
Projected(m, resolve) == [artist |-> resolve[m.artist], album |-> resolve[m.album]]
AsIs == [n \in Raws \cup {NoName} |-> n]
Resolved == [n \in Raws |-> IF english[n] # NoName THEN english[n] ELSE n] @@ AsIs

GeneratedId(m, p) ==
    FirstOf(<<IF m.artist # NoName THEN p.artist ELSE p.album, SourceOf(m)>>)

ArtistId(m, p, ids) == IF SourceOf(m) \in DOMAIN ids THEN ids[SourceOf(m)] ELSE GeneratedId(m, p)

\* canonical_path: what it returns, and what it leaves in the cache.
Path(m, p, ids) ==
    [c \in template |->
        CASE c = "artist" -> FirstOf(<<p.artist, m.artist, p.album, m.album, Unknown>>)
          [] c = "album_artist" -> FirstOf(<<p.album, m.album, p.artist, m.artist, Unknown>>)
          [] c = "artist_id" -> ArtistId(m, p, ids)]

IdsAfter(m, p, ids) ==
    IF "artist_id" \in template
    THEN [s \in DOMAIN ids \cup {SourceOf(m)} |-> IF s \in DOMAIN ids THEN ids[s]
                                                  ELSE ArtistId(m, p, ids)]
    ELSE ids

NoIds == [s \in {} |-> NoName]

\* Tracks lie where an earlier Plan put them: by their tags, or by the names
\* that are resolved now.
Init ==
    /\ english \in [Raws -> Latin \cup {NoName}]
    /\ template \in SUBSET {"artist", "album_artist", "artist_id"}
    /\ \E n \in 1 .. MaxFiles : files \in [1 .. n -> [tags : Tags, executable : BOOLEAN]]
    /\ \E n \in 1 .. MaxTracks, old \in BOOLEAN : \E tags \in [1 .. n -> Tags] :
          tracks = [t \in 1 .. n |->
              [tags |-> tags[t],
               path |-> Path(tags[t], IF old THEN Projected(tags[t], AsIs)
                                      ELSE Projected(tags[t], Resolved), NoIds)]]
    /\ cache = NoIds /\ pc = "targets" /\ at = 1

\* _with_target_paths: the next file's target.
PlanTarget ==
    /\ pc = "targets" /\ at <= Len(files)
    /\ LET m == files[at].tags IN cache' = IdsAfter(m, Projected(m, Resolved), cache)
    /\ at' = at + 1
    /\ UNCHANGED <<inputVars, pc>>

AllPlanned ==
    /\ pc = "targets" /\ at > Len(files)
    /\ pc' = "guard" /\ at' = 1
    /\ UNCHANGED <<inputVars, cache>>

\* The names that executable moves resolve to something else.
Changed == {n \in Raws : /\ english[n] # NoName
                         /\ \E i \in DOMAIN files : /\ files[i].executable
                                                    /\ n \in {files[i].tags.artist, files[i].tags.album}}
WithChanges == [n \in Changed |-> english[n]] @@ AsIs

\* The next Track's path by its tags and by the changed names.
CheckTrack ==
    /\ pc = "guard" /\ at <= Len(tracks)
    /\ LET m == tracks[at].tags
           original == Projected(m, AsIs)
           resolved == Projected(m, WithChanges)
           ids == IdsAfter(m, original, cache)
           target == Path(m, resolved, ids)
       IN IF resolved = original
          THEN at' = at + 1 /\ UNCHANGED <<cache, pc>>
          ELSE /\ cache' = IdsAfter(m, resolved, ids)
               /\ IF Path(m, original, cache) # target /\ tracks[at].path # target
                  THEN pc' = "refused" /\ UNCHANGED at
                  ELSE at' = at + 1 /\ UNCHANGED pc
    /\ UNCHANGED inputVars

CreatePlan ==
    /\ pc = "guard" /\ at > Len(tracks)
    /\ pc' = "planned"
    /\ UNCHANGED <<inputVars, cache, at>>

Next == PlanTarget \/ AllPlanned \/ CheckTrack \/ CreatePlan

Spec == Init /\ [][Next]_vars

-----------------------------------------------------------------------------
(* Properties. *)

\* docs/execution/add.md:34-38: if the resolved name would change an existing
\* Track's canonical path and that Track has not already been reconciled, Add stops
\* without creating a Plan.
NoTrackIsLeftBehind ==
    pc = "planned" =>
        \A t \in DOMAIN tracks :
            LET m == tracks[t].tags
                target == Path(m, Projected(m, WithChanges), NoIds)
            IN target # Path(m, Projected(m, AsIs), NoIds) => tracks[t].path = target
=============================================================================
