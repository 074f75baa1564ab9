---------------------------- MODULE LibraryCheck ----------------------------
(***************************************************************************)
(* CheckLibraryUseCase: the issues one check finds in the rows, the plans, *)
(* the history and the files of the moment it runs. It writes nothing but  *)
(* its own findings, which replace those of the check before.              *)
(***************************************************************************)
EXTENDS UndoPlanner, CompanionRecovery, Companions

Issue(type, p) == [type |-> type, path |-> p]

\* _library_state_issues
LibraryIssues ==
    (CASE library.status = "unregistered" -> {Issue("library_unregistered", NoPath)}
       [] library.status = "blocked"      -> {Issue("library_blocked", NoPath)}
       [] OTHER                           -> {})
    \cup (IF library.policy # policy THEN {Issue("library_stale", NoPath)} ELSE {})

\* A managed file that is not where, or not what, its row says.
FileIssues(row, missing, changed) ==
    CASE At(row.path) = Gone        -> {Issue(missing, row.path)}
      [] At(row.path) = row.content -> {}
      [] OTHER                      -> {Issue(changed, row.path)}

\* _track_issues and _duplicate_track_issues: of the active Tracks with one
\* content, all but the first listed are duplicates.
TrackIssues ==
    UNION {FileIssues(tracks[t], "db_file_missing", "content_hash_changed") : t \in ActiveTracks}
    \cup {Issue("current_path_differs_from_canonical_path", tracks[t].path) :
             t \in {u \in ActiveTracks : tracks[u].path # tracks[u].canonical}}
    \cup {Issue("duplicate_candidate", tracks[t].path) :
             t \in {u \in ActiveTracks :
                       u # Listed({v \in ActiveTracks : tracks[v].content = tracks[u].content})[1]}}

\* _companion_asset_issues
AssetIssues ==
    UNION {FileIssues(assets[a], "companion_file_missing", "companion_content_hash_changed")
           : a \in ActiveAssets}
    \cup {Issue("companion_owner_missing", assets[a].path) :
             a \in {b \in ActiveAssets : assets[b].owner \notin ActiveTracks}}
    \cup {Issue("companion_current_path_differs_from_canonical_path", assets[a].path) :
             a \in {b \in ActiveAssets : assets[b].path # assets[b].canonical}}

\* _scan_issues: Library audio that no active Track manages.
ScanIssues ==
    LET strays == {p \in DOMAIN files : InLibrary(p) /\ Audio(p)}
                  \ {tracks[t].path : t \in ActiveTracks}
        known  == {tracks[t].content : t \in ActiveTracks} IN
    {Issue("unmanaged_file_exists", p) : p \in strays}
    \cup {Issue("duplicate_candidate", p) : p \in {q \in strays : files[q] \in known}}

\* _unmanaged_companion_issues: companions next to managed audio without a row.
UnmanagedCompanionIssues ==
    LET listed == Listed(ActiveTracks)
        audio  == [i \in DOMAIN listed |-> [source |-> tracks[listed[i]].path]] IN
    {Issue("unmanaged_companion_exists", p) :
        p \in Claimed({q \in DOMAIN files : InLibrary(q)}, audio) \ {assets[a].path : a \in ActiveAssets}}

\* _failed_companion_source_issues
FailedCompanionIssues ==
    {Issue("failed_companion_source_exists", r.source) :
        r \in {s \in Recoverable(ActiveAssets) : At(s.source) = s.content}}

\* _plan_source_issues: sources of ready Plans that changed since planning.
PlanIssues ==
    {Issue("plan_source_changed", a.source) : a \in UNION {{plans[n].actions[i] : i \in
        {j \in ActionsOf(n) : /\ plans[n].actions[j].status = "planned"
                              /\ At(plans[n].actions[j].source) # plans[n].actions[j].content}}
        : n \in {m \in DOMAIN plans : plans[m].status = "ready"}}}

\* _unprocessed_event_issues: collected files that no settled undo took back.
UnprocessedIssues ==
    LET Collected(n) == {i \in Succeeded(n) : /\ plans[n].actions[i].kind = "unprocessed"
                                              /\ plans[n].actions[i].status = "applied"
                                              /\ plans[n].actions[i].deps = {}}
        Back(n) == ReversedBy({m \in Attempts(n) : plans[m].status \in Settled})
        left    == UNION {{plans[n].actions[i] : i \in Collected(n) \ Back(n)} :
                          n \in {m \in DOMAIN plans : /\ plans[m].type = "add"
                                                      /\ plans[m].status \in Settled}} IN
    UNION {FileIssues([path |-> a.target, content |-> a.content],
                      "unprocessed_file_missing", "unprocessed_content_hash_changed") : a \in left}

\* _pending_event_issues
PendingIssues ==
    {Issue("pending_file_event_exists", a.target) : a \in UNION {{plans[n].actions[i] : i \in
        {j \in ActionsOf(n) : plans[n].actions[j].event = "pending"}} : n \in DOMAIN plans}}

\* CheckLibraryUseCase.execute
Issues ==
    LibraryIssues \cup TrackIssues \cup AssetIssues \cup ScanIssues
    \cup (IF CompanionsEnabled THEN UnmanagedCompanionIssues ELSE {})
    \cup FailedCompanionIssues \cup PlanIssues \cup UnprocessedIssues \cup PendingIssues
=============================================================================
