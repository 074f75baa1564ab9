SPECIFICATION Spec
INVARIANTS SchemaIsWhole WalksAreComplete SnapshotsAreOfOneFile DesktopEndsTruthfully ClientTellsTruth WindowsMoveIsSafe OffersAreHonest SettingsReadBack NamesAreSound CommandsTellTruth
PROPERTIES SavesAreKept LookupsAreOrderly
CHECK_DEADLOCK FALSE
CONSTANTS
    Tabs = {t1, t2}
    MaxVersions = 3
    MaxEdits = 2
    Processes = {p1, p2, p3}
    Packaged = 3
    MaxDeaths = 2
    Keys = {k1, k2}
    Names = {n1, n2}
    NoName = none
    Forms = {f1, f2}
    RetryLimit = 1
    Interval = 2
    MaxTime = 2
    MaxSaves = 2
    Rows = {1, 2, 3}
    Ranks = {0, 1, 2}
    Groups = {1, 2}
    Lists = {"issues", "issue members", "issue groups", "tracks", "track members",
             "track groups", "plans", "runs", "actions", "action groups", "events"}
    Limit = 1
    MaxChanges = 1
    MaxFiles = 3
    MaxWrites = 1
    MaxSwaps = 2
    ReadAttempts = 3
    ReadinessAttempts = 3
    Clicks = {c1, c2}
    NoClick = none
    MaxRestarts = 1
    MaxResends = 1
    Roots = {r1, r2}
    Policies = {v1, v2}
    SourceEvents = {1, 2}
    MaxUndos = 2
    MaxTurns = 1
    Titles <- MCTitles
    Artists <- MCArtists
    Words <- MCWords
    Limits = {1, 3, 4}
    IdLengths = {1, 2, 4}
    MaxStirs = 2
    MaxArguments = 3
    ActionRows = 2
    TagSets <- MCTagSets
    MaxBatch = 3
