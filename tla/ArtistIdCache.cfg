SPECIFICATION Spec
INVARIANT NoTrackIsLeftBehind
CHECK_DEADLOCK FALSE
CONSTANTS
    Raws = {raw1, raw2}
    Latin = {latin1}
    Unknown = unknown
    NoName = none
    MaxFiles = 1
    MaxTracks = 1
