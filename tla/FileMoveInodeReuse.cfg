SPECIFICATION Spec
CONSTANTS
    InodeReuse = TRUE
    MaxDisturbances = 3
INVARIANTS
    CleanupDeletesItsClaim
\* The mover stops when it returns or raises.
CHECK_DEADLOCK FALSE
