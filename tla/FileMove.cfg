SPECIFICATION Spec
CONSTANTS
    InodeReuse = FALSE
    MaxDisturbances = 3
INVARIANTS
    NothingLost
    MovedIsMoved
    FailureUndoesTheClaim
PROPERTIES
    TouchesOnlyItsOwn
\* The mover stops when it returns or raises.
CHECK_DEADLOCK FALSE
