CONSTANTS
    PathOrder <- SmallPathOrder
    CompanionsEnabled = TRUE
    UnprocessedEnabled = TRUE
    Place <- SmallPlace
    Worlds <- CompanionWorlds
    MaxFaults = 1
SPECIFICATION Spec
CHECK_DEADLOCK FALSE
INVARIANT PlannedCompanionsMove
