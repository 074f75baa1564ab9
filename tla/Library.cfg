CONSTANTS
    PathOrder <- SmallPathOrder
    CompanionsEnabled = TRUE
    UnprocessedEnabled = TRUE
    Place <- SmallPlace
    Worlds <- SmallWorlds
    MaxFaults = 1
SPECIFICATION Spec
INVARIANTS RowsFollowFiles ReversedOnce PlannedActionsWork CheckIsQuiet
PROPERTIES RunsAreUndone PlansAreSound RegistrationIsEarned
CHECK_DEADLOCK FALSE
