SPECIFICATION Spec
CONSTANTS
    LastAction = 5
    Kind <- RefreshKind
    Deps <- RefreshDeps
    Owner <- RefreshOwner
    Blocked = {1}
    Stale = {}
    PlanType = "refresh"
    MaxEdits = 2
INVARIANTS
    EvidenceIsTrue
    DependenciesFirst
    OutcomeIsTrue
    EventsAreOrdered
    StopsAtRelink
PROPERTIES
    ForeignFilesSurvive
    EvidenceIsFinal
