SPECIFICATION FairSpec
CONSTANTS
    s1 = s1
    s2 = s2
    s3 = s3
    c1 = c1
    x1 = x1
    p1 = p1
    NoPlan = NoPlan
    Starts = {s1}
    Commands = {c1}
    Cancels = {x1}
    Plans = {p1}
    Target <- RaceTarget
    Key <- RaceKey
    MaxFaults = 2
INVARIANTS
    PlanRunOperationAgree
    SinglePlanFate
PROPERTIES
    LedgerSpec
    NothingHangs
