SPECIFICATION Spec
CONSTANTS
    s1 = s1
    s2 = s2
    s3 = s3
    c1 = c1
    x1 = x1
    p1 = p1
    NoPlan = NoPlan
    Starts = {s1, s2, s3}
    Commands = {}
    Cancels = {}
    Plans = {p1}
    Target <- RetryTarget
    Key <- RetryKey
    MaxFaults = 2
INVARIANTS
    ExclusiveWork
    KeyWorksOnce
    AnswersAreTrue
PROPERTIES
    LiveOperationUndisturbed
    TerminalIsFinal
