CONSTANTS
    o1 = o1
    o2 = o2
    o3 = o3
    s1 = s1
    s2 = s2
    Tokens <- MCOps
    Managers <- MCSteps
    Capacity = 2
    MinAfterDequeue = 1
SPECIFICATION MCSpec
CHECK_DEADLOCK FALSE
INVARIANTS
    ElementsConserved
    FirstInFirstOut
    CalledBackOnce
    NoStrandedAttempt
PROPERTIES
    LimitsRespected
    CancelEnds
    ClosedQueueDrains
