CONSTANTS
    NoValue = NoValue
    NoIteration = NoIteration
    RootFrame = "root"
SPECIFICATION MCSpec
CHECK_DEADLOCK FALSE
INVARIANTS
    CountsExact
    NoDanglingReference
    DoneIsRight
PROPERTIES
    RunsOnce
    StepEnds
