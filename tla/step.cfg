CONSTANTS
    Workers <- MCWorkers
    Order <- MCOrder
    Units <- MCUnits
    Home <- MCHome
    Keys <- MCKeys
    Src <- MCSrc
    Receiver <- MCReceiver
    MaxObjects = 5
    Scenarios <- MCScenarios
    NoReceiver = NoReceiver
    NoValue = NoValue
    NoItem = NoItem
SPECIFICATION Spec
CHECK_DEADLOCK FALSE
INVARIANTS
    OkMeansDone
    AbortedCallsFail
    SuccessLeavesNothing
    StaleRequestsRefused
PROPERTIES
    LocalSpec
    RunCompletes
    UnitsEnd
