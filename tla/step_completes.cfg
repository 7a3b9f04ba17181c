CONSTANTS
    Workers <- MCWorkers
    Order <- MCOrder
    Units <- MCUnits
    Home <- MCHome
    Keys <- MCKeys
    Src <- MCSrc
    Receiver <- MCReceiver
    MaxObjects = 5
    Scenarios <- MCPrepareFails
    NoReceiver = NoReceiver
    NoValue = NoValue
    NoItem = NoItem
SPECIFICATION Spec
CHECK_DEADLOCK FALSE
PROPERTY EveryRunIsMarked
