CONSTANTS
    MinAllocationSize = 256
    NumBins = 4
    t1 = t1
    t2 = t2
    Threads = {t1, t2}
    Works <- MCWorks
SPECIFICATION Spec
CHECK_DEADLOCK FALSE
INVARIANTS
    ChunksTileRegions
    AllocationsExclusive
    FreeChunksIndexed
PROPERTIES
    BestFit
    GivesUpOnlyWhenFull
    AllocateReturns
