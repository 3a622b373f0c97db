SPECIFICATION FairSpec
CONSTANTS
    CachedAddr = {0, 1, 2, 3, 4, 5, 6, 7, 8}
    LineWords = 3
    NumSets = 1
    LastSet = 1
    UncachedAddr = {9}
    Operations <- MCOperations
    Responses = {"OK"}
INVARIANTS
    Coherent
    FlushReachesMemory
PROPERTIES
    ImplementsMemPort
    Served
