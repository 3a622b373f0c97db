SPECIFICATION FairSpec
CONSTANTS
    NumPCs = 6
    LineWords = 2
    NumSets = 1
    LastSet = 1
    Responses = {"OK", "ERROR"}
    DecodeStage = FALSE
    Targets = {3}
    StoreAt = {2}
    FenceAt = 0
INVARIANTS
    OwnWord
    FreshAfterFence
PROPERTIES
    KeepsPromise
    GoesOn
