SPECIFICATION Spec
CONSTANTS
    NumPCs = 4
    LineWords = 2
    NumSets = 1
    LastSet = 4
    Responses = {"OK"}
    DecodeStage = FALSE
    Targets = {0, 1, 2, 3}
    StoreAt = {0, 2}
    FenceAt = 1
INVARIANTS
    FreshAfterFence
