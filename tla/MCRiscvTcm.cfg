SPECIFICATION FairSpec
CONSTANTS
    TcmAddr = {0}
    HostAddr = {2}
    ExtAddr = {1}
    TelemAddr = {}
    Words = {0, 1}
    Ops = {"LOAD", "STORE", "LOAD_MISALIGNED", "DFLUSH"}
INVARIANTS
    OneSideOwes
    ReadsLastStore
PROPERTIES
    ImplementsMemPort
    AxiRules
    Served
