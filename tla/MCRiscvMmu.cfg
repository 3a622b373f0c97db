SPECIFICATION Spec
CONSTANTS
    Roots <- MCRoots
    Tables <- MCTables
    DataAddr = {0, 5}
    FetchAddr = {1, 22}
    Ops = {"LOAD", "STORE"}
    Privs = {0, 3}
    Sum = FALSE
INVARIANTS
    Translated
PROPERTIES
    ImplementsLsuPort
