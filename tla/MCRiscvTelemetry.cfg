SPECIFICATION CountSpec
CONSTANTS
    Instrs <- MCInstrs
    Regs <- MCRegs
    NumValues = 1
    NumPCs = 1
    TrapVector = 0
    LoadBypass = TRUE
    MulBypass = TRUE
    DivSteps = 1
    MemAnswers = {"OK", "ERROR"}
    Raised = {TRUE}
    NumCounts = 2
INVARIANTS
    CountsCommitted
PROPERTIES
    Progress
