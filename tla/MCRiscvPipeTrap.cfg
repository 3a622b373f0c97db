SPECIFICATION Spec
CONSTANTS
    Instrs <- TrapInstrs
    Regs <- MCRegs
    NumValues = 2
    NumPCs = 2
    TrapVector = 1
    LoadBypass = TRUE
    MulBypass = FALSE
    DivSteps = 1
    MemAnswers = {"OK", "ERROR"}
    Raised = {TRUE}
INVARIANTS
    TrapsDrain
    CsrNeverWaits
PROPERTIES
    LockStep
