SPECIFICATION Spec
CONSTANTS
    Instrs <- MemInstrs
    Regs <- MCRegs
    NumValues = 2
    NumPCs = 2
    TrapVector = 1
    LoadBypass = FALSE
    MulBypass = TRUE
    DivSteps = 1
    MemAnswers = {"OK", "ERROR"}
    Raised = {}
INVARIANTS
    TypeOK
    AnswerMeetsE2
    FifoInStep
    NothingBehindFault
PROPERTIES
    LockStep
