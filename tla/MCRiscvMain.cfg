\* Programs that have ended stop: CHECK_DEADLOCK is off.
CONSTANTS
    Programs   <- MCPrograms
    TimeMod    <- MCTimeMod
    CycleMod   <- MCCycleMod
    Line       = 4
    SimRegions = 3
    TbRegions  = 3
    TcmSize    = 14
SPECIFICATION Spec
INVARIANTS
    ImageLoaded
    StopsInTime
PROPERTIES
    InterruptsPrompt
    InterruptsJustified
    TrapUndone
    AccessGranted
    BreakpointHit
CHECK_DEADLOCK FALSE
