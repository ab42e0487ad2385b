CONSTANTS
    Jobs = {j1, j2, j3, j4}
    MAX_ACTIVE_JOBS = 1
    MAX_UNCOLLECTED_RESULT_SLOTS = 1
    MAX_TERMINAL_JOBS = 2
    TERMINAL_TTL = 1
    MaxTime = 1
    ClockLag = 1
    ClockStepsBack = FALSE
SPECIFICATION Spec
SYMMETRY JobSymmetry
INVARIANTS
    ActiveHasReporter
    CancelHonoured
PROPERTIES
    TerminalIsFinal
    ResultDroppedOnlyAtTtl
CHECK_DEADLOCK FALSE
