CONSTANTS
    Jobs = {j1, j2}
    MAX_ACTIVE_JOBS = 1
    MAX_UNCOLLECTED_RESULT_SLOTS = 2
    MAX_TERMINAL_JOBS = 2
    TERMINAL_TTL = 1
    MaxTime = 1
    ClockLag = 0
    ClockStepsBack = FALSE
    MaxOperations = 2
    MaxProjectPickers = 1
SPECIFICATION FairImportSpec
INVARIANTS ReservedIsBoundOrCancelled CancelledNeverOpens
PROPERTY ImportEnds
CHECK_DEADLOCK FALSE
