SPECIFICATION FairStoreSpec
CONSTANTS
    p1 = p1
    p2 = p2
    a1 = a1
    a2 = a2
    Processes = {p1, p2}
    Actors = {a1, a2}
    ProcessOf <- TwoProcesses
    Times = {1}
    Schemas = {2}
    Ephemeral = FALSE
    PruneAge = 0
    LaunchGrace = 0
    MaxFaults = 1
    DirOpenFails = TRUE
PROPERTIES Lifecycle WriteAhead RunIsNotInterrupted OperationsEnd
           AbandonedIsInterrupted
CHECK_DEADLOCK FALSE
