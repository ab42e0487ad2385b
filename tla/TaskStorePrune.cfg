SPECIFICATION StoreSpec
CONSTANTS
    p1 = p1
    p2 = p2
    a1 = a1
    a2 = a2
    Processes = {p1, p2}
    Actors = {a1, a2}
    ProcessOf <- TwoProcesses
    Times = {1, 2}
    Schemas = {1}
    Ephemeral = TRUE
    PruneAge = 0
    LaunchGrace = 1
    MaxFaults = 2
    DirOpenFails = FALSE
INVARIANT JournalTellsTheStory
PROPERTY EvidenceIsKept
CHECK_DEADLOCK FALSE
