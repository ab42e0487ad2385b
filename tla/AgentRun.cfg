CONSTANTS
    Sources = {s0, s1}
    ValidSources = {s0, s1}
    InitSource = s0
    NoSource = NoSource
    MaxTurns = 3
    Batches <- MCBatches
    MaxAmount = 1
    Confs <- MCConfs
SPECIFICATION LiveSpec
INVARIANTS
    SuccessWithinBudget
    ReadyIsEvidenced
    EvidenceHasItsResult
    DispatchesBounded
    DenialEndsTheRun
PROPERTIES
    CancelStopsWork
    RunEnds
CHECK_DEADLOCK FALSE
