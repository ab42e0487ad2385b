CONSTANTS
    Capacity = 2
    MaxFrames = 4
    Times = {0, 20, 40, 100}
    Durations = {0, 40, 140}
    CropFails = TRUE
SPECIFICATION FairSpec
INVARIANTS NewestSurvives VideoKeepsTime ScratchHasOwner
PROPERTY StopEnds
CHECK_DEADLOCK FALSE
