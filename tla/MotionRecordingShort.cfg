CONSTANTS
    Capacity = 2
    MaxFrames = 3
    Times = {0, 40, 100}
    Durations = {100}
    CropFails = FALSE
SPECIFICATION Spec
INVARIANT VideoIsComplete
CHECK_DEADLOCK FALSE
