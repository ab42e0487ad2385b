CONSTANTS
    RING_CAPACITY = 4
    WINDOW_BEFORE = 1
    WINDOW_AFTER = 2
    NEARBY_MAX = 2
    COOLDOWN = 4
    CLICK_WINDOW = 3
    TYPING_PAUSE = 3
    SCROLL_DWELL = 3
    STABLE_FRAMES = 2
    MOTION = 2
    MEANINGFUL = 1
    Luma <- MCLuma
    Stamps = {0, 3, 6}
    MaxFrames = 6
    MaxEvents = 2
SPECIFICATION Spec
INVARIANTS StepsInOrder StepHasContext WaitingLosesNothing
CHECK_DEADLOCK FALSE
