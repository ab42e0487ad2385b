CONSTANTS
    MaxTasks = 3
    MaxPreflights = 3
SPECIFICATION PreflightSpec
INVARIANT MotionFollowsConsent
CHECK_DEADLOCK FALSE
