SPECIFICATION Spec
CONSTANTS
    RESTART_TRACKER_BRAKE_STREAK = 3
    STREAK_MAX = 4
    MaxInstalls = 1
    MaxUpsets = 1
    NULL = NULL
INVARIANTS VerifiedMeansItRan
CHECK_DEADLOCK FALSE
