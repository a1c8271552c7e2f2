SPECIFICATION FairSpec
CONSTANTS
    RESTART_TRACKER_BRAKE_STREAK = 3
    STREAK_MAX = 4
    MaxInstalls = 2
    MaxUpsets = 3
    NULL = NULL
INVARIANTS TypeOK LoopIsBraked RolledBackStaysOut BootsWholeImage 
PROPERTIES OutcomeComes
CHECK_DEADLOCK FALSE
