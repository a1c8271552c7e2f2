SPECIFICATION FairSpec
CONSTANTS
    UdsTasks = {u1}
    Testers = {}
    Switchers = {}
    Scripts = {}
    OG_DIAG_MAX_HOLDERS = 4
    ExternalApp = FALSE
    PeriodicScan = FALSE
    ChipJobs = FALSE
    NULL = NULL
PROPERTIES UdsHoldEnds
