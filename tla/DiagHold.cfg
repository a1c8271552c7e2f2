SPECIFICATION FairSpec
CONSTANTS
    UdsTasks = {}
    Testers = {j1}
    Switchers = {w1}
    Scripts = {b1}
    OG_DIAG_MAX_HOLDERS = 4
    ExternalApp = TRUE
    PeriodicScan = TRUE
    ChipJobs = TRUE
    NULL = NULL
INVARIANTS TypeOK PollerStaysOff
PROPERTIES AckComes
