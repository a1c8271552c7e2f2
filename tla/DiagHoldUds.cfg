SPECIFICATION Spec
CONSTANTS
    UdsTasks = {u1, u2}
    Testers = {}
    Switchers = {w1}
    Scripts = {}
    OG_DIAG_MAX_HOLDERS = 4
    ExternalApp = FALSE
    PeriodicScan = FALSE
    ChipJobs = FALSE
    NULL = NULL
SYMMETRY UdsSymmetry
INVARIANTS AckMeansPollerOff
