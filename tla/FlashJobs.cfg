\* Two PSRAM callers and one internal caller; safety, and every call returns.
SPECIFICATION FairSpec
CONSTANTS
    Psram = {p1, p2}
    Internal = {i1}
    Workers = {w1, w2}
    NULL = NULL
    Results = {"ESP_OK", "ESP_FAIL"}
    Starvation = FALSE
    MaxCalls = 1
INVARIANTS
    TypeOK
    JobArgumentValid
    ExactlyOnce
    BoostTargetLive
    AnswerOwed
PROPERTY CallReturns
CHECK_DEADLOCK FALSE
