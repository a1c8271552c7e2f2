SPECIFICATION Spec
CONSTANTS
    PIPE_SLOTS = 2
    ImageSize = 3
    MaxAttempts = 2
    MaxFetches = 1
    MaxUploads = 1
    NULL = NULL
PROPERTIES UploadNeverAbortsPull
CHECK_DEADLOCK FALSE
