SPECIFICATION FairSpec
CONSTANTS
    PIPE_SLOTS = 2
    ImageSize = 3
    MaxAttempts = 2
    MaxFetches = 1
    MaxUploads = 1
    NULL = NULL
INVARIANTS TypeOK SlotInOnePlace ChunksInOrder OneHandle PullOkMeansImage WaitsServed
PROPERTIES ImplementsChunkPipe PullReturns PipeFreed
CHECK_DEADLOCK FALSE
