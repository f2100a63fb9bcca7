SPECIFICATION FairSpec
CONSTANTS
    Uploads <- TwoUploads
    ModeOf <- ChunkedAndWhole
    Chunks <- TwoChunks
    Slices = 1
    MaxParallel = 1
    MaxConcurrent = 1
    MaxLost = 1
    Commands <- Mixed
    MaxEvents = 2
    MaxTransit = 1
    u1 = u1 u2 = u2
INVARIANTS UploadsAgree NoIdleSlot Mirror
PROPERTY Settles
CHECK_DEADLOCK FALSE
