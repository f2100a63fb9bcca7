SPECIFICATION Spec
CONSTANTS
    Uploads <- OneUpload
    ModeOf <- InChunks
    Chunks <- TwoChunks
    Slices = 1
    MaxParallel = 1
    MaxConcurrent = 1
    MaxLost = 2
    Commands <- Removal
    MaxEvents = 2
    MaxTransit = 1
    u1 = u1 u2 = u2
INVARIANT RemovedIsGone
CHECK_DEADLOCK FALSE
