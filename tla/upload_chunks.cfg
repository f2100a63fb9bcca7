SPECIFICATION FairSpec
CONSTANTS
    Asset <- OneAsset
    Content <- OneContent
    Big <- OneContent
    Chunk <- TwoChunks
    First = 0
    Tx <- OneTx
    Handler <- TwoHandlers
    MaxSlots = 1
    Ops <- Chunked
    Workers <- Sweeper
    Patient = TRUE
    InTime = TRUE
    MaxCalls = 5
    NoTx = NoTx NoFile = NoFile NoCall = NoCall
    h1 = h1 h2 = h2 x1 = x1 x2 = x2 a1 = a1 a2 = a2 c1 = c1 c2 = c2
INVARIANTS FilesAreSound SlotsAreLimited TempIsTracked
PROPERTY TempIsCleaned
CHECK_DEADLOCK FALSE
