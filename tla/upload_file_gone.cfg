SPECIFICATION Spec
CONSTANTS
    Asset <- TwoAssets
    Content <- OneContent
    Big <- None
    Chunk <- TwoChunks
    First = 0
    Tx <- TwoTx
    Handler <- TwoHandlers
    MaxSlots = 1
    Ops <- Whole
    Workers <- Collector
    Patient = TRUE
    InTime = TRUE
    MaxCalls = 4
    NoTx = NoTx NoFile = NoFile NoCall = NoCall
    h1 = h1 h2 = h2 x1 = x1 x2 = x2 a1 = a1 a2 = a2 c1 = c1 c2 = c2
SYMMETRY Symmetry
INVARIANT ReadyHasFile
CHECK_DEADLOCK FALSE
