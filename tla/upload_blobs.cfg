SPECIFICATION Spec
CONSTANTS
    Asset <- OneAsset
    Content <- TwoContents
    Big <- None
    Chunk <- OneChunk
    First = 0
    Tx <- TwoTx
    Handler <- TwoHandlers
    MaxSlots = 1
    Ops <- Whole
    Workers <- CollectorAndAssets
    Patient = TRUE
    InTime = FALSE
    MaxCalls = 4
    NoTx = NoTx NoFile = NoFile NoCall = NoCall
    h1 = h1 h2 = h2 x1 = x1 x2 = x2 a1 = a1 a2 = a2 c1 = c1 c2 = c2
SYMMETRY Symmetry
INVARIANT ReadyIsBacked
PROPERTY ReadyIsFinal
CHECK_DEADLOCK FALSE
