SPECIFICATION Spec
CONSTANTS
    Page <- Three
    MaxDepth = 2
    Tx <- OneTx
    User <- OneUser
    Title <- OneTitle
    MaxKey = 3
    Ops <- Structural
    InitialRows <- Empty
    MaxRequests = 5
    NoRow = NoRow
    t1 = t1 t2 = t2 ann = ann a = a b = b
PROPERTIES ImplementsTree OthersKeepOrder MoveLandsAtIndex
CHECK_DEADLOCK FALSE
