SPECIFICATION Spec
CONSTANTS
    Page <- Four
    MaxDepth = 4
    Tx <- TwoTx
    User <- OneUser
    Title <- OneTitle
    MaxKey = 7
    Ops <- Moving
    InitialRows <- Chains
    MaxRequests = 2
    NoRow = NoRow
    t1 = t1 t2 = t2 ann = ann a = a b = b
SYMMETRY TxSymmetry
INVARIANT Acyclic
CHECK_DEADLOCK FALSE
