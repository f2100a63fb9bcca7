SPECIFICATION Spec
CONSTANTS
    Page <- Three
    MaxDepth = 3
    Tx <- TwoTx
    User <- OneUser
    Title <- TwoTitles
    MaxKey = 7
    Ops <- AllOps
    InitialRows <- Alone
    MaxRequests = 3
    NoRow = NoRow
    t1 = t1 t2 = t2 ann = ann a = a b = b
SYMMETRY TxSymmetry
INVARIANTS CurrentIsCommitted RowsAreSound
PROPERTIES FieldsChangeByRequest NoUnseenOverwrite TypeChangesWhileEmpty
CHECK_DEADLOCK FALSE
