INIT MainInit
NEXT MainNext
CONSTANTS
    Page <- FourPages
    MaxDepth = 3
    Tx <- TwoTx
    Workspace <- ThreeWorkspaces
    User <- OneUser
    Name <- TwoNames
    Prefix <- TwoPrefixes
    Slug <- FourSlugs
    InitialRows <- OneOrTwoExist
    Bodies <- Patches
    Attempts = 2
    MaxRequests = 3
    NoRow = NoRow
    Nobody = Nobody
    Unset = Unset
    t1 = t1 t2 = t2 w1 = w1 w2 = w2 w3 = w3 ann = ann n1 = n1 n2 = n2 p1 = p1 p2 = p2
SYMMETRY TxSymmetry
INVARIANTS TreeInv AddressesAgree
PROPERTIES RestoreTakesBackTheDelete SettingsAreSeen
CHECK_DEADLOCK FALSE
