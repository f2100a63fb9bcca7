------------------------ MODULE MCPageTransactions ------------------------
(***************************************************************************)
(* PageTransactions on two to four pages.  Ids are numbers, so pages are   *)
(* not symmetric; transactions are.                                        *)
(***************************************************************************)
EXTENDS PageTransactions, TLC

CONSTANTS t1, t2, ann, a, b

Three == 1 .. 3
Four == 1 .. 4
OneUser == {ann}
OneTitle == {a}
TwoTitles == {a, b}
TwoTx == {t1, t2}
OneTx == {t1}
TxSymmetry == Permutations(Tx)

Live(parent, pos) == [parent |-> parent, pos |-> pos, title |-> a, type |-> "document",
                      root |-> NoPage, version |-> 1, by |-> ann]

Empty == {NoRows}
\* two chains of two
Chains == {<<Live(0, 4), Live(1, 4), Live(0, 6), Live(3, 4)>>}
\* one page, two free ids
Alone == {<<Live(0, 4), NoRow, NoRow>>}

Structural == AllOps \ {"patch"}
Moving == {"move"}
=============================================================================
