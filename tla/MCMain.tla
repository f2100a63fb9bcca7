------------------------------- MODULE MCMain -------------------------------
(***************************************************************************)
(* The two parts of main_service that share no table, each in a run of its *)
(* own: one of them runs, the other stays as it began.                     *)
(*                                                                         *)
(* Workspaces: two requests at once, of three.  Two workspaces exist and   *)
(* one can be created, or one and two; four slugs are enough for a rename, *)
(* the one back, and a create that chooses the next.                       *)
(*                                                                         *)
(* The page tree: four pages, so two chains of two can be moved under one  *)
(* another, trashed in parts and restored in any order.                    *)
(***************************************************************************)
EXTENDS WorkspaceTransactions, PageTree, TLC

CONSTANTS t1, t2, w1, w2, w3, ann, n1, n2, p1, p2   \* model values

TwoTx == {t1, t2}
TxSymmetry == Permutations(TwoTx)
ThreeWorkspaces == {w1, w2, w3}
OneUser == {ann}
TwoNames == {n1, n2}
TwoPrefixes == {p1, p2}
FourSlugs == 1 .. 4

RowAt(s) == [name |-> n1, slug |-> s, prefix |-> p1, deleted |-> FALSE, version |-> 1,
             personal |-> Nobody]
With(ws) == [w \in ThreeWorkspaces |->
    CASE w \notin ws -> NoRow [] w = w1 -> RowAt(1) [] OTHER -> RowAt(2)]
OneOrTwoExist == {With({w1}), With({w1, w2})}

Sends(n, s, p) == [name |-> n, slug |-> s, prefix |-> p]

\* A name, a prefix, both with a slug, a slug that is another's, and one nobody has.
Patches == {Sends(n2, Unset, Unset), Sends(Unset, Unset, p2), Sends(n2, 1, p2),
            Sends(Unset, 2, Unset), Sends(Unset, 3, Unset)}

FourPages == 1 .. 4

VARIABLE which

MainInit == WorkspacesInit /\ Init /\ which \in {"workspaces", "pages"}

MainNext ==
    /\ UNCHANGED which
    /\ \/ which = "workspaces" /\ WorkspacesNext /\ UNCHANGED vars
       \/ which = "pages" /\ Next /\ UNCHANGED workspacesVars
=============================================================================
