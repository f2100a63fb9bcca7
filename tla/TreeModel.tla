----------------------------- MODULE TreeModel -----------------------------
(***************************************************************************)
(* The pure part of the kit's Tree (ui-kit/src/components/Tree/model.ts):  *)
(* where the nodes are, which rows are on screen, and what a drop or a     *)
(* mod+arrow means.                                                        *)
(*                                                                         *)
(* A tree is a function `kids` from every node, and from Top, to the       *)
(* sequence of its children, or to Unloaded where the children have not    *)
(* been asked for.  A node that is no one's child is not in the tree.      *)
(* Positions count from 0, as in the code.                                 *)
(***************************************************************************)
EXTENDS Integers, Sequences, SequencesExt, FiniteSets

CONSTANTS Nodes,       \* the ids a tree may hold
          Top,         \* the parent of the top level (null in the code)
          Unloaded,    \* `children` is absent
          None,        \* no node, no place
          Locked,      \* the nodes with a disabledReason
          Barren       \* the nodes whose canContain is false

ChildrenOf(kids, p) == IF kids[p] = Unloaded THEN <<>> ELSE kids[p]

ParentOf(kids, n) ==
  LET parents == {p \in DOMAIN kids : Contains(ChildrenOf(kids, p), n)}
  IN  IF parents = {} THEN None ELSE CHOOSE p \in parents : TRUE

Present(kids) == {n \in Nodes : ParentOf(kids, n) # None}

\* Position among the siblings, from 0.
PositionOf(kids, n) ==
  (CHOOSE i \in DOMAIN kids[ParentOf(kids, n)] : kids[ParentOf(kids, n)][i] = n) - 1

\* A branch not loaded yet has children too, as far as the tree knows.
HasChildren(kids, n) == kids[n] # <<>>

HasNoAccess(n) == n \in Locked

IsExpandable(kids, n) == HasChildren(kids, n) /\ ~HasNoAccess(n)

CanContain(n) == n \notin Barren /\ ~HasNoAccess(n)

Holds(p) == p = Top \/ CanContain(p)

\* From the top level down to the node's parent.
RECURSIVE AncestorsOf(_, _)
AncestorsOf(kids, n) ==
  LET p == IF n = None THEN None ELSE ParentOf(kids, n)
  IN  IF p \in {Top, None} THEN <<>> ELSE Append(AncestorsOf(kids, p), p)

IsWithin(kids, n, ancestor) == n = ancestor \/ ancestor \in Range(AncestorsOf(kids, n))

\* The node rows on screen under parent p, top to bottom.
RECURSIVE RowsUnder(_, _, _)
RowsUnder(kids, expanded, p) ==
  LET rowsOf(n) == <<n>> \o (IF n \in expanded /\ IsExpandable(kids, n)
                             THEN RowsUnder(kids, expanded, n) ELSE <<>>)
  IN  FlattenSeq([i \in DOMAIN ChildrenOf(kids, p) |-> rowsOf(ChildrenOf(kids, p)[i])])

VisibleRows(kids, expanded) == RowsUnder(kids, expanded, Top)

-----------------------------------------------------------------------------
(* Where a mod+arrow takes a node; expand is the new parent to open.       *)

Siblings(kids, n) == kids[ParentOf(kids, n)]

Place(p, i, expand) == [parent |-> p, index |-> i, expand |-> expand]

KeyboardMove(kids, n, move) ==
  LET p == ParentOf(kids, n)
      i == PositionOf(kids, n)
      previous == Siblings(kids, n)[i]
  IN  CASE n \in Locked -> None
        [] move = "up" /\ i > 0 -> Place(p, i - 1, None)
        [] move = "down" /\ i < Len(Siblings(kids, n)) - 1 -> Place(p, i + 1, None)
        [] move = "in" /\ i > 0 /\ CanContain(IF i > 0 THEN previous ELSE n) ->
             Place(previous, Len(ChildrenOf(kids, previous)), previous)
        [] move = "out" /\ p # Top -> Place(ParentOf(kids, p), PositionOf(kids, p) + 1, None)
        [] OTHER -> None

-----------------------------------------------------------------------------
(* What a drag over a row means.  The hitbox offers instructions by the    *)
(* row's mode, without those that are blocked on it.                       *)

IsOpen(kids, expanded, n) == n \in expanded /\ IsExpandable(kids, n)

RowMode(kids, expanded, n) ==
  CASE IsOpen(kids, expanded, n) /\ ChildrenOf(kids, n) # <<>> -> "expanded"
    [] ~(IsOpen(kids, expanded, n) /\ ChildrenOf(kids, n) # <<>>)
       /\ PositionOf(kids, n) = Len(Siblings(kids, n)) - 1 -> "last-in-group"
    [] OTHER -> "standard"

BlockedOn(kids, n) ==
  (IF CanContain(n) THEN {} ELSE {"make-child"})
    \cup (IF Holds(ParentOf(kids, n)) THEN {} ELSE {"reorder-above", "reorder-below"})

\* External: what the hitbox may say over a row; level is only read for "reparent".
Instructions(kids, expanded, n) ==
  LET depth == Len(AncestorsOf(kids, n))
      mode == RowMode(kids, expanded, n)
      types == ({"reorder-above", "make-child"}
                 \cup (IF mode = "expanded" THEN {} ELSE {"reorder-below"}))
               \ BlockedOn(kids, n)
  IN  [type : types, level : {depth}]
        \cup (IF mode = "last-in-group" THEN [type : {"reparent"}, level : 0 .. depth - 1] ELSE {})

\* Siblings after the dragged node move up by one once it is taken out.
IndexCountedIn(kids, dragged, p, i) ==   \* mutant: the dragged node counted
  LET rest == SelectSeq(ChildrenOf(kids, p), LAMBDA n : n # dragged)
  IN  IF i > Len(rest) THEN Len(rest) ELSE i

IndexAt(kids, dragged, p, i) ==
  IF dragged # None /\ ParentOf(kids, dragged) = p /\ PositionOf(kids, dragged) < i
  THEN i - 1 ELSE i

\* The place the instruction means for the dragged node (None: a drag from outside), or
\* None where nothing may go.  expand is the node to open after the drop.
DropTarget(kids, expanded, row, instruction, dragged) ==
  LET at(p, i) == IndexAt(kids, dragged, p, i)
      count == Len(ChildrenOf(kids, row))
      beside(p, i) == IF Holds(p) THEN Place(p, at(p, i), None) ELSE None
      ancestor == AncestorsOf(kids, row)[instruction.level + 1]
      target ==
        CASE instruction.type = "make-child" ->
               IF ~CanContain(row) THEN None
               ELSE IF IsOpen(kids, expanded, row) /\ count > 0
                    THEN Place(row, at(row, 0), None)
                    ELSE Place(row, at(row, count), row)
          [] instruction.type = "reorder-above" ->
               beside(ParentOf(kids, row), PositionOf(kids, row))
          [] instruction.type = "reorder-below" ->
               beside(ParentOf(kids, row), PositionOf(kids, row) + 1)
          [] instruction.type = "reparent" ->
               beside(ParentOf(kids, ancestor), PositionOf(kids, ancestor) + 1)
      unchanged == /\ dragged # None
                   /\ target # None
                   /\ target.parent = ParentOf(kids, dragged)
                   /\ target.index = PositionOf(kids, dragged)
  IN  IF \/ dragged # None /\ (dragged \notin Present(kids) \/ IsWithin(kids, row, dragged))
         \/ unchanged
      THEN None
      ELSE target

\* The next visible row that starts with the letter, after the cursor, round; `starts` is
\* the set of nodes whose label starts with it.
NextByLetter(rows, cursor, starts) ==
  LET from == IF cursor \in Range(rows) THEN CHOOSE i \in DOMAIN rows : rows[i] = cursor ELSE 0
      at(step) == rows[((from + step - 1) % Len(rows)) + 1]
      hits == {step \in DOMAIN rows : at(step) \in starts}
  IN  IF hits = {} THEN None
      ELSE at(CHOOSE step \in hits : \A other \in hits : step <= other)

-----------------------------------------------------------------------------
(* What a move does to the tree: the node taken out, then put at the index *)
(* among the new siblings (TreeMoveTarget in types.ts).                    *)

TakenOut(kids, n) ==
  [p \in Nodes \cup {Top} |->
     IF kids[p] = Unloaded THEN Unloaded ELSE Remove(kids[p], n)]

Moved(kids, n, place) ==
  LET rest == TakenOut(kids, n)
  IN  [rest EXCEPT ![place.parent] =
         IF @ = Unloaded THEN Unloaded ELSE InsertAt(@, place.index + 1, n)]
=============================================================================
