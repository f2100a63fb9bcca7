------------------------------ MODULE TreeView ------------------------------
(***************************************************************************)
(* The kit's Tree at work (Tree.tsx, useTreeDnd.ts, TreeRow.tsx): a        *)
(* controlled tree with a cursor, lazy branches, an open page, renaming    *)
(* and dragging.  The app around it gives the nodes and takes the events:  *)
(* it applies every move, loads a branch when asked, and may drop, bring   *)
(* back or forget nodes at any time, in the middle of a drag or a load     *)
(* too.                                                                    *)
(*                                                                         *)
(* A handler runs to its end against the last render; the render that      *)
(* follows, with its effects, is part of the same step (Render).           *)
(***************************************************************************)
EXTENDS TreeModel

CONSTANTS InitKids,    \* the tree at the start
          InitHeld,    \* what the server has under the branches not loaded yet
          Linked,      \* the nodes with a page to open (href)
          Actives,     \* the pages the address may open
          MaxChanges   \* bound: changes of the nodes, renames and page openings

VARIABLES kids,        \* `nodes` of the app
          held,        \* the server's children of a branch not loaded
          expanded,    \* controlled by the app, changed only through setOpen
          active,      \* activeId, None for no open page
          cursorId,    \* where the cursor was put last; the row may be gone
          lastIndex,   \* where the cursor last stood
          loads,       \* "pending", "done" or "failed"; None where nothing is known
          asked,       \* the branches whose loadChildren promise is open
          coming,      \* the app's: loaded, and about to be put into its nodes
          strayed,     \* history: left the tree while asked for or on their way
          renaming,    \* the node whose name is a field now
          dragged,     \* the row being dragged
          closed,      \* what the user closed since the open page's path changed
          changes      \* counts toward MaxChanges

treeVars == <<kids, held, expanded, active, cursorId, lastIndex, loads, asked,
              coming, strayed, renaming, dragged, closed, changes>>

Counted == changes < MaxChanges /\ changes' = changes + 1

NodesOrNone == Nodes \cup {None}

Rows == VisibleRows(kids, expanded)

RowIndex(rows, n) == CHOOSE i \in DOMAIN rows : rows[i] = n

\* The row that took the place of one that is gone; past the end, the last.
InItsPlace(rows, last) ==
  IF rows = <<>> THEN None ELSE rows[IF last < Len(rows) THEN last + 1 ELSE Len(rows)]

\* The row the cursor is on: where it was put, else its nearest visible ancestor, else the
\* open page's row, else the row in its place.
CursorOf(rows, k, id, open, last) ==
  LET shown == SelectSeq(AncestorsOf(k, id), LAMBDA a : a \in Range(rows))
  IN  IF id \in Range(rows) THEN id
      ELSE IF shown # <<>> THEN Last(shown)
      ELSE IF open \in Range(rows) THEN open
      ELSE InItsPlace(rows, last)

Cursor == CursorOf(Rows, kids, cursorId, active, lastIndex)

\* The branches asked for by an effect of the render: open, on screen, not loaded, and with
\* no load known of.
ToLoad(rows, k, e, l) == {n \in Range(rows) : k[n] = Unloaded /\ l[n] = None /\ IsOpen(k, e, n)}

\* A loaded list that is now in the data is forgotten.
Forgotten(k, l) ==
  [n \in Nodes |-> IF l[n] # None /\ k[n] # Unloaded /\ n \in Present(k) THEN None ELSE l[n]]

\* The rows after a change, their cursor and its position, and the branches asked for.
Draw(k, e, id, l, open) ==
  \E rows \in {VisibleRows(k, e)} :
    \E cursor \in {CursorOf(rows, k, id, open, lastIndex)}, new \in {ToLoad(rows, k, e, l)} :
      /\ loads' = [n \in Nodes |-> IF n \in new THEN "pending" ELSE l[n]]
      /\ asked' = asked \cup new
      /\ lastIndex' = IF cursor = None THEN lastIndex ELSE RowIndex(rows, cursor) - 1

\* The render after a change, and its effects: a new path of the open page is opened, the
\* cursor follows a new open page unless it is `kept`, branches are asked for, and the
\* cursor's position is remembered.
Render(nodes, e, id, l, open, kept) ==
  \E k \in {nodes} : \E path \in {AncestorsOf(k, open)} :
    LET newPath == <<open, path>> # <<active, AncestorsOf(kids, active)>>
    IN  /\ kids' = k
        /\ expanded' = IF newPath THEN e \cup Range(path) ELSE e
        /\ active' = open
        /\ cursorId' = IF open # active /\ open # None /\ ~kept THEN open ELSE id
        /\ closed' = IF newPath THEN {} ELSE closed \cup (expanded \ e)
        /\ Draw(k, expanded', cursorId', Forgotten(k, l), open)

\* Changes of the view only: what is expanded, and where the cursor is.
Look(e, id) == /\ Render(kids, e, id, loads, active, TRUE)
               /\ UNCHANGED <<held, coming, strayed, renaming, dragged, changes>>

MoveCursor(id) == Look(expanded, id)

Toggled(n) == IF n \in expanded THEN expanded \ {n} ELSE expanded \cup {n}

\* What the app hands in: the nodes, what is expanded, the open page.
PropsInit == /\ kids = InitKids
             /\ held = InitHeld
             /\ expanded = {}
             /\ active = None

\* No drag is over the tree.
DragInit == dragged = None

TreeInit == /\ PropsInit
            /\ DragInit
            /\ cursorId = None
            /\ lastIndex = 0
            /\ loads = [n \in Nodes |-> None]
            /\ asked = {} /\ coming = {} /\ strayed = {}
            /\ renaming = None
            /\ closed = {}
            /\ changes = 0

-----------------------------------------------------------------------------
(* The mouse and the keys.  No key and no click reaches the tree while a   *)
(* row is dragged or its name is typed.                                    *)

Idle == dragged = None /\ renaming = None

\* A click on a row: the cursor, and opening the node.
Click(n) ==
  /\ Idle
  /\ IF n \in Linked
     THEN /\ Counted
          /\ Render(kids, expanded, n, loads, n, TRUE)
          /\ UNCHANGED <<held, coming, strayed, renaming, dragged>>
     ELSE Look(IF IsExpandable(kids, n) THEN Toggled(n) ELSE expanded, n)

\* The chevron.
Toggle(n) == Idle /\ IsExpandable(kids, n) /\ Look(Toggled(n), n)

\* Arrow up and down, Home, End, and a letter.
KeyStep(rows, cursor) ==
  LET at == RowIndex(rows, cursor)
      next == {rows[1], Last(rows)}
                \cup {rows[i] : i \in {at - 1, at + 1} \cap DOMAIN rows}
                \cup {NextByLetter(rows, cursor, {n}) : n \in Range(rows)}
  IN  Idle /\ \E n \in next : MoveCursor(n)

Retried(n) == [loads EXCEPT ![n] = None]

\* Arrow right: open, ask again for what failed, or step in.
KeyRight(cursor) ==
  /\ Idle /\ IsExpandable(kids, cursor)
  /\ CASE cursor \notin expanded -> Look(expanded \cup {cursor}, cursorId)
       [] cursor \in expanded /\ loads[cursor] = "failed" ->
            /\ Render(kids, expanded, cursorId, Retried(cursor), active, TRUE)
            /\ UNCHANGED <<held, coming, strayed, renaming, dragged, changes>>
       [] OTHER -> /\ ChildrenOf(kids, cursor) # <<>>
                   /\ MoveCursor(ChildrenOf(kids, cursor)[1])

\* Arrow left: close, or step out.
KeyLeft(cursor) ==
  /\ Idle
  /\ IF IsOpen(kids, expanded, cursor)
     THEN Look(expanded \ {cursor}, cursorId)
     ELSE ParentOf(kids, cursor) # Top /\ MoveCursor(ParentOf(kids, cursor))

\* The star opens every sibling.
KeyStar(cursor) ==
  /\ Idle
  /\ Look(expanded \cup {n \in Range(Siblings(kids, cursor)) : IsExpandable(kids, n)}, cursorId)

\* The cursor's node opened from the keyboard.
KeyEnter(cursor) ==
  /\ Idle /\ cursor \in Linked
  /\ Counted
  /\ Render(kids, expanded, cursorId, loads, cursor, TRUE)
  /\ UNCHANGED <<held, coming, strayed, renaming, dragged>>

\* The app's request: ancestors opened, the cursor put on the node.
Reveal(n) ==
  /\ Idle
  /\ Look(expanded \cup Range(AncestorsOf(kids, n)), n)

\* Another page opened elsewhere, with the focus in the tree or not.
OpenElsewhere(a, focused) ==
  /\ a # active
  /\ Counted
  /\ Render(kids, expanded, cursorId, loads, a, focused)
  /\ UNCHANGED <<held, coming, strayed, renaming, dragged>>

\* F2, and the app's rename(id); the field ends once, and a click on another row ends it too.
StartRename(n) ==
  /\ Idle /\ n \notin Locked
  /\ Counted
  /\ renaming' = n
  /\ Render(kids, expanded, n, loads, active, TRUE)
  /\ UNCHANGED <<held, coming, strayed, dragged>>

EndRename ==
  /\ renaming # None /\ renaming' = None
  /\ UNCHANGED <<kids, held, expanded, active, cursorId, lastIndex, loads, asked, coming, strayed,
                 dragged, closed, changes>>

-----------------------------------------------------------------------------
(* Moving: the app applies every move at once.                             *)

\* What the server will put into a branch that is not loaded takes the node too.
HeldAfter(n, place) ==
  IF place.parent # Top /\ kids[place.parent] = Unloaded
  THEN [held EXCEPT ![place.parent] = InsertAt(@, place.index + 1, n)] ELSE held

Move(n, place) ==
  /\ Counted
  /\ Render(Moved(kids, n, place),
            IF place.expand = None THEN expanded ELSE expanded \cup {place.expand},
            cursorId, loads, active, TRUE)
  /\ held' = HeldAfter(n, place)

KeyMove(cursor, move) ==
  /\ Idle
  /\ \E place \in {KeyboardMove(kids, cursor, move)} : place # None /\ Move(cursor, place)
  /\ UNCHANGED <<coming, strayed, renaming, dragged>>

StartDrag(n) ==
  /\ dragged = None /\ changes < MaxChanges /\ renaming # n /\ n \notin Locked
  /\ dragged' = n
  /\ UNCHANGED <<kids, held, expanded, active, cursorId, lastIndex, loads, asked, coming, strayed,
                 renaming, closed, changes>>

\* The pointer rested on a closed node.
HoverExpand(n) ==
  /\ dragged # None /\ n \notin expanded /\ IsExpandable(kids, n)
  /\ Look(expanded \cup {n}, cursorId)

\* The target is read at the drop, from the tree as it is then.
DropOn(row, instruction) ==
  /\ dragged # None /\ dragged' = None
  /\ \E target \in {DropTarget(kids, expanded, row, instruction, dragged)} :
       target # None /\ Move(dragged, target)
  /\ UNCHANGED <<coming, strayed, renaming>>

\* A drop outside, on a place that takes nothing, or Esc.
EndDrag ==
  /\ dragged # None /\ dragged' = None
  /\ UNCHANGED <<kids, held, expanded, active, cursorId, lastIndex, loads, asked, coming, strayed,
                 renaming, closed, changes>>

\* A node the server does not hold under a branch that is not loaded.
IsNowhere(n) == \A p \in Nodes : n \notin Range(held[p])

\* A drag from outside: the app puts what was dragged where the tree says.
AcceptDrop(n, row, instruction) ==
  /\ dragged = None /\ n \notin Present(kids) /\ IsNowhere(n)
  /\ Counted
  /\ \E place \in {DropTarget(kids, expanded, row, instruction, None)} :
       /\ place # None
       /\ Render(Moved(kids, n, place), expanded, cursorId, loads, active, TRUE)
       /\ held' = HeldAfter(n, place)
  /\ UNCHANGED <<coming, strayed, renaming, dragged>>

-----------------------------------------------------------------------------
(* The branches that load, and the app's own changes of the nodes.         *)

\* The promise settles, of a branch that left the tree too; the children of one that is there
\* are in `nodes` in the same frame or later (Arrive).
Settle(n, outcome) ==
  /\ n \in asked
  /\ asked' = asked \ {n}
  /\ loads' = [loads EXCEPT ![n] = outcome]
  /\ IF outcome = "done" /\ n \in Present(kids) THEN coming' = coming \cup {n} ELSE UNCHANGED coming
  /\ IF outcome = "failed" \/ n \in Present(kids) THEN strayed' = strayed \ {n} ELSE UNCHANGED strayed
  /\ UNCHANGED <<kids, held, expanded, active, cursorId, lastIndex, renaming, dragged, closed, changes>>

Arrive(n) ==
  /\ n \in coming
  /\ Render([kids EXCEPT ![n] = held[n]], expanded, cursorId, loads, active, TRUE)
  /\ held' = [held EXCEPT ![n] = <<>>]
  /\ coming' = coming \ {n}
  /\ UNCHANGED <<strayed, renaming, dragged, changes>>

\* Retry on the row of a failed branch.
RetryLoad(n) ==
  /\ kids[n] = Unloaded /\ loads[n] = "failed"
  /\ Render(kids, expanded, cursorId, Retried(n), active, TRUE)
  /\ UNCHANGED <<held, coming, strayed, renaming, dragged, changes>>

\* A loaded branch of leaves is forgotten by the app, to be loaded again.
Invalidate(n) ==
  /\ kids[n] \notin {Unloaded, <<>>}
  /\ Counted
  /\ \A child \in Range(kids[n]) : kids[child] = <<>>
  /\ Render([kids EXCEPT ![n] = Unloaded], expanded, cursorId, loads, active, TRUE)
  /\ held' = [held EXCEPT ![n] = kids[n]]
  /\ UNCHANGED <<coming, strayed, renaming, dragged>>

\* Removed elsewhere, with all under it, loading or not. A branch not loaded comes back as it
\* went; the children on their way to one that is gone are not put anywhere.
Removed(n) ==
  /\ Counted
  /\ \E gone \in {{m \in Present(kids) : IsWithin(kids, m, n)}}, rest \in {TakenOut(kids, n)} :
       /\ Render([p \in Nodes \cup {Top} |->
                    IF p \in gone /\ kids[p] # Unloaded THEN <<>> ELSE rest[p]],
                 expanded, cursorId, loads, active, TRUE)
       /\ coming' = coming \ gone
       /\ strayed' = strayed \cup (gone \cap (asked \cup coming))
  /\ UNCHANGED <<held, renaming, dragged>>

\* Created or restored, last at the top level.
Added(n) ==
  /\ IsNowhere(n)
  /\ Counted
  /\ Render([kids EXCEPT ![Top] = Append(@, n)], expanded, cursorId, loads, active, TRUE)
  /\ UNCHANGED <<held, coming, strayed, renaming, dragged>>

KeyPress(rows, cursor) ==
  \/ KeyStep(rows, cursor)
  \/ KeyRight(cursor)
  \/ KeyLeft(cursor)
  \/ KeyStar(cursor)
  \/ KeyEnter(cursor)
  \/ \E move \in {"up", "down", "in", "out"} : KeyMove(cursor, move)

TreeNext ==
  \/ \E n \in Range(Rows) :
       Click(n) \/ Toggle(n) \/ StartDrag(n) \/ HoverExpand(n) \/ RetryLoad(n)
  \/ Idle /\ Rows # <<>> /\ \E rows \in {Rows}, cursor \in {Cursor} : KeyPress(rows, cursor)
  \/ \E n \in Present(kids) : Reveal(n) \/ StartRename(n) \/ Invalidate(n) \/ Removed(n)
  \/ \E a \in Actives \cup {None}, focused \in BOOLEAN : OpenElsewhere(a, focused)
  \/ EndRename
  \/ /\ dragged # None
     /\ \E row \in Range(Rows) :
          \E instruction \in Instructions(kids, expanded, row) : DropOn(row, instruction)
  \/ EndDrag
  \/ /\ changes < MaxChanges
     /\ \E n \in Nodes \ Present(kids), row \in Range(Rows) :
          \E instruction \in Instructions(kids, expanded, row) : AcceptDrop(n, row, instruction)
  \/ \E n \in asked, outcome \in {"done", "failed"} : Settle(n, outcome)
  \/ \E n \in coming : Arrive(n)
  \/ \E n \in Nodes \ Present(kids) : Added(n)

TreeSpec == TreeInit /\ [][TreeNext]_treeVars

-----------------------------------------------------------------------------
(* What the tree keeps.                                                    *)

\* The cursor is on a row whenever there is one, and its place is known.
CursorOnRow == Rows # <<>> => /\ Cursor \in Range(Rows)
                              /\ Rows[lastIndex + 1] = Cursor

\* The open page is on screen unless the user closed a branch above it since its path last
\* changed, or a locked node is above it.
ActiveShown ==
  active \in Present(kids) =>
    \/ active \in Range(Rows)
    \/ Range(AncestorsOf(kids, active)) \cap (closed \cup Locked) # {}

\* An open branch on screen that is not loaded is being loaded, or its load failed and can be
\* tried again, or its children are about to come; and a branch is asked for once at a time.
\* The exception is a branch that left the tree while it was loaded and came back: it is said to
\* be loaded, no children come, and it is not asked for again (Tree.tsx:187, :191).
BranchesLoad ==
  \A n \in Nodes :
    /\ n \in Range(Rows) /\ IsOpen(kids, expanded, n) /\ kids[n] = Unloaded
         => \/ loads[n] \in {"pending", "failed"}
            \/ loads[n] = "done" /\ n \in coming \cup strayed
    /\ loads[n] = "pending" <=> n \in asked
    /\ n \in coming => n \in Present(kids) /\ kids[n] = Unloaded /\ loads[n] = "done"
    /\ n \in asked \ strayed => n \in Present(kids) /\ kids[n] = Unloaded

\* The nodes may come and go at any time: the tree keeps its cursor, shows the open page and
\* loads what it opened, but for a branch that went away while it was loaded and came back
\* (Tree.tsx: cursor, openActivePath, startLoads).
TreeKeepsSight == CursorOnRow /\ ActiveShown /\ BranchesLoad

\* The neighbour of n among its siblings, None at an end.
Above(k, n) == IF PositionOf(k, n) = 0 THEN None ELSE Siblings(k, n)[PositionOf(k, n)]

\* Where a drop was shown is where the node is: above or below the row, first or last in it,
\* or right under the ancestor on the chosen level; never inside itself, never the same place.
LandsWhereShown(row, instruction) ==
  LET n == dragged
      ancestor == AncestorsOf(kids, row)[instruction.level + 1]
      into == IF kids[row] = Unloaded THEN held' ELSE kids'
  IN  /\ ~IsWithin(kids, row, n)
      /\ kids' # kids
      /\ CASE instruction.type = "reorder-above" -> Above(kids', row) = n
           [] instruction.type = "reorder-below" -> Above(kids', n) = row
           [] instruction.type = "reparent" -> Above(kids', n) = ancestor
           [] instruction.type = "make-child" ->
                IF row \in expanded /\ ChildrenOf(kids, row) # <<>>
                THEN into[row][1] = n
                ELSE n \in Range(into[row]) /\ (kids[row] # Unloaded => Last(into[row]) = n)

\* A drop puts the node where the line showed it, and a key moves it by one place or one
\* level, in the nodes as they are when it lands (dropTarget, keyboardMove).
MovesLandWhereShown == changes' # changes =>     \* as every move is counted
  /\ dragged # None /\ dragged' = None =>
       \A row \in Range(Rows) : \A instruction \in Instructions(kids, expanded, row) :
         DropOn(row, instruction) => LandsWhereShown(row, instruction)
  /\ KeyMove(Cursor, "up") => Above(kids', Above(kids, Cursor)) = Cursor
  /\ KeyMove(Cursor, "out") => Above(kids', Cursor) = ParentOf(kids, Cursor)
  /\ KeyMove(Cursor, "in") => LET p == Above(kids, Cursor)
                      IN  p \in expanded' /\ (kids[p] # Unloaded => Last(kids'[p]) = Cursor)
=============================================================================
