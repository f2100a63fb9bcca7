------------------------------- MODULE Lists -------------------------------
(***************************************************************************)
(* The kit's virtual list (components/VirtualList): which rows are mounted *)
(* while a list scrolls and changes, when it asks for more, and a drag of  *)
(* one of its rows, read from the row under the pointer.  Rows have one    *)
(* height; places count from 0 as the code counts them.                    *)
(***************************************************************************)
EXTENDS Integers, Sequences

CONSTANTS RowKeys,      \* the items, in the order they may be loaded in
          Hole,         \* a row of count that is not loaded
          Height,       \* rows in view
          Overscan, EndThreshold,
          NoKey,
          MaxRowChanges \* bound on the changes of the rows

VARIABLES
  rows,         \* data, with holes up to count
  loaded,       \* data.length: rows after it are placeholders
  top,          \* the first row in view
  cursorKey,
  reported,     \* the length the end was last reported for
  told,         \* the range in view as the app was last told
  asked,        \* history: how often more was asked for at this length
  drag,         \* [key, target], or <<>>; target: what the line shows, or <<>>
  record,       \* the row under the pointer as the drag last read it: [over, before], or <<>>
  fresh,        \* history: the rows have not changed since then
  rowChanges

listing == <<rows, loaded, top>>
dragging == <<drag, record, fresh>>
reports == <<reported, told, asked>>
listVars == <<listing, cursorKey, reports, dragging, rowChanges>>

Count == Len(rows)
RowAt(i) == rows[i + 1]
KeyOf(i) == IF RowAt(i) = Hole THEN <<"placeholder", i>> ELSE <<"item", RowAt(i)>>
Places == 0 .. Count - 1
Least(S) == CHOOSE x \in S : \A y \in S : x <= y
Smaller(a, b) == IF a <= b THEN a ELSE b
Larger(a, b) == IF a >= b THEN a ELSE b

\* A loaded row's place, -1 when it is not there.
IndexOf(key) ==
  LET at == {i \in Places : i < loaded /\ key # Hole /\ RowAt(i) = key}
  IN  IF at = {} THEN -1 ELSE Least(at)

End == Smaller(top + Height, Count) - 1
CursorIndex == IndexOf(cursorKey)
SourceIndex == IF drag = <<>> THEN -1 ELSE IndexOf(drag[1].key)

\* rangeExtractor: the view, the overscan, and the rows that hold the focus or the drag.
MountedUnpinned ==      \* mutant: a scroll unmounts the cursor's and the dragged row
  Places \cap (top - Overscan .. End + Overscan)
Mounted ==
  (Places \cap (top - Overscan .. End + Overscan)) \cup ({CursorIndex, SourceIndex} \cap Places)

\* One row as it is drawn: what it holds, its number, and what the drag shows on it.
Row(i) ==
  [holds |-> IF RowAt(i) = Hole THEN "placeholder" ELSE RowAt(i), number |-> i + 1, outOf |-> Count,
   lifted |-> i = SourceIndex,
   line |-> drag # <<>> /\ drag[1].target # <<>> /\ drag[1].target[1].index = i]

Range(first, last) == <<first, last>>
RowsInit == rows = <<>> /\ loaded = 0
ViewInit == top = 0 /\ told = Range(-1, -1)
CursorInit == cursorKey = NoKey
ReportInit == reported = -1 /\ asked = 0
NotDragged == drag = <<>> /\ record = <<>> /\ fresh = TRUE
ListInit == RowsInit /\ ViewInit /\ CursorInit /\ ReportInit /\ NotDragged /\ rowChanges = 0

-----------------------------------------------------------------------------
(* The rows and the view.                                                  *)

Reveal(i, t) == IF i < t THEN i ELSE IF i >= t + Height THEN i - Height + 1 ELSE t

\* The rows in view are told as they change, but an empty view.
Tells(newTop, end) == told' = IF end >= 0 THEN Range(newTop, end) ELSE told

\* Reported once per length, so a page in flight is not asked for again.
Reports(newRows, newLoaded, newTop) ==
  LET end == Smaller(newTop + Height, Len(newRows)) - 1
      due == Len(newRows) > 0 /\ end >= newLoaded - 1 - EndThreshold /\ reported # newLoaded
  IN  /\ Tells(newTop, end)
      /\ reported' = IF due THEN newLoaded ELSE reported
      /\ asked' = IF newLoaded # loaded THEN (IF due THEN 1 ELSE 0) ELSE IF due THEN asked + 1 ELSE asked

\* The app's data changes: a page lands, a row arrives first or goes, or another order.
RowsBecome(newRows, newLoaded) ==
  /\ rowChanges < MaxRowChanges /\ rowChanges' = rowChanges + 1
  /\ <<newRows, newLoaded>> # <<rows, loaded>>
  /\ rows' = newRows /\ loaded' = newLoaded
  /\ top' = Larger(0, Smaller(top, Len(newRows) - Height))
  /\ Reports(newRows, newLoaded, Larger(0, Smaller(top, Len(newRows) - Height)))
  /\ fresh' = FALSE
  /\ UNCHANGED <<cursorKey, drag, record>>

LoadedRows == SubSeq(rows, 1, loaded)
Missing == RowKeys \ {rows[i] : i \in DOMAIN rows}
Holes(n) == [i \in 1 .. n |-> Hole]

PageLands(k, more) == k \in Missing /\ RowsBecome(LoadedRows \o <<k>> \o Holes(more), loaded + 1)
RowArrives(k) == k \in Missing /\ RowsBecome(<<k>> \o rows, loaded + 1)
RowGoes(i) ==
  i < loaded /\ RowsBecome(SubSeq(rows, 1, i) \o SubSeq(rows, i + 2, Count), loaded - 1)

Scroll(t) ==
  /\ t \in 0 .. Larger(0, Count - Height) /\ t # top /\ top' = t
  /\ Reports(rows, loaded, t)
  /\ UNCHANGED <<rows, loaded, cursorKey, dragging, rowChanges>>

\* Near an edge a dragged row scrolls its list.
AutoScroll(step) == drag # <<>> /\ Scroll(top + step)

\* The cursor's row comes into view by the least shift, when the cursor moves only.
CursorMoves(key) ==
  /\ key # cursorKey /\ cursorKey' = key
  /\ LET i == IndexOf(key)
         t == IF i >= 0 THEN Reveal(i, top) ELSE top
     IN  top' = t /\ Reports(rows, loaded, t)
  /\ UNCHANGED <<rows, loaded, dragging, rowChanges>>

-----------------------------------------------------------------------------
(* The drag.                                                               *)

DragState(key, target) == <<[key |-> key, target |-> target]>>
Line(index, before, to) == <<[index |-> index, before |-> before, to |-> to]>>

\* The place before or after row over, for the row at from, or none where it already is: the rows
\* after the dragged one move up once it is taken out.
ReorderTarget(from, over, before) ==
  LET place == IF before THEN over ELSE over + 1
      to == IF from < place THEN place - 1 ELSE place
  IN  IF to = from THEN <<>> ELSE Line(over, before, to)

TargetOf(key, rec) ==
  LET from == IndexOf(key)
  IN  IF from < 0 \/ rec = <<>> THEN <<>> ELSE ReorderTarget(from, rec[1].over, rec[1].before)

\* A mounted row that is loaded, as a draggable and as a drop target.
Liftable(i) == i \in Mounted /\ i < loaded /\ KeyOf(i)[1] = "item"
Droppable(i) == i \in Mounted /\ i < loaded

Lift(i) ==
  /\ drag = <<>> /\ Liftable(i)
  /\ drag' = DragState(KeyOf(i)[2], <<>>) /\ record' = <<>> /\ fresh' = TRUE
  /\ UNCHANGED <<listing, cursorKey, reports, rowChanges>>

\* The pointer over a row, or over none.
DragOver(rec) ==
  /\ drag # <<>>
  /\ rec # <<>> => Droppable(rec[1].over)
  /\ record' = rec /\ fresh' = TRUE
  /\ drag' = DragState(drag[1].key, TargetOf(drag[1].key, rec))
  /\ UNCHANGED <<listing, cursorKey, reports, rowChanges>>

\* What is announced of a move: the new number, out of how many.
Announced(to) == <<to + 1, Count>>

Without(s, i) == SubSeq(s, 1, i) \o SubSeq(s, i + 2, Len(s))
MovedTo(s, from, to) ==
  SubSeq(Without(s, from), 1, to) \o <<s[from + 1]>> \o SubSeq(Without(s, from), to + 1, Len(s) - 1)

\* The place is read once more as the row is let go; the app moves it.
Drop ==
  /\ drag # <<>>
  /\ LET key == drag[1].key
         target == TargetOf(key, record)
     IN  rows' = IF target = <<>> THEN rows ELSE MovedTo(rows, IndexOf(key), Smaller(target[1].to, loaded - 1))
  /\ drag' = <<>> /\ record' = <<>> /\ fresh' = TRUE
  /\ UNCHANGED <<loaded, top, cursorKey, reports, rowChanges>>

ListNext ==
  \/ \E k \in RowKeys : RowArrives(k) \/ (\E more \in 0 .. 1 : PageLands(k, more))
  \/ \E i \in Places : RowGoes(i) \/ Scroll(i) \/ Lift(i)
  \/ \E step \in {-1, 1} : AutoScroll(step)
  \/ \E key \in RowKeys \cup {NoKey} : CursorMoves(key)
  \/ \E rec \in {<<>>} \cup {<<[over |-> i, before |-> b]>> : i \in Places, b \in BOOLEAN} : DragOver(rec)
  \/ Drop

-----------------------------------------------------------------------------
(* What the list keeps.                                                    *)

\* However the list scrolls and changes, the row that holds the cursor and the one being dragged
\* stay mounted; what is in view is, and the app was told of it; while the rows stay, the line of a
\* drag is on one loaded row.
PinnedStayMounted ==
  /\ \A i \in {CursorIndex, SourceIndex} : i >= 0 => i \in Mounted
  /\ Places \cap (top .. End) \subseteq Mounted
  /\ Count > 0 => told = Range(top, End)
  /\ drag # <<>> /\ fresh /\ drag[1].target # <<>> =>
       \E i \in Places : Row(i).line /\ Row(i).holds \in RowKeys

\* More is asked for once per length and whenever the end of what is loaded is near.
AsksOnce ==
  /\ asked <= 1
  /\ Count > 0 /\ End >= loaded - 1 - EndThreshold => reported = loaded

\* A dropped row lands right beside the line drawn for it, at the number that is announced, and no
\* other row moves; without a line nothing does (but for rows that came or went since the pointer
\* last moved).
LandsAtTheLine ==
  drag # <<>> /\ drag' = <<>> /\ fresh =>
    LET line == drag[1].target
        at == CHOOSE i \in DOMAIN rows' : rows'[i] = drag[1].key
        others(s) == SelectSeq(s, LAMBDA r : r # drag[1].key)
    IN  IF line = <<>> THEN rows' = rows
        ELSE /\ Announced(line[1].to) = <<at, Len(rows')>>
             /\ rows'[IF line[1].before THEN at + 1 ELSE at - 1] = RowAt(line[1].index)
             /\ others(rows') = others(rows)
=============================================================================
