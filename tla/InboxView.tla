------------------------------ MODULE InboxView ------------------------------
(***************************************************************************)
(* The Inbox page (pages/Inbox): three tabs, the pinned Account group, the *)
(* time groups, the highlight with its keys, what a row's keys and buttons *)
(* do to the open tab at once, and what the page shows while a query loads *)
(* or fails.  The cache is InboxCache's subject: undo, rollbacks, messages *)
(* and other tabs change the rows here in any way (`CacheChanges`), so     *)
(* what the page keeps, it keeps whatever the cache does.  Only the open   *)
(* tab's queries are kept.  Left out: the pause of queries offline.        *)
(***************************************************************************)
EXTENDS Integers, Sequences, SequencesExt, FiniteSetsExt

CONSTANTS PageNotes,   \* the notifications, 1 .. n: ids break the ties of dates
          AccountOnes, \* those of the account: workspaceId is null
          ChangedOn,   \* [PageNotes -> days before the page's opening]; negative: a clock ahead
          ArchivedOn,  \* [PageNotes -> the same, of when it was archived, if it is]
          WeekInfo,    \* the locale's first day of the week, Monday is 1; 0 where it is not told
          Today,       \* the day of the week, as getDay: Sunday is 0
          Unloaded, NoNote

Tabs == {"all", "unread", "archived"}

VARIABLES viewParam,   \* the ?view= of the address, "" without one
          listing, pins,  \* the open tab's queries: its list and its Account group
          more,        \* the list has a next page
          cursor,      \* the highlight
          reported     \* how long the list was when it last told of its end

viewVars == <<viewParam, listing, pins, more, cursor, reported>>

\* The address may hold anything: what is no view counts as none, and none is All.
ParseView(raw) == IF raw \in Tabs THEN raw ELSE ""
CurrentOf(raw) == IF ParseView(raw) = "" THEN "all" ELSE raw
Current == CurrentOf(viewParam)

\* A query: what it has, how it failed since, and what it asks for: everything, that again after
\* the socket was away, or the next page.  A first answer on its way is waited for.
JustMounted == [data |-> Unloaded, failed |-> "no", asks |-> "all"]
Idle == [data |-> Unloaded, failed |-> "no", asks |-> "nothing"]
FailureOf(what) == IF what = "next" THEN "next" ELSE "all"
IsLoading(q) == q.data = Unloaded /\ q.asks # "nothing"
Asking(q, what) ==
  IF IsLoading(q) THEN q
  ELSE [q EXCEPT !.asks = what, !.failed = IF q.data = Unloaded \/ @ = "no" THEN "no" ELSE FailureOf(what)]
Answered(q, data) == [data |-> data, failed |-> "no", asks |-> "nothing"]
Refused(q) == [q EXCEPT !.failed = FailureOf(q.asks), !.asks = "nothing"]
AsksAll(q) == q.asks \in {"all", "again"}
RowsOf(q) == IF q.data = Unloaded THEN {} ELSE q.data

\* Put into the cache by hand: an error is forgotten, a request goes on; nothing without data or for
\* none.
SetData(q, data) == IF Unloaded \in {q.data, data} THEN q ELSE [q EXCEPT !.data = data, !.failed = "no"]

\* The days before the opening of the date a tab sorts and groups by: the fewer, the newer.
SortDateOf(v, n) == IF v = "archived" THEN ArchivedOn[n] ELSE ChangedOn[n]
ComesBefore(v, a, b) ==
  SortDateOf(v, a) < SortDateOf(v, b) \/ (SortDateOf(v, a) = SortDateOf(v, b) /\ a > b)

\* What the page shows, in order: the Account group, not in Archived, and the rest of the list.
\* The cache and the server keep both sorted. (Joined to the empty function it is a table TLC fills once.)
Newest ==
  [t \in Tabs \X SUBSET PageNotes |-> SetToSortSeq(t[2], LAMBDA a, b : ComesBefore(t[1], a, b))]
    @@ [t \in {} |-> <<>>]
PinnedIds == IF Current = "archived" THEN {} ELSE RowsOf(pins)
Pinned == Newest["all", PinnedIds]
Feed == Newest[Current, RowsOf(listing) \ PinnedIds]
Visible == Pinned \o Feed

\* Calendar days: today, yesterday, the rest of the week, earlier.
FirstDayOfWeek(info) == IF info \in 1 .. 7 THEN info ELSE 1
GroupOf(days) ==
  LET daysIntoWeek == (Today - (FirstDayOfWeek(WeekInfo) % 7) + 7) % 7
  IN  CASE days <= 0 -> "today"
        [] days = 1 -> "yesterday"
        [] days > 1 /\ days <= daysIntoWeek -> "week"
        [] OTHER -> "earlier"
GroupByChange(v, n) == GroupOf(ChangedOn[n])     \* mutant: whatever the tab sorts by
GroupIn(v, n) == GroupOf(SortDateOf(v, n))

\* The row's time, of one so many calendar days and hours ago.
TimeOf(days, hours) ==
  CASE hours < 1 -> "minutes"
    [] hours >= 1 /\ days = 0 -> "hours"
    [] hours >= 1 /\ days = 1 -> "yesterday"
    [] OTHER -> IF days < 7 THEN "weekday" ELSE "date"

\* Only with nothing to show: a failed refetch keeps the group it had.
PinnedFailed == Current # "archived" /\ pins.failed # "no" /\ pins.data = Unloaded

GroupEntry(group) == [kind |-> "group", group |-> group]
RowEntry(n) == [kind |-> "row", item |-> n]
PinnedError == [kind |-> "pinnedError"]

\* What the list is given: headers, rows and the line of a failed Account group.
Entries ==
  LET pinned == Pinned
      feed == Feed
      group(i) == GroupIn(Current, feed[i])
      dated(i) == IF i = 1 \/ group(i) # group(i - 1)
                  THEN <<GroupEntry(group(i)), RowEntry(feed[i])>> ELSE <<RowEntry(feed[i])>>
      top == IF pinned # <<>> \/ PinnedFailed THEN <<GroupEntry("account")>> ELSE <<>>
      rows == [i \in DOMAIN pinned |-> RowEntry(pinned[i])]
      line == IF PinnedFailed THEN <<PinnedError>> ELSE <<>>
  IN  top \o rows \o line \o FlattenSeq([i \in DOMAIN feed |-> dated(i)])

\* Skeleton, the error alone, the empty state, or the list with what follows its rows.
Loading == IsLoading(listing) \/ (Current # "archived" /\ IsLoading(pins))
ListFailed == listing.failed # "no" /\ RowsOf(listing) = {}
Footer == CASE listing.failed = "next" -> "Retry"
            [] listing.failed # "next" /\ listing.asks = "next" -> "Loading..."
            [] OTHER -> "nothing"
EmptyState(v) == [shows |-> "empty", footer |-> "nothing", action |-> IF v = "unread" THEN "View all" ELSE "none"]
ErrorAlone == [shows |-> "error", footer |-> "nothing", action |-> "Retry"]
ListWith(footer) == [shows |-> "list", footer |-> footer, action |-> "none"]
Content ==
  CASE Loading -> [shows |-> "skeleton", footer |-> "nothing", action |-> "none"]
    [] ~Loading /\ ListFailed -> IF PinnedIds = {} THEN ErrorAlone ELSE ListWith("error")
    [] ~Loading /\ ~ListFailed /\ Visible = <<>> /\ ~PinnedFailed -> EmptyState(Current)
    [] OTHER -> ListWith(Footer)
ListShown == Content.shows = "list"

-----------------------------------------------------------------------------
(* The highlight.                                                          *)

First(rows) == IF rows = <<>> THEN NoNote ELSE rows[1]
At(rows, id) == IF Contains(rows, id) THEN CHOOSE i \in DOMAIN rows : rows[i] = id ELSE 0

NextOf(rows, id) ==     \* mutant: the last row has no neighbour
  LET i == At(rows, id) IN IF i > 0 /\ i < Len(rows) THEN rows[i + 1] ELSE NoNote

NeighbourOf(rows, id) ==
  LET i == At(rows, id)
  IN  CASE i = 0 -> NoNote
        [] i > 0 /\ i < Len(rows) -> rows[i + 1]
        [] OTHER -> IF i > 1 THEN rows[i - 1] ELSE NoNote

SteppedOff(id) == IF cursor = id THEN NeighbourOf(Visible, id) ELSE cursor

\* After every render of the list a highlight that is not among its rows goes to the first; a list
\* that is gone forgets what it told of its end.
Render(at) ==
  LET shown == ListShown'
      rows == Visible'
  IN  /\ cursor' = IF shown /\ ~Contains(rows, at) THEN First(rows) ELSE at
      /\ reported' = IF shown THEN reported ELSE 0

ViewInit ==
  /\ viewParam = "other" /\ listing = JustMounted /\ pins = JustMounted
  /\ more = FALSE /\ cursor = NoNote /\ reported = 0

Move(delta) ==
  LET i == At(Visible, cursor) + delta
  IN  /\ ListShown /\ Visible # <<>>
      /\ cursor' = Visible[Max({1, Min({i, Len(Visible)})})]
      /\ UNCHANGED <<viewParam, listing, pins, more, reported>>
J == Move(1)
K == Move(-1)
Home == Move(-Len(Visible))
End == Move(Len(Visible))

\* A press on a row, before what its buttons do.
PointAt(n) ==
  /\ ListShown /\ Contains(Visible, n) /\ cursor' = n
  /\ UNCHANGED <<viewParam, listing, pins, more, reported>>

-----------------------------------------------------------------------------
(* The tabs.                                                               *)

\* What the cache has of a tab nobody looked at, nothing, no rows or some: asked for anew, it is stale
\* at once. (What rows they are, CacheChanges may change.)
Kept(ids) == {JustMounted} \cup [data : {{}, ids}, failed : {"no", "all"}, asks : {"all"}]

\* Another tab's queries; a list without data has no next page. Archived has no Account group, and
\* the others' shows no failure while it has data.
Opens(v) ==
  /\ listing' \in Kept(PageNotes)
  /\ more' \in IF listing'.data = Unloaded THEN {FALSE} ELSE BOOLEAN
  /\ IF v = "archived" THEN pins' = Idle ELSE pins' \in {q \in Kept(AccountOnes) : q.failed = "no"}

\* Another address. The highlight is cleared with the view, and the new list puts it on its first row.
GoTo(raw) ==
  /\ raw # viewParam /\ viewParam' = raw
  /\ IF CurrentOf(raw) = Current THEN UNCHANGED <<listing, pins, more>> ELSE Opens(CurrentOf(raw))
  /\ Render(IF ParseView(raw) = ParseView(viewParam) THEN cursor ELSE NoNote)
SetView(v) == v \in Tabs /\ GoTo(v)
ViewAll == Content.action = "View all" /\ SetView("all")

-----------------------------------------------------------------------------
(* What a row's keys and buttons do to the open tab at once.               *)

\* At its place, if it is before one of the loaded rows or there are no more; else with its page.
Placed(ids, n) ==
  LET rest == ids \ {n}
  IN  IF more /\ ~(\E m \in rest : ComesBefore("all", n, m)) THEN rest ELSE rest \cup {n}

\* In place: whether a row says read is the cache's. A pinned one read leaves the All tab's group
\* for its place in the list.
PatchRead(ids, isRead) ==
  LET moving == IF isRead /\ Current = "all" THEN ids \cap RowsOf(pins) ELSE {}
  IN  /\ pins' = SetData(pins, RowsOf(pins) \ moving)
      /\ listing' = SetData(listing, FoldLeft(Placed, RowsOf(listing), Newest["all", moving]))
      /\ UNCHANGED <<viewParam, more>>

\* A row of Archived is archived, any other is not: either way it leaves the tab.
PatchArchive(n) ==
  /\ pins' = SetData(pins, RowsOf(pins) \ {n})
  /\ listing' = SetData(listing, RowsOf(listing) \ {n})
  /\ UNCHANGED <<viewParam, more>>

\* The key acts on the highlighted row, a button on its own.
Highlighted(n) == n = cursor /\ Contains(Visible, n)
OnScreen(n) == ListShown /\ Contains(Visible, n)

\* E and the row's button, Archive or Unarchive: the highlight steps off a row that leaves.
ToggleArchived(n) ==
  /\ Highlighted(n) \/ OnScreen(n)
  /\ PatchArchive(n) /\ Render(SteppedOff(n))

\* U and the row's button: one that is unread is read, one that is read is unread again.
ToggleRead(n, isRead) ==
  /\ Highlighted(n) \/ OnScreen(n)
  /\ PatchRead({n}, isRead) /\ Render(cursor)

\* Shift+U and the header's button, not in Archived: the unread ones of the workspace and of the
\* account that are not newer than the tab's clock.
ReadAll(ids) ==
  /\ Current # "archived" /\ ids \subseteq RowsOf(listing) \cup RowsOf(pins)
  /\ PatchRead(ids, TRUE) /\ Render(cursor)

\* The cache's other changes: undo, a rollback, a message, another tab; Unloaded where it changes nothing.
CacheChanges(rows, group) ==
  /\ listing' = SetData(listing, rows) /\ pins' = SetData(pins, group)
  /\ UNCHANGED <<viewParam, more>>
  /\ Render(cursor)

-----------------------------------------------------------------------------
(* The queries.                                                            *)

\* After a rejoin the open queries are asked for again, and what else they asked for is given up;
\* the Retry of the list and that of the group ask for theirs.
Refetch ==
  /\ listing' = Asking(listing, "again")
  /\ pins' = IF Current = "archived" THEN pins ELSE Asking(pins, "again")
  /\ UNCHANGED <<viewParam, more>> /\ Render(cursor)
RetryList ==
  /\ "Retry" = Content.action \/ Content.footer = "error"
  /\ listing' = Asking(listing, "all")
  /\ UNCHANGED <<viewParam, pins, more>> /\ Render(cursor)
RetryPinned ==
  /\ ListShown /\ PinnedFailed /\ pins' = Asking(pins, "all")
  /\ UNCHANGED <<viewParam, listing, more>> /\ Render(cursor)

\* The end of the list came in sight, once for each length of it; a footer's Retry asks too.  Asked
\* or not, what else was asked for is given up: the answer is the next page and what there was.
ReachEnd ==
  /\ ListShown /\ Entries # <<>> /\ reported # Len(Entries)
  /\ listing' = IF ListFailed THEN listing ELSE Asking(listing, "next")
  /\ cursor' = cursor /\ reported' = Len(Entries)
  /\ UNCHANGED <<viewParam, pins, more>>
RetryNext ==
  /\ Content.footer = "Retry" /\ listing' = Asking(listing, "next")
  /\ UNCHANGED <<viewParam, pins, more, cursor, reported>>

Load(rows) ==
  /\ AsksAll(listing) /\ listing' = Answered(listing, rows) /\ more' \in BOOLEAN
  /\ UNCHANGED <<viewParam, pins>> /\ Render(cursor)
LoadPinned(group) ==
  /\ AsksAll(pins) /\ pins' = Answered(pins, group)
  /\ UNCHANGED <<viewParam, listing, more>> /\ Render(cursor)

\* After the rows there are; without a next page, those.
NextPage(rows) ==
  /\ listing.asks = "next" /\ (more \/ rows = {})
  /\ listing' = Answered(listing, RowsOf(listing) \cup rows) /\ more' \in {more, FALSE}
  /\ UNCHANGED <<viewParam, pins>> /\ Render(cursor)

\* Refused, and once more.
FailList ==
  /\ AsksAll(listing) \/ (listing.asks = "next" /\ more)
  /\ listing' = Refused(listing)
  /\ UNCHANGED <<viewParam, pins, more>> /\ Render(cursor)
FailPinned ==
  /\ AsksAll(pins) /\ pins' = Refused(pins)
  /\ UNCHANGED <<viewParam, listing, more>> /\ Render(cursor)

ViewNext ==
  \/ J \/ K \/ Home \/ End \/ ViewAll
  \/ \E n \in PageNotes : PointAt(n) \/ ToggleArchived(n) \/ ToggleRead(n, TRUE) \/ ToggleRead(n, FALSE)
  \/ \E v \in Tabs : SetView(v)
  \/ \E ids \in SUBSET PageNotes : ReadAll(ids) \/ Load(ids) \/ NextPage(ids)
  \/ \E rows \in SUBSET PageNotes \cup {Unloaded}, group \in SUBSET AccountOnes \cup {Unloaded} : CacheChanges(rows, group)
  \/ \E group \in SUBSET AccountOnes : LoadPinned(group)
  \/ Refetch \/ RetryList \/ RetryPinned \/ ReachEnd \/ RetryNext \/ FailList \/ FailPinned

ViewSpec == ViewInit /\ [][ViewNext]_viewVars

-----------------------------------------------------------------------------
(* What the page keeps.                                                    *)

\* The list on screen has each notification once, under one header per group in the order of
\* the groups, and the highlight is one of its rows; what failed to load can be tried again
\* (groupEntries, the layout effect of InboxList, the content of Inbox).
PageReads ==
  LET entries == Entries
      headers == SelectSeq(entries, LAMBDA e : e.kind = "group")
      rank == [account |-> 0, today |-> 1, yesterday |-> 2, week |-> 3, earlier |-> 4]
  IN  /\ ListShown =>
           /\ IsInjective(Visible)
           /\ \A i, j \in DOMAIN headers : i < j => rank[headers[i].group] < rank[headers[j].group]
           /\ entries # <<>> => entries[1].kind = "group"
           /\ Visible # <<>> => Contains(Visible, cursor)
      /\ ~Loading /\ ListFailed => Content.action = "Retry" \/ Content.footer = "error"
      /\ ~Loading /\ PinnedFailed => Content.action = "Retry" \/ (ListShown /\ Contains(entries, PinnedError))
      /\ ListShown /\ ~ListFailed /\ listing.failed = "next" => Content.footer = "Retry"

\* While the day of the page's opening lasts, a row's time in All and Unread says the day its
\* group does, but for the hour after midnight (time.ts, grouping.ts).
TimeTellsTheGroup ==
  \A days \in 0 .. 8 : \A hours \in {h \in 0 .. 200 : h > 24 * (days - 1) /\ h < 24 * (days + 1)} :
    LET time == TimeOf(days, hours) IN
    /\ time = "hours" => GroupOf(days) = "today"
    /\ GroupOf(days) = "today" => time \in {"minutes", "hours"}
    /\ time = "yesterday" => GroupOf(days) = "yesterday"
    /\ time \in {"weekday", "date"} => GroupOf(days) \in {"week", "earlier"}
    /\ GroupOf(days) = "week" => time = "weekday"

\* Whatever the cache does, the highlight stays on its row while the tab shows it, and a row the user
\* archives or takes back with the highlight on it gives it to a neighbour (stepCursorOff). Its time
\* says what its group does.
PlaceIsKept ==
  viewParam' = viewParam /\ cursor' # cursor /\ Contains(Visible, cursor) /\ ListShown /\ ListShown' =>
    \/ Visible' = Visible
    \/ /\ ~Contains(Visible', cursor)
       /\ ToggleArchived(cursor) /\ Len(Visible) > 1
            => At(Visible, cursor) - At(Visible, cursor') \in {1, -1}
KeepsPlace == TimeTellsTheGroup /\ [][PlaceIsKept]_viewVars
=============================================================================
