----------------------------- MODULE InboxCache -----------------------------
(***************************************************************************)
(* The Inbox cache of one browser tab: its lists, the pinned account group *)
(* and the unread counts, patched before the server answers, and brought   *)
(* up to date by the socket's inbox.updated.  The server's notifications,  *)
(* the other tabs and the requests in flight are the environment.          *)
(*                                                                         *)
(* A notification is a number, its place by updatedAt, which none of these *)
(* operations changes.  Every list is one loaded page.  A stamp is the     *)
(* time of an archiving; the client's and the server's never agree.        *)
(***************************************************************************)
EXTENDS Integers, FiniteSets, SequencesExt, FiniteSetsExt, Functions, Selections

CONSTANTS
    Notes,      \* the notifications of one workspace's Inbox
    Account,    \* those of the account, of no workspace
    Fresh,      \* those that are created while the tab is open
    Kinds,      \* the changes made in this tab
    ElseKinds,  \* the changes made elsewhere
    MaxOwn,     \* bound: changes made in this tab
    MaxElse     \* bound: changes made elsewhere, tabs opened, connections and updates lost, failures

ASSUME NotesAssumption ==
    /\ Notes \subseteq Nat \ {0}
    /\ IsFiniteSet(Notes)
    /\ Account \subseteq Notes
    /\ Fresh \subseteq Notes

VARIABLES
    server,      \* the notifications as the database has them
    cache,       \* the cached lists and pinned groups
    summary,     \* the cached unread counts
    held,        \* inFlight: how many own changes name a notification
    behind,      \* summaryBehind
    changes,     \* the own changes that are not settled
    unpublished, \* the changes committed and not yet published, each with what was read for it
    overtaken,   \* the last update was dropped, or carried counts that had changed since
    events,      \* inbox.updated on its way to this tab
    online,      \* the channel is joined
    view,        \* the tab that is open
    fetching,    \* a query's request: none, sent, or answered by the server
    answer,      \* the notifications an answer was made from
    undo,        \* what the Undo of the last toast does
    spent,       \* what is used of each bound, and how many changes failed
    stamp        \* the last time stamp given

vars == <<server, cache, summary, held, behind, changes, unpublished, overtaken,
          events, online, view, fetching, answer, undo, spent, stamp>>

Views == {"all", "unread", "archived"}
Groups == {"pinned all", "pinned unread"}
Places == Views \cup Groups
Queries == Places \cup {"summary"}

-----------------------------------------------------------------------------
(* A notification and the lists it belongs to. *)

Copy == [id : Notes, read : BOOLEAN, arch : Nat]

isUnread(c) == ~c.read /\ c.arch = 0

sortDateOf(v, c) ==
    IF v = "archived" /\ c.arch # 0 THEN c.arch ELSE c.id

comesBefore(v, a, b) ==
    \/ sortDateOf(v, a) > sortDateOf(v, b)
    \/ sortDateOf(v, a) = sortDateOf(v, b) /\ a.id > b.id

belongsTo(v, c) ==
    /\ ~(c.id \in Account /\ isUnread(c))
    /\ v = "unread" => isUnread(c)
    /\ (c.arch # 0) <=> (v = "archived")

(* Copies as a list, in the order of its view. *)
Sorted(v, some) ==
    [k \in 1..Cardinality(some) |->
        CHOOSE c \in some : Cardinality({d \in some : comesBefore(v, d, c)}) = k - 1]

Others(n) == {x \in Copy : x.id # n}

place(v, list, c) ==
    LET rest == Those(list, Others(c.id))
        after == {i \in DOMAIN rest : comesBefore(v, c, rest[i])}
    IN  IF ~belongsTo(v, c) THEN rest
        ELSE IF after = {} THEN Append(rest, c)
        ELSE InsertAt(rest, Min(after), c)

placeInLists(ca, c, views) ==
    [q \in Places |-> IF q \in views THEN place(q, ca[q], c) ELSE ca[q]]

placeInPinnedOnly(group, list, c) ==       \* mutant: what is not pinned is left where it is
    IF c.id \notin Account \/ ~isUnread(c) THEN list
    ELSE Sorted(group, {c} \cup {x \in Range(list) : x.id # c.id})

placeInPinned(group, list, c) ==
    LET rest == Those(list, Others(c.id))
    IN  IF c.id \in Account /\ isUnread(c) THEN Sorted(group, {c} \cup Range(rest)) ELSE rest

placeIn(q, list, c) == IF q \in Groups THEN placeInPinned(q, list, c) ELSE place(q, list, c)

(* One copy after the other is put where it belongs. *)
placeEach(q, list, copies) ==
    LET after[i \in 0..Len(copies)] ==
            IF i = 0 THEN list ELSE placeIn(q, after[i - 1], copies[i])
    IN  after[Len(copies)]

AllCopies(ca) ==
    ca["all"] \o ca["unread"] \o ca["archived"] \o ca["pinned all"] \o ca["pinned unread"]

PlacesOf(ca, n) == {i \in DOMAIN AllCopies(ca) : AllCopies(ca)[i].id = n}
Known(ca, n) == PlacesOf(ca, n) # {}
cachedNotification(ca, n) == AllCopies(ca)[Min(PlacesOf(ca, n))]   \* the first copy found

EachCopy(ca, F(_)) == [q \in Places |-> [i \in DOMAIN ca[q] |-> F(ca[q][i])]]

(* The cached copies of the changed notifications are replaced where they are. *)
replaceInPlace(ca, changed) ==
    LET swap(c) == IF \E s \in changed : s.id = c.id
                   THEN CHOOSE s \in changed : s.id = c.id ELSE c
    IN  EachCopy(ca, swap)

-----------------------------------------------------------------------------
(* The server. *)

NoAnswer == [n \in Notes |-> [here |-> FALSE, read |-> FALSE, arch |-> 0]]

CopyOf(s, n) == [id |-> n, read |-> s[n].read, arch |-> s[n].arch]
Here(s) == {n \in Notes : s[n].here}

count_unread(s) ==
    LET unread == {n \in Here(s) : isUnread(CopyOf(s, n))}
    IN  [account |-> Cardinality(unread \cap Account),
         workspace |-> Cardinality(unread \ Account)]

list(s, q) ==
    LET copies == {CopyOf(s, n) : n \in Here(s)}
    IN  IF q \in Views
        THEN Sorted(q, {c \in copies : belongsTo(q, c)})
        ELSE Sorted(q, {c \in copies : c.id \in Account /\ isUnread(c)})

(* The notifications a change of the server's alters; `before` is read-all's limit. *)
Affected(s, kind, ids, before) ==
    IF kind = "read all"
    THEN {n \in Here(s) \cap before : isUnread(CopyOf(s, n))}
    ELSE ids

Written(s, kind, ids, before) ==
    [n \in Notes |->
        IF n \notin Affected(s, kind, ids, before) THEN s[n]
        ELSE CASE kind \in {"read", "read all"} -> [s[n] EXCEPT !.read = TRUE]
               [] kind = "unread"    -> [s[n] EXCEPT !.read = FALSE]
               [] kind = "archive"   ->
                    [s[n] EXCEPT !.read = TRUE, !.arch = IF @ = 0 THEN stamp + 1 ELSE @]
               [] kind = "unarchive" -> [s[n] EXCEPT !.arch = 0]
               [] kind = "create"    -> [s[n] EXCEPT !.here = TRUE]]

(* What the handler publishes once it committed: its rows as they are then, or a read-all's limit. *)
Telling(no, readAll, ids) ==
    [no |-> no, readAll |-> readAll, ids |-> ids, step |-> IF readAll THEN "count" ELSE "read",
     rows |-> {}, counts |-> {}]

(* Nothing of a read-all that read nothing. *)
Told(s, no, kind, ids, before) ==
    IF kind = "read all"
    THEN IF Affected(s, kind, ids, before) = {} THEN {} ELSE {Telling(no, TRUE, before)}
    ELSE {Telling(no, FALSE, ids)}

-----------------------------------------------------------------------------
(* The optimistic patches.  Each gives the cache and the counts after it. *)

(* The counts after notifications changed from one copy to another. *)
Delta(ps) == Cardinality({p \in ps : isUnread(p[2]) /\ ~isUnread(p[1])})
           - Cardinality({p \in ps : isUnread(p[1]) /\ ~isUnread(p[2])})
patchSummary(s, pairs) ==
    LET ofAccount == {p \in pairs : p[1].id \in Account}
    IN  [account |-> Max({0, s.account + Delta(ofAccount)}),
         workspace |-> Max({0, s.workspace + Delta(pairs \ ofAccount)})]

patchReadNotification(ca, ids, read) ==
    LET Changed(c) == IF c.id \in ids THEN [c EXCEPT !.read = read] ELSE c
        patched == EachCopy(ca, Changed)
        moves == {c \in Copy : c.id \in ids /\ ~isUnread(c)}
        moving == Those(patched["pinned all"], moves)
    IN  [patched EXCEPT !["pinned all"] = Those(@, Copy \ moves),
                        !["all"] = placeEach("all", @, moving)]

ReadPairs(ca, ids, read) ==
    {<<c, [c EXCEPT !.read = read]>> : c \in {cachedNotification(ca, n) : n \in {i \in ids : Known(ca, i)}}}

ArchivedCopy(ca, n, at) ==
    LET c == cachedNotification(ca, n)
    IN  [c EXCEPT !.arch = at, !.read = @ \/ at # 0]

patchArchiveNotification(ca, n, at) ==
    LET placed == placeInLists(ca, ArchivedCopy(ca, n, at), Views)
    IN  [q \in Places |->
            IF q \in Groups THEN Those(placed[q], Others(n)) ELSE placed[q]]

(* The unread ones the cache has, which a read-all of this tab reads at once. *)
patchReadAllIds(ca) == {c.id : c \in {x \in Range(AllCopies(ca)) : isUnread(x)}}

Patched(kind, ids) ==
    CASE kind \in {"read", "read all"} -> patchReadNotification(cache, ids, TRUE)
      [] kind = "unread" -> patchReadNotification(cache, ids, FALSE)
      [] kind = "archive" -> patchArchiveNotification(cache, CHOOSE n \in ids : TRUE, stamp + 1)
      [] kind = "unarchive" -> patchArchiveNotification(cache, CHOOSE n \in ids : TRUE, 0)

Pairs(kind, ids) ==
    LET n == CHOOSE i \in ids : TRUE
    IN  CASE kind \in {"read", "read all"} -> ReadPairs(cache, ids, TRUE)
          [] kind = "unread" -> ReadPairs(cache, ids, FALSE)
          [] kind = "archive" ->
                {<<cachedNotification(cache, n), ArchivedCopy(cache, n, stamp + 1)>>}
          [] kind = "unarchive" ->
                {<<cachedNotification(cache, n), ArchivedCopy(cache, n, 0)>>}

hold(ids) == [n \in Notes |-> IF n \in ids THEN held[n] + 1 ELSE held[n]]
releaseAtOnce(ids) == [n \in Notes |-> IF n \in ids THEN 0 ELSE held[n]]     \* mutant
release(ids) == [n \in Notes |-> IF n \in ids THEN Max({0, held[n] - 1}) ELSE held[n]]

(* The queries the open tab shows: the others are fetched when their tab is opened. *)
Active(v) == {v} \cup (CASE v = "all" -> {"pinned all"} [] v = "unread" -> {"pinned unread"}
                         [] v = "archived" -> {})

(* The counts and the pinned group are fetched anew. *)
refreshSummary(f) ==
    [q \in Queries |-> IF q \in (Active(view) \cap Groups) \cup {"summary"} THEN "asked" ELSE f[q]]
cancelSummaryNot(f) == f       \* mutant
cancelSummary(f) == [f EXCEPT !["summary"] = "none"]

Use(bound) == spent' = [spent EXCEPT ![bound] = @ + 1]

(* A change of this tab: onMutate.  *)
Mutate(kind, ids) ==
    LET next == patchSummary(summary, Pairs(kind, ids))
        change == [no |-> spent.own + 1, kind |-> kind, ids |-> ids,
                   before |-> IF kind = "read all" THEN Here(server) ELSE {},
                   phase |-> "sent", affected |-> {},
                   uncounted |-> \/ kind = "read all"
                                 \/ kind \in {"read", "unread"} /\ \E n \in ids : ~Known(cache, n),
                   cache |-> cache, counts |-> IF next = summary THEN {} ELSE {summary}]
    IN  /\ kind \in Kinds
        /\ spent.own < MaxOwn
        /\ Use("own")
        /\ held' = hold(ids)
        /\ cache' = Patched(kind, ids)
        /\ summary' = next
        /\ fetching' = IF next = summary THEN fetching ELSE cancelSummary(fetching)
        /\ changes' = changes \cup {change}
        /\ stamp' = IF kind = "archive" THEN stamp + 1 ELSE stamp
        /\ UNCHANGED <<server, behind, unpublished, overtaken, events, online, answer, view>>

(* The rows of the open tab, what a key or a button acts on. *)
Rows == UNION {Range(cache[q]) : q \in Active(view)}
NoUndo == [kind |-> "none", ids |-> {}]
KeepUndo == undo' = undo

MarkAsRead == \E c \in Rows : ~c.read /\ Mutate("read", {c.id}) /\ KeepUndo
MarkAsUnread == \E c \in Rows : c.read /\ Mutate("unread", {c.id}) /\ KeepUndo
Archive == \E c \in Rows :
    c.arch = 0 /\ Mutate("archive", {c.id}) /\ undo' = [kind |-> "unarchive", ids |-> {c.id}]
Unarchive == \E c \in Rows :
    c.arch # 0 /\ Mutate("unarchive", {c.id}) /\ undo' = [kind |-> "archive", ids |-> {c.id}]
ReadAllBefore == view # "archived" /\ Mutate("read all", patchReadAllIds(cache)) /\ KeepUndo

(* The toast's Undo; that of an archiving can be done again. *)
Undo ==
    /\ undo # NoUndo
    /\ undo.kind # "unread" => \A n \in undo.ids : Known(cache, n)
    /\ Mutate(undo.kind, undo.ids)
    /\ undo' = CASE undo.kind = "unarchive" -> [undo EXCEPT !.kind = "archive"]
                 [] undo.kind = "archive" -> [undo EXCEPT !.kind = "unarchive"]
                 [] OTHER -> NoUndo

(* onSettled, after onSuccess or onError left the cache and the counts as given. *)
Settle(m, ca, counts, fetches) ==
    LET left == release(m.ids)
        settled == \A n \in Notes : left[n] = 0
        caughtUp == settled /\ behind
    IN  /\ held' = left
        /\ behind' = (behind /\ ~settled)
        /\ cache' = ca
        /\ summary' = counts
        /\ changes' = changes \ {m}
        /\ fetching' = IF caughtUp \/ m.uncounted THEN refreshSummary(fetches) ELSE fetches

Succeed(m) ==
    LET notRead == IF m.kind = "read all" THEN m.ids \ m.affected ELSE {}
        counts == patchSummary(summary, ReadPairs(cache, notRead, FALSE))
    IN  /\ m.phase = "told"
        /\ undo' = IF m.kind = "read all" /\ m.affected # {}
                   THEN [kind |-> "unread", ids |-> m.affected] ELSE undo
        /\ Settle(m, IF notRead = {} THEN cache ELSE patchReadNotification(cache, notRead, FALSE),
                  counts, IF counts = summary THEN fetching ELSE cancelSummary(fetching))
        /\ UNCHANGED <<server, unpublished, overtaken, events, online, answer, view, spent, stamp>>

(* The request failed, or its answer was lost: what the cache held before comes back. *)
Fail(m) ==
    LET counts == IF m.counts = {} THEN summary ELSE CHOOSE s \in m.counts : TRUE
    IN  /\ spent.other < MaxElse
        /\ spent' = [spent EXCEPT !.other = @ + 1, !.failed = @ + 1]
        /\ Settle(m, m.cache, counts, fetching)
        /\ UNCHANGED <<server, unpublished, overtaken, events, online, answer, undo, view, stamp>>

-----------------------------------------------------------------------------
(* The server at work. *)

(* The handler of an own change commits. *)
Commit(m) ==
    /\ m.phase = "sent"
    /\ LET affected == Affected(server, m.kind, m.ids, m.before)
           told == Told(server, m.no, m.kind, m.ids, m.before)
       IN  /\ changes' = (changes \ {m}) \cup
                  {[m EXCEPT !.phase = IF told = {} THEN "told" ELSE "committed", !.affected = affected]}
           /\ unpublished' = unpublished \cup told
    /\ server' = Written(server, m.kind, m.ids, m.before)
    /\ stamp' = IF m.kind = "archive" THEN stamp + 1 ELSE stamp
    /\ UNCHANGED <<cache, summary, held, behind, overtaken, events, online, fetching, answer, undo, view,
                   spent>>

(* Another tab or another person changes something. *)
ChangeElsewhere(kind, ids) ==
    /\ kind \in ElseKinds
    /\ spent.other < MaxElse
    /\ Use("other")
    /\ ids \subseteq (IF kind = "create" THEN Fresh \ Here(server) ELSE Here(server))
    /\ server' = Written(server, kind, ids, Here(server))
    /\ unpublished' = unpublished \cup Told(server, 0 - spent.other, kind, ids, Here(server))
    /\ stamp' = IF kind = "archive" THEN stamp + 1 ELSE stamp
    /\ UNCHANGED <<cache, summary, held, behind, changes, overtaken, events, online, fetching, answer,
                   undo, view>>

(* The handler reads the rows it changed, then counts, then sends, each on its own: what others do *)
(* in between is in the rows or the counts, or is not.                                             *)
Progress(u, v) ==
    /\ unpublished' = (unpublished \ {u}) \cup {v}
    /\ UNCHANGED <<server, cache, summary, held, behind, changes, overtaken, events, online, fetching,
                   answer, undo, view, spent, stamp>>

get_many(u) ==
    /\ u.step = "read"
    /\ Progress(u, [u EXCEPT !.step = "count", !.rows = {CopyOf(server, n) : n \in u.ids}])

load_summary(u) ==
    /\ u.step = "count"
    /\ Progress(u, [u EXCEPT !.step = "send", !.counts = {count_unread(server)}])

(* The handler is done with an update and answers. *)
Done(u) ==
    /\ unpublished' = unpublished \ {u}
    /\ changes' = {IF m.no = u.no THEN [m EXCEPT !.phase = "told"] ELSE m : m \in changes}
    /\ UNCHANGED <<server, cache, summary, held, behind, online, fetching, answer, undo, view, stamp>>

(* Nobody hears it offline. *)
publish(u) ==
    LET counts == CHOOSE c \in u.counts : TRUE
        event == [upserted |-> u.rows, readAll |-> IF u.readAll THEN u.ids ELSE {}, summary |-> counts]
    IN  /\ u.step = "send"
        /\ Done(u)
        /\ events' = IF online THEN Append(events, event) ELSE events
        /\ overtaken' = (counts # count_unread(server))
        /\ UNCHANGED spent

(* A query or the sending fails, or the handler ends with its request: the update is dropped. *)
Drop(u) ==
    /\ spent.other < MaxElse
    /\ Use("other")
    /\ Done(u)
    /\ overtaken' = TRUE
    /\ UNCHANGED events

-----------------------------------------------------------------------------
(* What this tab hears and fetches. *)

SomeHeld == \E n \in Notes : held[n] > 0

readAllInPlace(ca, limit) ==
    EachCopy(ca, LAMBDA c : IF c.id \in limit /\ isUnread(c) /\ held[c.id] = 0
                            THEN [c EXCEPT !.read = TRUE] ELSE c)

receiveInboxUpdate ==
    /\ events # <<>>
    /\ LET e == Head(events)
           arriving == {c \in e.upserted : held[c.id] = 0}
           stays == {c \in arriving :
                        Known(cache, c.id) /\ cachedNotification(cache, c.id).arch = c.arch}
           moved == [q \in Places |-> placeEach(q, cache[q], SetToSeq(arriving \ stays))]
       IN  /\ cache' = readAllInPlace(replaceInPlace(moved, stays), e.readAll)
           /\ summary' = IF SomeHeld THEN summary ELSE e.summary
           /\ fetching' = IF SomeHeld THEN fetching ELSE cancelSummary(fetching)
    /\ behind' = (behind \/ SomeHeld)
    /\ events' = Tail(events)
    /\ UNCHANGED <<server, held, changes, unpublished, overtaken, online, answer, undo, view, spent, stamp>>

(* The connection drops, and what is on its way with it. *)
Disconnect ==
    /\ online /\ spent.other < MaxElse
    /\ Use("other")
    /\ online' = FALSE
    /\ events' = <<>>
    /\ UNCHANGED <<server, cache, summary, held, behind, changes, unpublished, overtaken, fetching,
                   answer, undo, view, stamp>>

(* Joined again, everything is fetched anew: refetchInbox. *)
Rejoin ==
    /\ ~online
    /\ online' = TRUE
    /\ fetching' = [q \in Queries |-> IF q \in Active(view) \cup {"summary"} THEN "asked" ELSE fetching[q]]
    /\ overtaken' = FALSE
    /\ UNCHANGED <<server, cache, summary, held, behind, changes, unpublished, events, answer, undo,
                   view, spent, stamp>>

(* A tab is opened: its list and its pinned group are fetched anew; nobody waits for the others'. *)
Open(v) ==
    /\ v # view
    /\ spent.other < MaxElse
    /\ Use("other")
    /\ view' = v
    /\ fetching' = [q \in Queries |-> IF q \in Active(v) THEN "asked" ELSE
                        IF q \in Active(view) THEN "none" ELSE fetching[q]]
    /\ UNCHANGED <<server, cache, summary, held, behind, changes, unpublished, overtaken, events,
                   online, answer, undo, stamp>>

(* The server answers a fetch; later the answer arrives and replaces what the query had. *)
AnswerFetch(q) ==
    /\ fetching[q] = "asked"
    /\ fetching' = [fetching EXCEPT ![q] = "answered"]
    /\ answer' = [answer EXCEPT ![q] = server]
    /\ UNCHANGED <<server, cache, summary, held, behind, changes, unpublished, overtaken, events,
                   online, undo, view, spent, stamp>>

Fetched(q) ==
    /\ fetching[q] = "answered"
    /\ fetching' = [fetching EXCEPT ![q] = "none"]
    /\ cache' = IF q \in Places THEN [cache EXCEPT ![q] = list(answer[q], q)] ELSE cache
    /\ summary' = IF q = "summary" THEN count_unread(answer[q]) ELSE summary
    /\ answer' = [answer EXCEPT ![q] = NoAnswer]
    /\ UNCHANGED <<server, held, behind, changes, unpublished, overtaken, events, online, undo, view,
                   spent, stamp>>

-----------------------------------------------------------------------------

Init ==
    /\ server = [n \in Notes |-> [here |-> n \notin Fresh, read |-> FALSE, arch |-> 0]]
    /\ cache = [q \in Places |-> list(server, q)]
    /\ summary = count_unread(server)
    /\ held = [n \in Notes |-> 0]
    /\ behind = FALSE
    /\ changes = {} /\ unpublished = {} /\ overtaken = FALSE /\ events = <<>>
    /\ online = TRUE
    /\ view = "all"
    /\ fetching = [q \in Queries |-> "none"]
    /\ answer = [q \in Queries |-> NoAnswer]
    /\ undo = NoUndo
    /\ spent = [own |-> 0, other |-> 0, failed |-> 0]
    /\ stamp = Max(Notes \cup {0})

Next ==
    \/ MarkAsRead \/ MarkAsUnread \/ Archive \/ Unarchive \/ ReadAllBefore \/ Undo
    \/ \E m \in changes : Commit(m) \/ Succeed(m) \/ Fail(m)
    \/ \E n \in Notes, kind \in {"read", "unread", "archive", "unarchive", "create"} :
            ChangeElsewhere(kind, {n})
    \/ ChangeElsewhere("read all", {})
    \/ \E u \in unpublished : get_many(u) \/ load_summary(u) \/ publish(u) \/ Drop(u)
    \/ receiveInboxUpdate
    \/ Disconnect \/ Rejoin
    \/ \E v \in Views : Open(v)
    \/ \E q \in Queries : AnswerFetch(q) \/ Fetched(q)

Spec == Init /\ [][Next]_vars

-----------------------------------------------------------------------------
(* Properties. *)

(* Rows are notifications, and no count of unread goes below zero though the copies it is taken *)
(* from may be older than the count (patchSummary).                                             *)
TypeOK ==
    /\ \A q \in Places : Range(cache[q]) \subseteq Copy
    /\ summary \in [account : Nat, workspace : Nat]
    /\ held \in [Notes -> Nat]
    /\ behind \in BOOLEAN /\ online \in BOOLEAN /\ view \in Views
    /\ fetching \in [Queries -> {"none", "asked", "answered"}]

(* Every list shows a notification once, and all but the archive newest first, whatever was       *)
(* patched, placed, rolled back or fetched in between (place, placeInPinned, comesBefore).        *)
ListsInOrder ==
    \A q \in Places : \A i, j \in DOMAIN cache[q] :
        i < j => LET a == cache[q][i]  b == cache[q][j]
                 IN  IF q = "archived" THEN a.id # b.id ELSE a.id > b.id

CopiesAt(ca, q, n) == {c \in Range(ca[q]) : c.id = n}

(* The copies of a notification agree, and each is on its side of the archive. *)
Consistent(ca, n) ==
    \A p, q \in Places : \A a \in CopiesAt(ca, p, n), b \in CopiesAt(ca, q, n) :
        a = b /\ ((q = "archived") <=> (b.arch # 0))

ArchiveInOrder(ca) ==
    \A i, j \in DOMAIN ca["archived"] :
        i < j => comesBefore("archived", ca["archived"][i], ca["archived"][j])

(* While a change of this tab is on its way, however its changes overlap, no message moves or     *)
(* changes its notification; what a message says of a notification no change holds, all its      *)
(* copies then say, and it is moved if it was archived or taken back: a consistent page stays    *)
(* consistent, and its archive in order.  One whose copies disagree may not (README, section 8): *)
(* hold, release, receiveInboxUpdate, readAllInPlace, placeInPinned, placeInLists.               *)
MessagesAreTaken ==
    [][receiveInboxUpdate =>
        /\ \A m \in changes : \A n \in m.ids, q \in Places : CopiesAt(cache', q, n) = CopiesAt(cache, q, n)
        /\ \A c \in Head(events).upserted : held[c.id] = 0 /\ Consistent(cache, c.id) =>
               Consistent(cache', c.id) /\ UNION {CopiesAt(cache', q, c.id) : q \in Places} = {c}
        /\ ArchiveInOrder(cache) /\ (\A n \in Notes : Consistent(cache, n)) => ArchiveInOrder(cache')]_vars

(* With nothing on its way, and after no failure, the counts are the server's, whatever was       *)
(* skipped, cancelled or missed in between (summaryBehind, refreshSummary, patchSummary's cancel), *)
(* unless the last update was dropped or counted before another change and sent after it: then   *)
(* they wait for the next one, which "carries the counts again", or for a fetch.                 *)
CountsAreTrue ==
    /\ online /\ changes = {} /\ unpublished = {} /\ events = <<>>
    /\ fetching["summary"] = "none" /\ spent.failed = 0 /\ ~overtaken
    => summary = count_unread(server)

(* What the lists and the counter of the tab show.                                             *)
ShownAgrees == TypeOK /\ ListsInOrder /\ CountsAreTrue

(* Violated: with nothing on its way, nothing lost and after no failure the open tab shows what *)
(* the server has.                                                                             *)
PageAgrees ==
    /\ online /\ changes = {} /\ unpublished = {} /\ events = <<>>
    /\ fetching = [q \in Queries |-> "none"] /\ spent.failed = 0 /\ ~overtaken
    => \A q \in Active(view) : \A c \in Range(cache[q]) :
           c.read = server[c.id].read /\ (c.arch = 0) = (server[c.id].arch = 0)
=============================================================================
