----------------------------- MODULE PagesClient -----------------------------
(***************************************************************************)
(* A tab's pages (shared/pages, pages/Page, the sidebar's PagesSection):   *)
(* the cached tree with its optimistic changes, the requests, the queries  *)
(* fetched again after each answer and after each signal of another tab,   *)
(* the workspace's channel that carries the signals, and the title edited  *)
(* in place.  The server is what the requests and the other tabs make of   *)
(* it: PageTree and PageTransactions have its own rules.                   *)
(*                                                                         *)
(* The tree and the open page are two queries with one tag, always made    *)
(* stale together: they are fetched as one here.                          *)
(***************************************************************************)
EXTENDS Integers, Sequences, SequencesExt, FiniteSetsExt

CONSTANTS Pages, Open,      \* the pages, and the one whose title is on screen
          Touched,          \* bound: what this tab moves and deletes; it renames Open
          Root,             \* no parent
          InitKids,         \* [Pages \cup {Root} -> their children at first]
          Titles,           \* texts of a title
          OtherTitle,       \* what another tab calls a page
          MaxChanges,       \* bound on the changes of both tabs
          NoPage

VARIABLES kids, title, trash,   \* the server's: children in order, [text, ver], deleted_root
          loaded,       \* the queries answered once
          tree,         \* the cached list: [id, parent, title, ver]
          shown, under, \* the open page as its query has it: its title, the trash root it is under
          fetch,        \* "none", "asked" or "read", with what it read
          requests,     \* [op, page, args, state]: sent, done, refused or lost
          channel,      \* "joining" for the first time, "up" or "down"
          stale,        \* a signal waits for the invalidation window
          missed,       \* history: something changed after the last read, and nobody will tell
          draft, saved, focused, unsaved,   \* the title's field; it keeps a text nobody types that is not the page's
          undoable, redoable,   \* what the history would undo and redo
          changes

server == <<kids, title, trash>>
cache == <<loaded, tree, shown, under>>
field == <<draft, saved, focused, unsaved>>
history == <<undoable, redoable>>
pageVars == <<server, cache, fetch, requests, channel, stale, missed, field, history, changes>>

-----------------------------------------------------------------------------
(* The lists.                                                              *)

RowIn(list, p) == list[SelectInSeq(list, LAMBDA page : page.id = p)]
InTree(p) == SelectInSeq(tree, LAMBDA page : page.id = p) # 0
Row(p) == RowIn(tree, p)

\* The children of every page, in the order of the flat list.
ToTreeNodes(list) ==
  [parent \in Pages \cup {Root} |->
     LET own == SelectSeq(list, LAMBDA page : page.parent = parent)
     IN  [i \in DOMAIN own |-> own[i].id]]


\* The page taken out and put before the sibling that is at its index, or at the end.
MovedIn(list, p, parent, index) ==
  LET moved == [RowIn(list, p) EXCEPT !.parent = parent]
      rest == SelectSeq(list, LAMBDA page : page.id # p)
      siblings == SelectSeq(rest, LAMBDA page : page.parent = parent)
      at == IF index < Len(siblings) THEN SelectInSeq(rest, LAMBDA page : page.id = siblings[index + 1].id)
            ELSE Len(rest) + 1
  IN  InsertAt(rest, at, moved)

\* The pages over p from the top one, and p.
PathTo(list, p) ==
  LET up[n \in 0 .. Len(list)] ==
        IF n = 0 THEN <<p>>
        ELSE IF RowIn(list, Head(up[n - 1])).parent = Root THEN up[n - 1]
             ELSE <<RowIn(list, Head(up[n - 1])).parent>> \o up[n - 1]
  IN  up[Len(list)]

\* The page and every page under it, added level by level.
SubtreeOf(list, p) ==
  LET grown[n \in 0 .. Len(list)] ==
        IF n = 0 THEN {p}
        ELSE grown[n - 1] \cup {page.id : page \in {x \in ToSet(list) : x.parent \in grown[n - 1]}}
  IN  grown[Len(list)]

ParentOf(p) == CHOOSE q \in Pages \cup {Root} : Contains(kids[q], p)
Live(p) == trash[p] = NoPage
LiveKids == [q \in Pages \cup {Root} |-> SelectSeq(kids[q], Live)]

\* GET .../pages: the live pages, parent by parent.
Listed ==
  LET rows(q) == [i \in DOMAIN LiveKids[q] |->
                     [id |-> LiveKids[q][i], parent |-> q, title |-> title[LiveKids[q][i]].text,
                      ver |-> title[LiveKids[q][i]].ver]]
      parents == SetToSeq({Root} \cup {p \in Pages : Live(p)})
  IN  FlattenSeq([i \in DOMAIN parents |-> rows(parents[i])])

-----------------------------------------------------------------------------
(* The server.                                                             *)

Below(p) == {q \in Pages : Contains(kids[p], q)}
UnderOf(p) == LET down[n \in 0 .. Cardinality(Pages)] ==
                    IF n = 0 THEN {p} ELSE down[n - 1] \cup UNION {Below(q) : q \in down[n - 1]}
              IN  down[Cardinality(Pages)]

Put(p, parent, index) ==
  LET rest == [q \in Pages \cup {Root} |-> SelectSeq(kids[q], LAMBDA x : x # p)]
      live == SelectSeq(rest[parent], Live)
      at == IF index < Len(live) THEN SelectInSeq(rest[parent], LAMBDA x : x = live[index + 1])
            ELSE Len(rest[parent]) + 1
  IN  [rest EXCEPT ![parent] = InsertAt(@, at, p)]

Allowed(r) ==
  CASE r.op = "rename" -> Live(r.page) /\ title[r.page].ver = r.ver
    [] r.op = "move" -> /\ Live(r.page) /\ r.parent \notin UnderOf(r.page)
                        /\ r.parent # Root => Live(r.parent)
    [] r.op = "delete" -> Live(r.page)
    [] r.op = "restore" -> trash[r.page] = r.page

Applied(r) ==
  CASE r.op = "rename" -> /\ title' = [title EXCEPT ![r.page] = [text |-> r.text, ver |-> @.ver + 1]]
                          /\ UNCHANGED <<kids, trash>>
    [] r.op = "move" -> kids' = Put(r.page, r.parent, r.index) /\ UNCHANGED <<title, trash>>
    [] r.op = "delete" ->
         /\ trash' = [q \in Pages |-> IF q \in UnderOf(r.page) /\ Live(q) THEN r.page ELSE trash[q]]
         /\ UNCHANGED <<kids, title>>
    [] r.op = "restore" ->
         /\ trash' = [q \in Pages |-> IF trash[q] = r.page THEN NoPage ELSE trash[q]]
         /\ kids' = IF ParentOf(r.page) = Root \/ Live(ParentOf(r.page)) THEN kids
                    ELSE Put(r.page, Root, Cardinality(Pages))
         /\ UNCHANGED title

-----------------------------------------------------------------------------

ServerInit ==
  /\ kids = InitKids /\ title = [p \in Pages |-> [text |-> "", ver |-> 0]] /\ trash = [p \in Pages |-> NoPage]
PageTreeQuery == tree = <<>> /\ loaded = FALSE /\ fetch = [at |-> "asked"]
PageByShortIdQuery == shown = "" /\ under = NoPage
TitleInit == draft = "" /\ saved = "" /\ focused = FALSE /\ unsaved = FALSE
SignalsInit == stale = FALSE
ChannelInit == channel = "joining" /\ missed = FALSE
PagesInit ==
  /\ ServerInit /\ PageTreeQuery /\ PageByShortIdQuery /\ TitleInit /\ SignalsInit /\ ChannelInit
  /\ requests = {} /\ undoable = NoPage /\ redoable = NoPage /\ changes = 0

\* What the address shows: nothing yet, the failure with Retry, Restore, or the page itself.
PageShows == CASE ~loaded -> IF fetch.at = "failed" THEN "error" ELSE "nothing"
               [] loaded /\ under # NoPage -> "trash"
               [] OTHER -> "canvas"
Crumbs == IF InTree(Open) THEN PathTo(tree, Open) ELSE <<>>
GroupChildren(p) == SelectSeq([i \in DOMAIN tree |-> tree[i].id], LAMBDA q : Row(q).parent = p)

\* Invalidated: what is in flight is cancelled and asked anew, except the first load of all,
\* which is joined.
Invalidated == fetch' = IF loaded \/ fetch.at \in {"none", "failed"} THEN [at |-> "asked"] ELSE fetch

\* The query reads the server.
Read ==
  /\ fetch.at = "asked"
  /\ fetch' = [at |-> "read", list |-> Listed, title |-> title[Open].text, root |-> trash[Open]]
  /\ missed' = FALSE
  /\ UNCHANGED <<server, cache, requests, channel, stale, field, history, changes>>

\* The first load fails, and Retry asks again; a later one that fails leaves what is shown.
LoadFails ==
  /\ fetch.at = "asked" /\ ~loaded /\ fetch' = [at |-> "failed"]
  /\ UNCHANGED <<server, cache, requests, channel, stale, missed, field, history, changes>>
Refetch ==
  /\ PageShows = "error" /\ fetch' = [at |-> "asked"]
  /\ UNCHANGED <<server, cache, requests, channel, stale, missed, field, history, changes>>

\* Its answer replaces the list and the open page.  The title's field follows unless it holds an
\* edit; for a page in the trash there is none, and one that comes back has a fresh one.
Land ==
  /\ fetch.at = "read"
  /\ fetch' = [at |-> "none"] /\ tree' = fetch.list /\ loaded' = TRUE
  /\ shown' = fetch.title /\ under' = fetch.root
  /\ saved' = fetch.title
  /\ IF under = NoPage /\ fetch.root = NoPage
     THEN /\ draft' = IF fetch.title # saved /\ draft = saved THEN fetch.title ELSE draft
          /\ unsaved' = (unsaved \/ (~focused /\ draft \notin {saved, fetch.title}))
          /\ UNCHANGED focused
     ELSE draft' = fetch.title /\ focused' = FALSE /\ unsaved' = FALSE
  /\ UNCHANGED <<server, requests, channel, stale, missed, history, changes>>

-----------------------------------------------------------------------------
(* What the user does.                                                     *)

Change == changes < MaxChanges /\ changes' = changes + 1
Asked(r) == requests' = requests \cup {r @@ [state |-> "sent"]}

RenamedIn(p, text) == [i \in DOMAIN tree |-> IF tree[i].id = p THEN [tree[i] EXCEPT !.title = text] ELSE tree[i]]

\* At once in the tree, with the version the tree has.
Renamed(p, text) ==
  /\ tree' = RenamedIn(p, text)
  /\ Asked([op |-> "rename", page |-> p, text |-> text, ver |-> Row(p).ver])

Rename(p, text) ==
  /\ Change /\ InTree(p) /\ Row(p).title # text
  /\ Renamed(p, text)
  /\ UNCHANGED <<server, loaded, shown, under, fetch, channel, stale, missed, field, history>>

\* The kit's tree offers no place inside the page itself.
Move(p, parent, index) ==
  /\ Change /\ InTree(p) /\ parent \notin SubtreeOf(tree, p) /\ (parent = Root \/ InTree(parent))
  /\ index <= Len(SelectSeq(tree, LAMBDA page : page.parent = parent /\ page.id # p))
  /\ tree' = MovedIn(tree, p, parent, index)
  /\ Asked([op |-> "move", page |-> p, parent |-> parent, index |-> index])
  /\ UNCHANGED <<server, loaded, shown, under, fetch, channel, stale, missed, field, history>>

RemovePage(p) ==
  /\ Change /\ InTree(p)
  /\ tree' = SelectSeq(tree, LAMBDA page : page.id \notin SubtreeOf(tree, p))
  /\ Asked([op |-> "delete", page |-> p])
  /\ UNCHANGED <<server, loaded, shown, under, fetch, channel, stale, missed, field, history>>

\* Restore on the page in the trash, Undo and Redo in the history: nothing optimistic.
Restore(p) == Asked([op |-> "restore", page |-> p])
RestoreHere ==
  /\ PageShows = "trash" /\ Change /\ Restore(under)
  /\ UNCHANGED <<server, cache, fetch, channel, stale, missed, field, history>>

Undo ==
  /\ undoable # NoPage /\ Change /\ undoable' = NoPage /\ redoable' = undoable
  /\ Restore(undoable)
  /\ UNCHANGED <<server, cache, fetch, channel, stale, missed, field>>
Redo ==
  /\ redoable # NoPage /\ redoable' = NoPage /\ undoable' = redoable
  /\ Asked([op |-> "delete", page |-> redoable])
  /\ UNCHANGED <<server, cache, fetch, channel, stale, missed, field, changes>>

\* The title's field: saved when left, put back by Esc.
EditTitle(text) ==
  /\ PageShows = "canvas" /\ draft' = text /\ focused' = TRUE /\ text # draft
  /\ UNCHANGED <<server, cache, fetch, requests, channel, stale, missed, saved, unsaved, history, changes>>

LeaveTitle ==
  /\ focused /\ focused' = FALSE /\ UNCHANGED <<draft, saved>>
  /\ \/ draft = saved /\ unsaved' = FALSE /\ UNCHANGED <<tree, requests, changes>>
     \/ draft # saved /\ InTree(Open) /\ Change /\ Renamed(Open, draft) /\ unsaved' = FALSE
     \/ draft # saved /\ ~InTree(Open) /\ unsaved' = TRUE /\ UNCHANGED <<tree, requests, changes>>
  /\ UNCHANGED <<server, loaded, shown, under, fetch, channel, stale, missed, history>>

EscapeTitle ==
  /\ focused /\ focused' = FALSE /\ draft' = saved /\ unsaved' = FALSE
  /\ UNCHANGED <<server, cache, fetch, requests, channel, stale, missed, saved, history, changes>>

-----------------------------------------------------------------------------
(* The requests.                                                           *)

\* The server takes the request, or refuses it; its own signal is for the other tabs.  What it
\* takes after this tab gave the request up, nobody tells this tab.
Commit(r) ==
  /\ r \in requests /\ r.state \in {"sent", "lost"}
  /\ IF Allowed(r) THEN Applied(r) ELSE UNCHANGED server
  /\ requests' = IF r.state = "lost" THEN requests \ {r}
                 ELSE (requests \ {r}) \cup {[r EXCEPT !.state = IF Allowed(r) THEN "done" ELSE "refused"]}
  /\ missed' = (missed \/ (r.state = "lost" /\ Allowed(r)))
  /\ UNCHANGED <<cache, fetch, channel, stale, field, history, changes>>

\* The answer, or the connection gone without one: the tree is fetched again either way.
Settle(r, heard) ==
  /\ r \in requests /\ r.state # "lost"
  /\ heard => r.state # "sent"
  /\ requests' = IF r.state = "sent" THEN (requests \ {r}) \cup {[r EXCEPT !.state = "lost"]} ELSE requests \ {r}
  /\ Invalidated
  /\ IF heard /\ r.op = "delete" /\ r.state = "done" THEN undoable' = r.page /\ redoable' = NoPage
     ELSE UNCHANGED history
  /\ unsaved' = (unsaved \/ (r.op = "rename" /\ r.page = Open /\ ~(heard /\ r.state = "done")))
  /\ UNCHANGED <<server, cache, channel, stale, missed, draft, saved, focused, changes>>

-----------------------------------------------------------------------------
(* The other tabs and the channel.                                         *)

OthersRequests ==
  {[op |-> "rename", page |-> p, text |-> OtherTitle, ver |-> title[p].ver] : p \in {Open}} \cup
  {[op |-> "move", page |-> p, parent |-> Root, index |-> 0] : p \in Pages} \cup
  {[op |-> "delete", page |-> p] : p \in Pages}

\* Another tab's change: the signal reaches a joined channel.
ElsewhereChanges(r) ==
  /\ Change /\ r \in OthersRequests /\ Allowed(r) /\ Applied(r)
  /\ stale' = (stale \/ channel = "up")
  /\ missed' = (missed \/ (channel = "joining" /\ fetch.at # "asked"))
  /\ UNCHANGED <<cache, fetch, requests, channel, field, history>>

\* The signals of a window are one invalidation.  An answer of the first load already read is
\* not asked for again.
Flush ==
  /\ stale /\ stale' = FALSE
  /\ Invalidated
  /\ missed' = (missed \/ (~loaded /\ fetch.at = "read"))
  /\ UNCHANGED <<server, cache, requests, channel, field, history, changes>>

Join ==
  /\ channel # "up" /\ channel' = "up"
  /\ IF channel = "down" THEN Invalidated ELSE UNCHANGED fetch
  /\ missed' = (missed \/ (channel = "down" /\ ~loaded /\ fetch.at = "read"))
  /\ UNCHANGED <<server, cache, requests, stale, field, history, changes>>

Drop ==
  /\ channel = "up" /\ channel' = "down" /\ Change
  /\ UNCHANGED <<server, cache, fetch, requests, stale, missed, field, history>>

PagesNext ==
  \/ Read \/ LoadFails \/ Refetch \/ Land \/ Undo \/ Redo \/ RestoreHere \/ LeaveTitle \/ EscapeTitle \/ Flush \/ Join \/ Drop
  \/ \E p \in Touched : RemovePage(p)
  \/ \E text \in Titles : Rename(Open, text)
  \/ \E p \in Touched, parent \in Pages \cup {Root}, index \in 0 .. 1 : Move(p, parent, index)
  \/ \E text \in Titles : EditTitle(text)
  \/ \E r \in requests, heard \in BOOLEAN : Commit(r) \/ Settle(r, heard)
  \/ \E r \in OthersRequests : ElsewhereChanges(r)

-----------------------------------------------------------------------------
(* What the tab keeps.                                                     *)

Trail(p) ==      \* the server's own
  LET up[n \in 0 .. Cardinality(Pages)] ==
        IF n = 0 THEN <<p>>
        ELSE IF ParentOf(Head(up[n - 1])) = Root THEN up[n - 1] ELSE <<ParentOf(Head(up[n - 1]))>> \o up[n - 1]
  IN  up[Cardinality(Pages)]
Quiet == requests = {} /\ fetch.at = "none" /\ ~stale /\ channel = "up"

\* Once everything is answered and no signal is on its way, the tab shows the server's tree and
\* title, unless something changed where nobody tells this tab; an edit stays in the field only
\* while it is typed, after
\* it was refused, or when another rename overtook the saved one before it was fetched.
TabConverges ==
  Quiet /\ ~missed =>
    /\ ToTreeNodes(tree) = LiveKids
    /\ \A i \in DOMAIN tree : tree[i].title = title[tree[i].id].text
    /\ shown = title[Open].text /\ under = trash[Open]
    /\ ~focused /\ ~unsaved => draft = shown
    /\ PageShows = "canvas" => Crumbs = Trail(Open) /\ GroupChildren(Open) = LiveKids[Open]
    /\ PageShows # "canvas" => PageShows = "trash" /\ trash[under] = under

\* A move shows at once what the server will make of it, when it takes the same tree.
MovesAsTheServer ==
  (ToTreeNodes(tree) = LiveKids) =>
    \A p \in {q \in Pages : InTree(q)}, parent \in Pages \cup {Root}, index \in 0 .. 2 :
      /\ Allowed([op |-> "move", page |-> p, parent |-> parent])
      /\ parent # Root => InTree(parent)
      => ToTreeNodes(MovedIn(tree, p, parent, index)) =
           [q \in Pages \cup {Root} |-> SelectSeq(Put(p, parent, index)[q], Live)]

\* What a delete takes from the tree is what the server trashes.
DeletesAsTheServer ==
  (ToTreeNodes(tree) = LiveKids) =>
    \A p \in {q \in Pages : InTree(q)} : SubtreeOf(tree, p) = {q \in UnderOf(p) : Live(q)}

=============================================================================
