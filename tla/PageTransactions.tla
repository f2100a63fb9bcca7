-------------------------- MODULE PageTransactions --------------------------
(***************************************************************************)
(* The handlers of apps/main_service/src/pages/controllers as Postgres     *)
(* runs them: every request is a READ COMMITTED transaction, every SQL     *)
(* statement one step that sees what is committed when it starts and the   *)
(* transaction's own writes, and requests interleave between statements.   *)
(*                                                                         *)
(* Locks are those the statements take: FOR UPDATE (repo::lock), the row   *)
(* lock of an UPDATE, the FOR KEY SHARE a foreign key check takes on the   *)
(* new parent, and the advisory lock of one parent's children.  A          *)
(* statement that has to wait is not enabled.  An UPDATE of several rows   *)
(* picks them when it starts and writes them when it holds their locks: it *)
(* is two steps.  Any transaction may roll back at any step: the service   *)
(* or the connection is lost, or Postgres breaks a deadlock.               *)
(*                                                                         *)
(* A fractional key is a number in 1..MaxKey, Between the middle of two    *)
(* keys while there is room.  Titles are model values; rights, short ids,  *)
(* icons and the bodies' content (no writer yet) are left out.             *)
(***************************************************************************)
EXTENDS PageForest

CONSTANTS
    Tx,             \* transactions that can be open at once
    User, Title,
    MaxKey,         \* bound: the last fractional key
    Ops,            \* the requests that come: a subset of AllOps
    InitialRows,    \* the trees a run starts from
    MaxRequests,    \* bound: requests of a run
    NoRow           \* no such row

AllOps == {"create", "move", "patch", "delete", "restore"}
Types == {"document", "group"}
\* "not sent" in the body of a patch
Unset == "unset"

Row == [parent : Page \cup {NoPage}, pos : Nat, title : Title, type : Types,
        root : Page \cup {NoPage}, version : Nat \ {0}, by : User]
Fields == {"title", "type", "parentId", "position", "deletedAt"}
Change == [page : Page, version : Nat \ {0}, fields : (SUBSET Fields) \ {{}}]
Rows == [Page -> Row \cup {NoRow}]
NoRows == [p \in Page |-> NoRow]

\* The statements a transaction can be at.
Steps == {"idle", "lock", "exists", "parent", "path", "height", "samePlace", "place", "renumber",
          "insert", "conflicts", "content", "down", "trash", "alive", "revive", "reviveDown",
          "write", "commit"}

Request == [op : AllOps, page : Page, parent : Page \cup {NoPage}, index : Nat,
            base : Nat, title : Title \cup {Unset}, type : Types \cup {Unset}, by : User]

\* What a handler keeps between two statements, besides the row it locked.
Memo == [depth : Nat, parent : Page \cup {NoPage}, key : Nat, keys : [Page -> Nat],
         down : SUBSET Page]
EmptyMemo == [depth |-> 0, parent |-> NoPage, key |-> 0, keys |-> [p \in Page |-> 0],
              down |-> {}]

ASSUME NoRowAssumption == NoRow \notin Row
\* generate_n_evenly always has room: there are as many keys as siblings.
ASSUME KeyAssumption == MaxKey \in Nat \ {0} /\ IsFiniteSet(Page) /\ Cardinality(Page) <= MaxKey
ASSUME RequestAssumption ==
    /\ Ops \subseteq AllOps
    /\ MaxRequests \in Nat
    /\ InitialRows \subseteq Rows
    /\ Unset \notin Title

VARIABLES
    rows,       \* pages, as committed
    history,    \* field_changes of pages, as committed: one record a version
    req, pc,    \* each transaction's request and the statement it is at
    cur,        \* the row repo::lock returned (`current`)
    memo,       \* see Memo
    wrote,      \* each transaction's uncommitted rows
    forUpdate, keyShare, advisory,  \* the locks each one holds until it ends
    started     \* how many requests have come

locks == <<forUpdate, keyShare, advisory>>
vars == <<rows, history, req, pc, cur, memo, wrote, forUpdate, keyShare, advisory, started>>
-----------------------------------------------------------------------------
(* What a statement of t sees, and what it waits for. *)

View(t) == [p \in Page |-> IF wrote[t][p] # NoRow THEN wrote[t][p] ELSE rows[p]]
Existing(v) == {p \in Page : v[p] # NoRow}
LiveIn(v) == {p \in Existing(v) : v[p].root = NoPage}
ParentIn(v) == [p \in Page |-> IF v[p] = NoRow THEN NoPage ELSE v[p].parent]

Written(t) == {p \in Page : wrote[t][p] # NoRow}
Others(t) == Tx \ {t}

CanLock(t, p) == \A u \in Others(t) : p \notin forUpdate[u] \cup keyShare[u] \cup Written(u)
CanWrite(t, p) == \A u \in Others(t) : p \notin forUpdate[u] \cup Written(u)
\* The check of the parent's foreign key, when parent_id changed
CanRefer(t, p) == p = NoPage \/ \A u \in Others(t) : p \notin forUpdate[u]
Refer(t, p) == keyShare' = [keyShare EXCEPT ![t] = @ \cup ({p} \ {NoPage})]
-----------------------------------------------------------------------------
(* Places among siblings: position.rs and service::place. *)

Before(v, p, q) == v[p].pos < v[q].pos \/ (v[p].pos = v[q].pos /\ p < q)
Siblings(v, q, except) == {p \in LiveIn(v) \ {except} : v[p].parent = q}
\* Children of q that were not changed since they were created.
Created(v, q) == {p \in Siblings(v, q, NoPage) : v[p].version = 1}
CreatedApart(v) ==
    \A q \in Page \cup {NoPage} : \A a, b \in Created(v, q) : a # b => v[a].pos # v[b].pos
\* The trees a run starts from were made by creates.
ASSUME InitialAssumption == \A v \in InitialRows : CreatedApart(v)

\* How many of S come before p.
Rank(v, S, p) == Cardinality({s \in S : Before(v, s, p)})
\* k is the key before place i of S, or after it; 0 and MaxKey + 1 are the open ends.
KeyBefore(v, S, i, k) ==
    \/ i = 0 /\ k = 0
    \/ \E s \in S : Rank(v, S, s) + 1 = i /\ k = v[s].pos
KeyAfter(v, S, i, k) ==
    \/ i = Cardinality(S) /\ k = MaxKey + 1
    \/ \E s \in S : Rank(v, S, s) = i /\ k = v[s].pos

\* position::between; 0 is None: the neighbours are equal, or there is no room
Between(before, after) == IF after >= before + 2 THEN (before + after) \div 2 ELSE 0
\* position::spread(count)[i - 1]
Spread(count, i) == (i * (MaxKey + 1)) \div (count + 1)
-----------------------------------------------------------------------------
(* Transactions. *)

Init ==
    /\ rows \in InitialRows
    /\ history = {}
    /\ req = [t \in Tx |-> NoRow]
    /\ pc = [t \in Tx |-> "idle"]
    /\ cur = [t \in Tx |-> NoRow]
    /\ memo = [t \in Tx |-> EmptyMemo]
    /\ wrote = [t \in Tx |-> NoRows]
    /\ forUpdate = [t \in Tx |-> {}]
    /\ keyShare = [t \in Tx |-> {}]
    /\ advisory = [t \in Tx |-> {}]
    /\ started = 0

At(t, step) == pc[t] = step
Goto(t, step) == pc' = [pc EXCEPT ![t] = step]

\* The transaction ends, committed or not: its locks and its memory are gone.
End(t) ==
    /\ Goto(t, "idle")
    /\ req' = [req EXCEPT ![t] = NoRow]
    /\ cur' = [cur EXCEPT ![t] = NoRow]
    /\ memo' = [memo EXCEPT ![t] = EmptyMemo]
    /\ wrote' = [wrote EXCEPT ![t] = NoRows]
    /\ forUpdate' = [forUpdate EXCEPT ![t] = {}]
    /\ keyShare' = [keyShare EXCEPT ![t] = {}]
    /\ advisory' = [advisory EXCEPT ![t] = {}]

\* An early return drops the transaction, which rolls it back.
Return(t) == End(t) /\ UNCHANGED <<rows, history, started>>

Rollback(t) == pc[t] # "idle" /\ Return(t)

\* The fields of an update_page, as PageState::diff names them.
Diff(old, new) ==
    {f \in Fields :
        \/ f = "title" /\ old.title # new.title
        \/ f = "type" /\ old.type # new.type
        \/ f = "parentId" /\ old.parent # new.parent
        \/ f = "position" /\ old.pos # new.pos
        \/ f = "deletedAt" /\ old.root # new.root}

Commit(t) ==
    /\ At(t, "commit")
    /\ rows' = View(t)
    /\ history' = IF req[t].op = "create" THEN history
                  ELSE LET p == req[t].page IN
                       history \cup {[page |-> p, version |-> wrote[t][p].version,
                                      fields |-> Diff(cur[t], wrote[t][p])]}
    /\ End(t)
    /\ UNCHANGED started

\* A request comes; a body is one the client can make from the tree it has seen.
Begin(t) ==
    /\ At(t, "idle")
    /\ started < MaxRequests
    /\ started' = started + 1
    /\ \E r \in [op : Ops, page : Page, parent : Page \cup {NoPage}, index : 0 .. Cardinality(Page),
                 base : 0 .. MaxRequests + 2, title : Title \cup {Unset}, type : Types \cup {Unset},
                 by : User] :
        /\ r.op # "create" => rows[r.page] # NoRow
        /\ r.op \notin {"create", "move"} => r.parent = NoPage
        /\ r.op # "move" => r.index = 0
        /\ IF r.op = "patch"
           THEN /\ r.title # Unset \/ r.type # Unset
                /\ r.base \in 1 .. rows[r.page].version + 1
           ELSE r.title = Unset /\ r.type = Unset /\ r.base = 0
        /\ r.op # "create" => r.by = CHOOSE u \in User : TRUE
        /\ req' = [req EXCEPT ![t] = r]
        /\ memo' = [memo EXCEPT ![t].parent = r.parent]
        /\ Goto(t, IF r.op = "create" THEN "exists" ELSE "lock")
    /\ UNCHANGED <<rows, history, cur, wrote, locks>>
-----------------------------------------------------------------------------
(* The statements. *)

\* repo::lock without FOR UPDATE
LockNothing(t) ==
    LET p == req[t].page
        op == req[t].op
        row == rows[p]
    IN  /\ At(t, "lock")
        /\ IF \/ op \in {"move", "patch", "delete"} /\ row.root # NoPage
              \/ op = "restore" /\ row.root # p
           THEN Return(t)
           ELSE /\ cur' = [cur EXCEPT ![t] = row]
                /\ Goto(t, CASE op = "move" -> IF req[t].parent = NoPage THEN "height" ELSE "parent"
                             [] op = "patch" -> "conflicts"
                             [] op = "delete" -> "down"
                             [] op = "restore" -> "alive")
                /\ UNCHANGED <<rows, history, req, memo, wrote, forUpdate, keyShare, advisory, started>>

\* repo::lock, then the early returns on what it found.  Move and patch of a trashed page: 404;
\* delete of one: done before.  Restore of a live page: done before; of a page trashed with
\* another: 409.
Lock(t) ==
    LET p == req[t].page
        op == req[t].op
        row == rows[p]
    IN  /\ At(t, "lock")
        /\ CanLock(t, p)
        /\ IF \/ op \in {"move", "patch", "delete"} /\ row.root # NoPage
              \/ op = "restore" /\ row.root # p
           THEN Return(t)
           ELSE /\ cur' = [cur EXCEPT ![t] = row]
                /\ forUpdate' = [forUpdate EXCEPT ![t] = {p}]
                /\ Goto(t, CASE op = "move" -> IF req[t].parent = NoPage THEN "height" ELSE "parent"
                             [] op = "patch" -> "conflicts"
                             [] op = "delete" -> "down"
                             [] op = "restore" -> "alive")
                /\ UNCHANGED <<rows, history, req, memo, wrote, keyShare, advisory, started>>

\* create_page: the id exists already (same_request answers, or 409)
Exists(t) ==
    /\ At(t, "exists")
    /\ IF rows[req[t].page] # NoRow
       THEN Return(t)
       ELSE /\ Goto(t, IF req[t].parent = NoPage THEN "place" ELSE "parent")
            /\ UNCHANGED <<rows, history, req, cur, memo, wrote, locks, started>>

\* check_parent: the parent must be live
CheckParent(t) ==
    /\ At(t, "parent")
    /\ IF req[t].parent \notin LiveIn(rows)
       THEN Return(t)
       ELSE /\ Goto(t, "path")
            /\ UNCHANGED <<rows, history, req, cur, memo, wrote, locks, started>>

\* check_parent: PAGE_CYCLE, the depth; create checks the depth at once.  The query never ends on
\* a path that turns back on itself.
CheckPath(t) ==
    LET q == req[t].parent
        par == ParentIn(rows)
        path == Up(par, q)
        creating == req[t].op = "create"
    IN  /\ At(t, "path")
        /\ \A a \in path : par[a] # NoPage => a \notin Up(par, par[a])
        /\ IF \/ ~creating /\ req[t].page \in path
              \/ creating /\ Cardinality(path) + 1 > MaxDepth
           THEN Return(t)
           ELSE /\ memo' = [memo EXCEPT ![t].depth = Cardinality(path)]
                /\ Goto(t, IF creating THEN "place" ELSE "height")
                /\ UNCHANGED <<rows, history, req, cur, wrote, locks, started>>

\* move_page: no page of the live subtree deeper than MaxDepth
CheckHeight(t) ==
    LET p == req[t].page
        par == ParentIn(rows)
    IN  /\ At(t, "height")
        /\ p \notin LiveUnder(par, LiveIn(rows), p)
        /\ IF memo[t].depth + Height(par, LiveIn(rows), p) <= MaxDepth
           THEN /\ Goto(t, IF req[t].parent = cur[t].parent THEN "samePlace" ELSE "place")
                /\ UNCHANGED <<rows, history, req, cur, memo, wrote, locks, started>>
           ELSE Return(t)

AtMost(i, n) == IF i <= n THEN i ELSE n

\* move_page: where it already is
CheckSamePlace(t) ==
    LET p == req[t].page
        S == Siblings(rows, cur[t].parent, p)
        now == Cardinality({s \in S : \/ rows[s].pos < cur[t].pos
                                      \/ rows[s].pos = cur[t].pos /\ s < p})
    IN  /\ At(t, "samePlace")
        /\ IF AtMost(req[t].index, Cardinality(S)) = now
           THEN Return(t)
           ELSE /\ Goto(t, "place")
                /\ UNCHANGED <<rows, history, req, cur, memo, wrote, locks, started>>

\* the index of a move, counted with the page itself
PlaceWithItself(t, n) == IF req[t].op = "move" THEN AtMost(req[t].index + 1, n) ELSE n

\* A move goes to its index without the page, a new or restored page goes last.
PlaceOf(t, n) == IF req[t].op = "move" THEN AtMost(req[t].index, n) ELSE n
AfterPlace(t) ==
    CASE req[t].op = "create" -> "insert"
      [] req[t].op = "move" -> "write"
      [] req[t].op = "restore" -> "revive"

\* service::place: the lock of the children, the children, a key between two of them or new keys
\* for all.  `free` is whether the lock can be taken.
PlaceWhen(t, free) ==
    LET q == memo[t].parent
        v == View(t)
        S == Siblings(v, q, req[t].page)
        n == Cardinality(S)
        i == PlaceOf(t, n)
        KeyOf(s) == LET r == Rank(v, S, s) IN Spread(n + 1, IF r < i THEN r + 1 ELSE r + 2)
    IN  /\ At(t, "place")
        /\ free
        /\ advisory' = [advisory EXCEPT ![t] = {q}]
        /\ \E before \in 0 .. MaxKey, after \in 1 .. MaxKey + 1 :
              /\ KeyBefore(v, S, i, before)
              /\ KeyAfter(v, S, i, after)
              /\ \/ /\ Between(before, after) # 0
                    /\ memo' = [memo EXCEPT ![t].key = Between(before, after)]
                    /\ Goto(t, AfterPlace(t))
                 \/ /\ Between(before, after) = 0
                    /\ memo' = [memo EXCEPT
                                  ![t].key = Spread(n + 1, i + 1),
                                  ![t].keys = [s \in Page |-> IF s \in S THEN KeyOf(s) ELSE 0]]
                    /\ Goto(t, "renumber")
        /\ UNCHANGED <<rows, history, req, cur, wrote, forUpdate, keyShare, started>>

\* no lock_children
PlaceUnlocked(t) == PlaceWhen(t, TRUE)

Place(t) == PlaceWhen(t, \A u \in Others(t) : memo[t].parent \notin advisory[u])

\* place's children without ORDER BY: the new keys go to them in the order of their ids
RenumberById(t) ==
    LET S == {s \in Page : memo[t].keys[s] # 0}
        KeyOf(s) == CHOOSE k \in {memo[t].keys[x] : x \in S} :
                       Cardinality({x \in S : memo[t].keys[x] < k}) = Cardinality({x \in S : x < s})
    IN  /\ At(t, "renumber")
        /\ \A s \in S : CanWrite(t, s)
        /\ wrote' = [wrote EXCEPT ![t] =
                        [s \in Page |-> IF s \in S THEN [View(t)[s] EXCEPT !.pos = KeyOf(s)]
                                        ELSE @[s]]]
        /\ Goto(t, AfterPlace(t))
        /\ UNCHANGED <<rows, history, req, cur, memo, locks, started>>

\* repo::set_positions on the rows as they are once they are not locked.
Renumber(t) ==
    LET S == {s \in Page : memo[t].keys[s] # 0}
    IN  /\ At(t, "renumber")
        /\ \A s \in S : CanWrite(t, s)
        /\ wrote' = [wrote EXCEPT ![t] =
                        [s \in Page |-> IF s \in S THEN [View(t)[s] EXCEPT !.pos = memo[t].keys[s]]
                                        ELSE @[s]]]
        /\ Goto(t, AfterPlace(t))
        /\ UNCHANGED <<rows, history, req, cur, memo, locks, started>>

\* repo::insert.  Another transaction's row of the same id is waited for; when it is committed, the
\* primary key answers as `Exists` did.
Insert(t) ==
    LET p == req[t].page
        q == req[t].parent
    IN  /\ At(t, "insert")
        /\ \A u \in Others(t) : rows[p] = NoRow => p \notin Written(u)
        /\ \/ /\ rows[p] # NoRow
              /\ Return(t)
           \/ /\ rows[p] = NoRow
              /\ CanRefer(t, q)
              /\ Refer(t, q)
              /\ \E title \in Title, type \in Types :
                   wrote' = [wrote EXCEPT ![t][p] =
                       [parent |-> q, pos |-> memo[t].key, title |-> title, type |-> type,
                        root |-> NoPage, version |-> 1, by |-> req[t].by]]
              /\ Goto(t, "commit")
              /\ UNCHANGED <<rows, history, req, cur, memo, forUpdate, advisory, started>>

\* check_conflicts of a version from the future alone: the fields changed since are not looked up
IgnoreConflicts(t) ==
    /\ At(t, "conflicts")
    /\ IF req[t].base > cur[t].version
       THEN Return(t)
       ELSE /\ Goto(t, "write")
            /\ UNCHANGED <<rows, history, req, cur, memo, wrote, locks, started>>

\* check_conflicts: a version from the future (422), or a field sent was changed since (409).
CheckConflicts(t) ==
    LET sent == {f \in {"title", "type"} : IF f = "title" THEN req[t].title # Unset
                                           ELSE req[t].type # Unset}
    IN  /\ At(t, "conflicts")
        /\ IF \/ req[t].base > cur[t].version
              \/ \E h \in history : /\ h.page = req[t].page
                                    /\ h.version > req[t].base
                                    /\ h.fields \cap sent # {}
           THEN Return(t)
           ELSE /\ Goto(t, IF req[t].type \notin {Unset, cur[t].type} THEN "content" ELSE "write")
                /\ UNCHANGED <<rows, history, req, cur, memo, wrote, locks, started>>

\* has_content: live children (PAGE_NOT_EMPTY)
CheckContent(t) ==
    /\ At(t, "content")
    /\ IF Siblings(rows, req[t].page, NoPage) # {}
       THEN Return(t)
       ELSE /\ Goto(t, "write")
            /\ UNCHANGED <<rows, history, req, cur, memo, wrote, locks, started>>

\* trash_descendants finds the live pages under the page,
FindDown(t) ==
    LET under == LiveUnder(ParentIn(rows), LiveIn(rows), req[t].page)
    IN  /\ At(t, "down")
        /\ req[t].page \notin under
        /\ memo' = [memo EXCEPT ![t].down = under]
        /\ Goto(t, "trash")
        /\ UNCHANGED <<rows, history, req, cur, wrote, locks, started>>

\* mutant: delete_page leaves the descendants live
TrashAlone(t) ==
    /\ At(t, "trash")
    /\ Goto(t, "write")
    /\ UNCHANGED <<rows, history, req, cur, memo, wrote, locks, started>>

\* and writes them as they are once they are not locked.
TrashDown(t) ==
    /\ At(t, "trash")
    /\ \A d \in memo[t].down : CanWrite(t, d)
    /\ wrote' = [wrote EXCEPT ![t] =
                    [d \in Page |-> IF d \in memo[t].down
                                    THEN [rows[d] EXCEPT !.root = req[t].page, !.version = @ + 1]
                                    ELSE @[d]]]
    /\ Goto(t, "write")
    /\ UNCHANGED <<rows, history, req, cur, memo, locks, started>>

\* restore_page: the old place when the parent is live, else the end of the root
CheckAlive(t) ==
    LET q == cur[t].parent
        alive == q = NoPage \/ q \in LiveIn(rows)
    IN  /\ At(t, "alive")
        /\ memo' = [memo EXCEPT ![t].parent = IF alive THEN q ELSE NoPage,
                                ![t].key = IF alive THEN cur[t].pos ELSE 0]
        /\ Goto(t, IF alive THEN "revive" ELSE "place")
        /\ UNCHANGED <<rows, history, req, cur, wrote, locks, started>>

\* restore_descendants finds the pages trashed with the page,
FindTrashed(t) ==
    /\ At(t, "revive")
    /\ memo' = [memo EXCEPT ![t].down =
                   {d \in Existing(rows) \ {req[t].page} : rows[d].root = req[t].page}]
    /\ Goto(t, "reviveDown")
    /\ UNCHANGED <<rows, history, req, cur, wrote, locks, started>>

\* and writes those that still are, once they are not locked.
ReviveDown(t) ==
    /\ At(t, "reviveDown")
    /\ \A d \in memo[t].down : CanWrite(t, d)
    /\ wrote' = [wrote EXCEPT ![t] =
                    [d \in Page |->
                        IF d \in memo[t].down /\ rows[d].root = req[t].page
                        THEN [View(t)[d] EXCEPT !.root = NoPage, !.version = @ + 1]
                        ELSE @[d]]]
    /\ Goto(t, "write")
    /\ UNCHANGED <<rows, history, req, cur, memo, locks, started>>

\* The row update_page writes over `current`.
NextRow(t) ==
    LET r == req[t]
        c == cur[t]
    IN  CASE r.op = "move" -> [c EXCEPT !.parent = r.parent, !.pos = memo[t].key]
          [] r.op = "patch" -> [c EXCEPT !.title = IF r.title = Unset THEN @ ELSE r.title,
                                         !.type = IF r.type = Unset THEN @ ELSE r.type]
          [] r.op = "delete" -> [c EXCEPT !.root = r.page]
          [] r.op = "restore" -> [c EXCEPT !.parent = memo[t].parent, !.pos = memo[t].key,
                                           !.root = NoPage]

\* update_page: nothing when nothing differs, else the row with a new version; a new parent is
\* checked by the foreign key.
Write(t) ==
    LET p == req[t].page
        new == NextRow(t)
        referred == IF new.parent = cur[t].parent THEN NoPage ELSE new.parent
    IN  /\ At(t, "write")
        /\ \/ /\ new = cur[t]
              /\ Return(t)
           \/ /\ new # cur[t]
              /\ CanRefer(t, referred)
              /\ Refer(t, referred)
              /\ wrote' = [wrote EXCEPT ![t][p] = [new EXCEPT !.version = rows[p].version + 1]]
              /\ Goto(t, "commit")
              /\ UNCHANGED <<rows, history, req, cur, memo, forUpdate, advisory, started>>

Step(t) ==
    \/ Lock(t) \/ Exists(t) \/ CheckParent(t) \/ CheckPath(t) \/ CheckHeight(t)
    \/ CheckSamePlace(t) \/ Place(t) \/ Renumber(t) \/ Insert(t)
    \/ CheckConflicts(t) \/ CheckContent(t)
    \/ FindDown(t) \/ TrashDown(t)
    \/ CheckAlive(t) \/ FindTrashed(t) \/ ReviveDown(t)
    \/ Write(t) \/ Commit(t)

Next == \E t \in Tx : Begin(t) \/ Step(t) \/ Rollback(t)

Spec == Init /\ [][Next]_vars
-----------------------------------------------------------------------------
(* What holds however requests interleave. *)

\* Types; a version of the history has at least one field that changed.
TypeOK ==
    /\ rows \in Rows
    /\ history \subseteq Change
    /\ req \in [Tx -> Request \cup {NoRow}]
    /\ pc \in [Tx -> Steps]
    /\ cur \in [Tx -> Row \cup {NoRow}]
    /\ memo \in [Tx -> Memo]
    /\ wrote \in [Tx -> Rows]
    /\ forUpdate \in [Tx -> SUBSET Page]
    /\ keyShare \in [Tx -> SUBSET Page]
    /\ advisory \in [Tx -> SUBSET (Page \cup {NoPage})]
    /\ started \in Nat

\* Between repo::lock and the end of its transaction, the row a handler read is the row in the
\* table: update_page writes every field from it, so a change committed meanwhile would be lost.
CurrentIsCommitted == \A t \in Tx : cur[t] # NoRow => rows[req[t].page] = cur[t]

\* Each field of a page changes only by a request for it, with a new version: an edit does not
\* undo a move, a move does not undo an edit, a delete neither.
FieldsChangeByRequest ==
    [][\A p \in Existing(rows) : \E t \in Tx :
         LET Is(op) == Commit(t) /\ req[t].op = op
             own == req[t].page = p
         IN  /\ rows'[p].title # rows[p].title => Is("patch") /\ own /\ req[t].title = rows'[p].title
             /\ rows'[p].type # rows[p].type => Is("patch") /\ own /\ req[t].type = rows'[p].type
             /\ rows'[p].parent # rows[p].parent => (Is("move") \/ Is("restore")) /\ own
             /\ rows'[p].root # rows[p].root => Is("delete") \/ Is("restore")
             /\ [rows'[p] EXCEPT !.pos = rows[p].pos] # rows[p]
                   => rows'[p].version > rows[p].version]_vars

\* The field contract: an edit that goes through overwrites no change its author had not seen.
NoUnseenOverwrite ==
    [][\A t \in Tx : Commit(t) /\ req[t].op = "patch" =>
         \A h \in history :
            h.page = req[t].page /\ h.version > req[t].base =>
               /\ "title" \in h.fields => req[t].title = Unset
               /\ "type" \in h.fields => req[t].type = Unset]_vars

\* The handler has found the page empty and is about to change its type.
Retyping(t) ==
    /\ pc[t] \in {"write", "commit"} /\ req[t].op = "patch"
    /\ req[t].type \notin {Unset, cur[t].type}

\* "The type changes only while the page is empty" (patch_page.rs): has_content reads the children
\* without a lock on them, and it is the foreign key of a child being created or moved in that
\* waits.  A restore changes no parent_id and waits for nobody: from the look to the commit, a
\* child it brings back is all a page can get.
TypeChangesWhileEmpty ==
    [][\A t \in Tx : Retyping(t)' =>
         \A c \in Siblings(rows', req'[t].page, NoPage) :
            \/ Retyping(t) /\ c \in Siblings(rows, req[t].page, NoPage)
            \/ \E u \in Tx : Commit(u) /\ req[u].op = "restore"]_vars

\* Pages created under one parent, at once or not, have different keys, whatever is moved,
\* renumbered, trashed and restored around them: the advisory lock of lock_children.  A page that
\* was changed since can have a key of another's: a restore takes the old one back unlocked.
DistinctKeys == CreatedApart(rows)

\* What is in the table, in a handler's hands and in the history is well formed, and the keys of
\* created siblings differ.
RowsAreSound == TypeOK /\ DistinctKeys

\* A request changes the place of its own page only: of two other siblings the one before stays
\* before ("Their place does not change, only its key", repo.rs).
OthersKeepOrder ==
    [][\A t \in Tx : Commit(t) =>
         \A p, q \in LiveIn(rows) \ {req[t].page} :
            /\ rows[p].parent = rows[q].parent
            /\ {p, q} \subseteq LiveIn(rows')
            /\ rows'[p].parent = rows[p].parent /\ rows'[q].parent = rows[q].parent
            => (Before(rows, p, q) <=> Before(rows', p, q))]_vars

\* A moved page has as many siblings before it as its index says.
MoveLandsAtIndex ==
    [][\A t \in Tx : Commit(t) /\ req[t].op = "move" =>
         LET S == Siblings(rows', req[t].parent, req[t].page)
         IN  Rank(rows', S, req[t].page) = AtMost(req[t].index, Cardinality(S))]_vars
-----------------------------------------------------------------------------
(* The promise of PageTree. *)

Root == [p \in Page |-> IF rows[p] = NoRow THEN NoPage ELSE rows[p].root]

Tree == INSTANCE PageTree WITH pages <- Existing(rows), parent <- ParentIn(rows), root <- Root

\* Transactions that run one after the other are the atomic operations of PageTree.
ImplementsTree == Tree!Spec

Acyclic == Tree!Acyclic
=============================================================================
