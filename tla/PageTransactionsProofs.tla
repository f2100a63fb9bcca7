----------------------- MODULE PageTransactionsProofs -----------------------
(***************************************************************************)
(* What FOR UPDATE gives the handlers of a page, for any number of pages   *)
(* and of transactions and any trees they start from: between repo::lock   *)
(* and its commit the row a handler read is the row in the table, and so   *)
(* an edit that passed check_conflicts overwrites nothing its author had   *)
(* not seen.                                                               *)
(*                                                                         *)
(* TypeOK and the two properties are not inductive.  LockInv adds what the *)
(* argument needs: where each handler can be (Control), that a handler     *)
(* past repo::lock holds the lock of the row it read (Held), that no other *)
(* transaction holds that lock or has written that row (Exclusive), that   *)
(* rows found once stay (Seen), and what is ready to be committed (Ready). *)
(*                                                                         *)
(* Then what the locks give together: a field of a page changes only by a  *)
(* request for it, the type of a page only while it has no children, and   *)
(* pages created under one parent have different keys.  None of it is      *)
(* inductive.  RowsInv adds to LockInv what every handler has in its       *)
(* hands: a memory that is not about its own page (Remembers), rows of     *)
(* other pages that differ from the committed ones only in what place,     *)
(* trash_descendants and restore_descendants change (Writes, Kept), its    *)
(* own row as NextRow makes it (Final), keys that are free below the       *)
(* parent whose children it has locked (Keys, NewKeys); and that two       *)
(* transactions write different rows and hold different locks (Apart).     *)
(*                                                                         *)
(* Last, one transaction at a time: every statement is a step of PageTree  *)
(* or none (Progress says what each has found on its way to the commit).   *)
(***************************************************************************)
EXTENDS PageTransactions, PageForestProofs, FiniteSetTheorems, TLAPS

\* The statements of each request.
CanBeAt(s, op) ==
    /\ s = "lock" => op # "create"
    /\ s \in {"exists", "insert"} => op = "create"
    /\ s \in {"parent", "path"} => op \in {"create", "move"}
    /\ s \in {"height", "samePlace"} => op = "move"
    /\ s \in {"place", "renumber"} => op \in {"create", "move", "restore"}
    /\ s \in {"conflicts", "content"} => op = "patch"
    /\ s \in {"down", "trash"} => op = "delete"
    /\ s \in {"alive", "revive", "reviveDown"} => op = "restore"
    /\ s = "write" => op # "create"

Control(t) == CanBeAt(pc[t], req[t].op)

\* Past repo::lock the handler holds the lock of the row it read, and the row is as it read it.
Held(t) ==
    /\ pc[t] = "idle" => req[t] = NoRow
    /\ pc[t] # "idle" => req[t] \in Request
    /\ cur[t] # NoRow <=> pc[t] \notin {"idle", "lock"} /\ req[t].op # "create"
    /\ cur[t] = NoRow => forUpdate[t] = {}
    /\ cur[t] # NoRow => forUpdate[t] = {req[t].page} /\ rows[req[t].page] = cur[t]

\* What one transaction has locked no other has locked or written.
Exclusive(t, u) ==
    t # u => \A p \in forUpdate[t] : p \notin forUpdate[u] /\ wrote[u][p] = NoRow

\* The rows a handler found are there.
Seen(t) ==
    /\ pc[t] = "lock" => rows[req[t].page] # NoRow
    /\ \A s \in Page : memo[t].keys[s] # 0 => rows[s] # NoRow \/ wrote[t][s] # NoRow
    /\ \A d \in memo[t].down : rows[d] # NoRow

\* At the commit the row is written, with a change when it was there before.
Ready(t) ==
    pc[t] = "commit" =>
        /\ wrote[t][req[t].page] # NoRow
        /\ req[t].op # "create" => Diff(cur[t], wrote[t][req[t].page]) # {}

Clear(h, r) ==
    h.page = r.page /\ h.version > r.base =>
        /\ "title" \in h.fields => r.title = Unset
        /\ "type" \in h.fields => r.type = Unset

\* Past check_conflicts no change of a field sent is newer than the version the edit was made on.
Cleared(t) ==
    pc[t] \in {"content", "write", "commit"} /\ req[t].op = "patch" =>
        \A h \in history : Clear(h, req[t])

OwnInv(t) == Control(t) /\ Held(t) /\ Seen(t) /\ Ready(t) /\ Cleared(t)

LockInv ==
    /\ TypeOK
    /\ \A t \in Tx : OwnInv(t)
    /\ \A t, u \in Tx : Exclusive(t, u)
-----------------------------------------------------------------------------
(* Data. *)

\* Keys and memory: the types of what place computes.
LEMMA KeyTypes ==
    ASSUME NEW a \in Nat, NEW b \in Nat
    PROVE  Between(a, b) \in Nat /\ Spread(a, b) \in Nat
  <1>1. Between(a, b) \in Nat
    BY DEF Between
  <1>2. MaxKey \in Nat
    BY KeyAssumption
  <1>3. b * (MaxKey + 1) \in Nat /\ a + 1 \in Nat \ {0}
    BY <1>2
  <1>4. Spread(a, b) \in Nat
    BY <1>3 DEF Spread
  <1>5. QED
    BY <1>1, <1>4

\* A set of pages has a size.
LEMMA PagesCount ==
    ASSUME NEW S \in SUBSET Page
    PROVE  Cardinality(S) \in Nat
  BY KeyAssumption, FS_Subset, FS_CardinalityType

\* What a statement sees are rows.
LEMMA ViewIsRows ==
    ASSUME TypeOK, NEW t \in Tx
    PROVE  View(t) \in Rows
  BY DEF TypeOK, View, Rows

\* A row that differs from the one it is written over differs in a field of the history.
LEMMA ChangedRowHasDiff ==
    ASSUME NEW c \in Row, NEW new \in Row, new # c, new.version = c.version, new.by = c.by,
           NEW v \in Nat \ {0}
    PROVE  Diff(c, [new EXCEPT !.version = v]) # {}
  <1> DEFINE w == [new EXCEPT !.version = v]
  <1>1. /\ w.title = new.title /\ w.type = new.type /\ w.parent = new.parent
        /\ w.pos = new.pos /\ w.root = new.root
    BY DEF Row
  <1>2. \/ new.title # c.title \/ new.type # c.type \/ new.parent # c.parent
        \/ new.pos # c.pos \/ new.root # c.root
    BY DEF Row
  <1> HIDE DEF w
  <1>3. Diff(c, w) # {}
    BY <1>1, <1>2 DEF Diff, Fields
  <1>4. QED
    BY <1>3 DEF w
\* A row whose deleted_root changes, with a new version, is a row.
LEMMA MarkedRowIsRow ==
    ASSUME NEW r \in Row, NEW x \in Page \cup {NoPage}
    PROVE  [r EXCEPT !.root = x, !.version = r.version + 1] \in Row
  <1>1. r.version + 1 \in Nat \ {0}
    BY DEF Row
  <1>2. [r EXCEPT !.root = x] \in Row
    BY DEF Row
  <1>3. QED
    BY <1>1, <1>2 DEF Row

-----------------------------------------------------------------------------
(* The invariant. *)

\* Nothing is open at the start.
LEMMA InitLockInv == Init => LockInv
  <1> SUFFICES ASSUME Init PROVE LockInv
    OBVIOUS
  <1>1. EmptyMemo \in Memo /\ NoRows \in Rows
    BY DEF EmptyMemo, Memo, NoRows, Rows, NoPage
  <1>2. TypeOK
    BY <1>1, RequestAssumption DEF Init, TypeOK, Steps
  <1>4. ASSUME NEW t \in Tx
        PROVE  OwnInv(t)
    BY DEF Init, OwnInv, Control, CanBeAt, Held, Seen, Ready, Cleared, EmptyMemo
  <1>5. ASSUME NEW t \in Tx, NEW u \in Tx
        PROVE  Exclusive(t, u)
    BY DEF Init, Exclusive
  <1>6. QED
    BY <1>2, <1>4, <1>5 DEF LockInv

\* The end of a transaction, when it leaves the rows alone.
LEMMA ReturnKeepsLockInv ==
    ASSUME LockInv, NEW t \in Tx, Return(t)
    PROVE  LockInv'
  <1>1. EmptyMemo \in Memo /\ NoRows \in Rows
    BY DEF EmptyMemo, Memo, NoRows, Rows, NoPage
  <1>2. TypeOK'
    BY <1>1 DEF LockInv, TypeOK, Return, End, Goto, Steps
  <1>3. ASSUME NEW u \in Tx
        PROVE  OwnInv(u)'
    <2>1. CASE u = t
      BY <2>1 DEF LockInv, TypeOK, Return, End, Goto, EmptyMemo, OwnInv, Control, CanBeAt, Held, Seen,
                  Ready, Cleared
    <2>2. CASE u # t
      <3>1. OwnInv(u)
        BY DEF LockInv
      <3>2. /\ pc'[u] = pc[u] /\ req'[u] = req[u] /\ cur'[u] = cur[u] /\ memo'[u] = memo[u]
            /\ wrote'[u] = wrote[u] /\ forUpdate'[u] = forUpdate[u]
            /\ rows' = rows /\ history' = history
        BY <2>2 DEF LockInv, TypeOK, Return, End, Goto
      <3>3. QED
        BY <3>1, <3>2 DEF OwnInv, Control, Held, Seen, Ready, Cleared, Clear
    <2>3. QED
      BY <2>1, <2>2
  <1>4. ASSUME NEW u \in Tx, NEW w \in Tx
        PROVE  Exclusive(u, w)'
    BY DEF LockInv, TypeOK, Return, End, NoRows, Exclusive
  <1>5. QED
    BY <1>2, <1>3, <1>4 DEF LockInv

\* A statement that reads: it goes on to another one and may keep what it found.
LEMMA ReadKeepsLockInv ==
    ASSUME LockInv, NEW t \in Tx, NEW s \in Steps \ {"idle", "lock", "commit"},
           pc[t] \notin {"idle", "lock"}, Goto(t, s),
           UNCHANGED <<rows, history, req, cur, wrote, forUpdate, keyShare, started>>,
           advisory' \in [Tx -> SUBSET (Page \cup {NoPage})],
           NEW m \in Memo, memo' = [memo EXCEPT ![t] = m],
           CanBeAt(s, req[t].op),
           \A d \in Page : m.keys[d] # 0 => rows[d] # NoRow \/ wrote[t][d] # NoRow,
           \A d \in m.down : rows[d] # NoRow,
           s \in {"content", "write"} /\ req[t].op = "patch"
              => \A h \in history : Clear(h, req[t])
    PROVE  LockInv'
  <1>1. TypeOK'
    BY DEF LockInv, TypeOK, Goto
  <1>2. ASSUME NEW u \in Tx
        PROVE  OwnInv(u)'
    <2>1. CASE u = t
      <3>1. OwnInv(t) /\ pc'[t] = s /\ memo'[t] = m
        BY DEF LockInv, TypeOK, Goto
      <3>2. Control(t)' /\ Ready(t)' /\ Seen(t)'
        BY <3>1 DEF OwnInv, Control, Ready, Seen
      <3>3. Held(t)'
        BY <3>1 DEF OwnInv, Held
      <3>4. Cleared(t)'
        BY <3>1 DEF OwnInv, Cleared, Clear
      <3>5. QED
        BY <2>1, <3>2, <3>3, <3>4 DEF OwnInv
    <2>2. CASE u # t
      <3>1. OwnInv(u) /\ pc'[u] = pc[u] /\ memo'[u] = memo[u]
        BY <2>2 DEF LockInv, TypeOK, Goto
      <3>2. QED
        BY <3>1 DEF OwnInv, Control, Held, Seen, Ready, Cleared, Clear
    <2>3. QED
      BY <2>1, <2>2
  <1>3. ASSUME NEW u \in Tx, NEW w \in Tx
        PROVE  Exclusive(u, w)'
    BY DEF LockInv, Exclusive
  <1>4. QED
    BY <1>1, <1>2, <1>3 DEF LockInv

\* The same with nothing kept.
LEMMA GoKeepsLockInv ==
    ASSUME LockInv, NEW t \in Tx, NEW s \in Steps \ {"idle", "lock", "commit"},
           pc[t] \notin {"idle", "lock"}, Goto(t, s),
           UNCHANGED <<rows, history, req, cur, memo, wrote, locks, started>>,
           CanBeAt(s, req[t].op),
           s \in {"content", "write"} /\ req[t].op = "patch"
              => \A h \in history : Clear(h, req[t])
    PROVE  LockInv'
  <1>1. memo[t] \in Memo /\ memo' = [memo EXCEPT ![t] = memo[t]]
    BY DEF LockInv, TypeOK
  <1>2. /\ \A d \in Page : memo[t].keys[d] # 0 => rows[d] # NoRow \/ wrote[t][d] # NoRow
        /\ \A d \in memo[t].down : rows[d] # NoRow
    BY DEF LockInv, OwnInv, Seen
  <1>3. advisory' \in [Tx -> SUBSET (Page \cup {NoPage})]
    BY DEF LockInv, TypeOK, locks
  <1>4. QED
    BY <1>1, <1>2, <1>3, ReadKeepsLockInv DEF locks

\* What an open transaction is at, and for which request.
LEMMA OpenRequest ==
    ASSUME LockInv, NEW t \in Tx, pc[t] # "idle"
    PROVE  req[t] \in Request /\ CanBeAt(pc[t], req[t].op)
  BY DEF LockInv, OwnInv, Held, Control

\* The statements that look before the place is taken.
LEMMA ChecksKeepLockInv ==
    ASSUME LockInv, NEW t \in Tx,
           \/ Exists(t) \/ CheckParent(t) \/ CheckPath(t) \/ CheckHeight(t) \/ CheckSamePlace(t)
    PROVE  LockInv'
  <1>1. CASE Return(t)
    BY <1>1, ReturnKeepsLockInv
  <1>2. CASE Exists(t) /\ ~Return(t)
    BY <1>2, OpenRequest, GoKeepsLockInv DEF Exists, At, CanBeAt, Steps, locks
  <1>3. CASE CheckParent(t) /\ ~Return(t)
    BY <1>3, OpenRequest, GoKeepsLockInv DEF CheckParent, At, CanBeAt, Steps
  <1>4. CASE CheckPath(t) /\ ~Return(t)
    <2> DEFINE path == Up(ParentIn(rows), req[t].parent)
               m == [memo[t] EXCEPT !.depth = Cardinality(path)]
               s == IF req[t].op = "create" THEN "place" ELSE "height"
    <2>1. /\ pc[t] = "path" /\ memo[t] \in Memo
          /\ memo' = [memo EXCEPT ![t].depth = Cardinality(path)] /\ Goto(t, s)
          /\ UNCHANGED <<rows, history, req, cur, wrote, locks, started>>
      BY <1>4 DEF CheckPath, At, LockInv, TypeOK
    <2>2. Cardinality(path) \in Nat
      BY PagesCount DEF Up
    <2> HIDE DEF path
    <2>3. m \in Memo /\ memo' = [memo EXCEPT ![t] = m] /\ m.keys = memo[t].keys /\ m.down = memo[t].down
      BY <2>1, <2>2 DEF Memo
    <2>4. req[t] \in Request /\ CanBeAt(s, req[t].op) /\ s \in Steps \ {"idle", "lock", "commit"}
          /\ s \notin {"content", "write"}
      BY <2>1, OpenRequest DEF CanBeAt, Steps
    <2>5. /\ \A d \in Page : m.keys[d] # 0 => rows[d] # NoRow \/ wrote[t][d] # NoRow
          /\ \A d \in m.down : rows[d] # NoRow
      BY <2>3 DEF LockInv, OwnInv, Seen
    <2>6. advisory' \in [Tx -> SUBSET (Page \cup {NoPage})]
      BY <2>1 DEF LockInv, TypeOK, locks
    <2> HIDE DEF m, s
    <2>7. QED
      BY <2>1, <2>3, <2>4, <2>5, <2>6, ReadKeepsLockInv DEF locks
  <1>5. CASE CheckHeight(t) /\ ~Return(t)
    BY <1>5, OpenRequest, GoKeepsLockInv DEF CheckHeight, At, CanBeAt, Steps
  <1>6. CASE CheckSamePlace(t) /\ ~Return(t)
    BY <1>6, OpenRequest, GoKeepsLockInv DEF CheckSamePlace, At, CanBeAt, Steps
  <1>7. QED
    BY <1>1, <1>2, <1>3, <1>4, <1>5, <1>6

\* check_conflicts clears the fields sent, has_content changes nothing about it.
LEMMA ConflictsKeepLockInv ==
    ASSUME LockInv, NEW t \in Tx, CheckConflicts(t) \/ CheckContent(t)
    PROVE  LockInv'
  <1>1. CASE Return(t)
    BY <1>1, ReturnKeepsLockInv
  <1>2. CASE CheckConflicts(t) /\ ~Return(t)
    <2> DEFINE sent == {f \in {"title", "type"} : IF f = "title" THEN req[t].title # Unset
                                                 ELSE req[t].type # Unset}
    <2>1. ~ \E h \in history : /\ h.page = req[t].page
                               /\ h.version > req[t].base
                               /\ h.fields \cap sent # {}
      BY <1>2 DEF CheckConflicts
    <2>2. ASSUME NEW h \in history
          PROVE  Clear(h, req[t])
      BY <2>1 DEF Clear
    <2>3. QED
      BY <1>2, <2>2, OpenRequest, GoKeepsLockInv DEF CheckConflicts, At, CanBeAt, Steps
  <1>3. CASE CheckContent(t) /\ ~Return(t)
    <2>1. req[t].op = "patch" /\ \A h \in history : Clear(h, req[t])
      BY <1>3, OpenRequest DEF CheckContent, At, CanBeAt, LockInv, OwnInv, Cleared
    <2>2. QED
      BY <1>3, <2>1, GoKeepsLockInv DEF CheckContent, At, CanBeAt, Steps
  <1>4. QED
    BY <1>1, <1>2, <1>3
-----------------------------------------------------------------------------
(* The statements that write. *)

\* A statement that writes rows of its own: none that another transaction has locked.
LEMMA WriteKeepsLockInv ==
    ASSUME LockInv, NEW t \in Tx, NEW s \in Steps \ {"idle", "lock"},
           pc[t] \notin {"idle", "lock"}, Goto(t, s),
           UNCHANGED <<rows, history, req, cur, memo, forUpdate, advisory, started>>,
           keyShare' \in [Tx -> SUBSET Page],
           NEW w \in Rows, wrote' = [wrote EXCEPT ![t] = w],
           CanBeAt(s, req[t].op),
           \A d \in Page : wrote[t][d] # NoRow => w[d] # NoRow,
           \A u \in Others(t), p \in Page : w[p] # NoRow => p \notin forUpdate[u],
           s = "commit" => /\ w[req[t].page] # NoRow
                           /\ req[t].op # "create" => Diff(cur[t], w[req[t].page]) # {},
           s \in {"content", "write", "commit"} /\ req[t].op = "patch"
              => \A h \in history : Clear(h, req[t])
    PROVE  LockInv'
  <1>1. TypeOK'
    BY DEF LockInv, TypeOK, Goto
  <1>2. ASSUME NEW u \in Tx
        PROVE  OwnInv(u)'
    <2>1. CASE u = t
      <3>1. OwnInv(t) /\ pc'[t] = s /\ wrote'[t] = w
        BY DEF LockInv, TypeOK, Goto
      <3>2. Control(t)' /\ Seen(t)'
        BY <3>1 DEF OwnInv, Control, Seen
      <3>3. Held(t)'
        BY <3>1 DEF OwnInv, Held
      <3>4. Ready(t)'
        BY <3>1 DEF OwnInv, Ready
      <3>5. Cleared(t)'
        BY <3>1 DEF OwnInv, Cleared, Clear
      <3>6. QED
        BY <2>1, <3>2, <3>3, <3>4, <3>5 DEF OwnInv
    <2>2. CASE u # t
      <3>1. OwnInv(u) /\ pc'[u] = pc[u] /\ wrote'[u] = wrote[u]
        BY <2>2 DEF LockInv, TypeOK, Goto
      <3>2. QED
        BY <3>1 DEF OwnInv, Control, Held, Seen, Ready, Cleared, Clear
    <2>3. QED
      BY <2>1, <2>2
  <1>3. ASSUME NEW u \in Tx, NEW v \in Tx
        PROVE  Exclusive(u, v)'
    <2>1. Exclusive(u, v) /\ forUpdate[u] \in SUBSET Page
      BY DEF LockInv, TypeOK
    <2>2. CASE v = t
      BY <2>1, <2>2 DEF Exclusive, Others, LockInv, TypeOK
    <2>3. CASE v # t
      BY <2>1, <2>3 DEF Exclusive, LockInv, TypeOK
    <2>4. QED
      BY <2>2, <2>3
  <1>4. QED
    BY <1>1, <1>2, <1>3 DEF LockInv

\* A row t has written, or one it may write, is locked by no other.
LEMMA WritableIsFree ==
    ASSUME LockInv, NEW t \in Tx, NEW p \in Page,
           \/ wrote[t][p] # NoRow
           \/ CanWrite(t, p)
           \/ p \in forUpdate[t],
           NEW u \in Others(t)
    PROVE  p \notin forUpdate[u]
  BY DEF LockInv, Exclusive, CanWrite, Others

\* set_positions
LEMMA RenumberKeepsLockInv ==
    ASSUME LockInv, NEW t \in Tx, Renumber(t)
    PROVE  LockInv'
  <1> DEFINE S == {s \in Page : memo[t].keys[s] # 0}
             w == [s \in Page |-> IF s \in S THEN [View(t)[s] EXCEPT !.pos = memo[t].keys[s]]
                                  ELSE wrote[t][s]]
             n == AfterPlace(t)
  <1>1. /\ pc[t] = "renumber" /\ wrote' = [wrote EXCEPT ![t] = w] /\ Goto(t, n)
        /\ \A s \in S : CanWrite(t, s)
        /\ UNCHANGED <<rows, history, req, cur, memo, forUpdate, keyShare, advisory, started>>
    BY DEF Renumber, At, LockInv, TypeOK, locks
  <1>2. memo[t].keys \in [Page -> Nat] /\ wrote[t] \in Rows /\ View(t) \in Rows
    BY ViewIsRows DEF LockInv, TypeOK, Memo
  <1>3. ASSUME NEW s \in S
        PROVE  w[s] \in Row
    <2>1. View(t)[s] \in Row
      BY <1>2 DEF LockInv, OwnInv, Seen, View, Rows
    <2>2. QED
      BY <1>2, <2>1 DEF Row
  <1>4. w \in Rows
    BY <1>2, <1>3 DEF Rows
  <1>5. \A d \in Page : wrote[t][d] # NoRow => w[d] # NoRow
    BY <1>3, NoRowAssumption
  <1>6. \A u \in Others(t), p \in Page : w[p] # NoRow => p \notin forUpdate[u]
    BY <1>1, WritableIsFree
  <1>7. CanBeAt(n, req[t].op) /\ n \in Steps \ {"idle", "lock", "commit", "content"}
        /\ (n = "write" => req[t].op = "move")
    BY <1>1, OpenRequest DEF CanBeAt, Steps, AfterPlace
  <1>8. keyShare' \in [Tx -> SUBSET Page]
    BY <1>1 DEF LockInv, TypeOK
  <1> HIDE DEF w, n
  <1>9. QED
    BY <1>1, <1>4, <1>5, <1>6, <1>7, <1>8, WriteKeepsLockInv

\* trash_descendants
LEMMA TrashDownKeepsLockInv ==
    ASSUME LockInv, NEW t \in Tx, TrashDown(t)
    PROVE  LockInv'
  <1> DEFINE D == memo[t].down
             w == [d \in Page |-> IF d \in D
                                  THEN [rows[d] EXCEPT !.root = req[t].page, !.version = @ + 1]
                                  ELSE wrote[t][d]]
  <1>1. /\ pc[t] = "trash" /\ wrote' = [wrote EXCEPT ![t] = w] /\ Goto(t, "write")
        /\ \A s \in D : CanWrite(t, s)
        /\ UNCHANGED <<rows, history, req, cur, memo, forUpdate, keyShare, advisory, started>>
    BY DEF TrashDown, At, LockInv, TypeOK, locks
  <1>2. wrote[t] \in Rows /\ rows \in Rows
    BY DEF LockInv, TypeOK
  <1>3. req[t] \in Request /\ req[t].op = "delete"
    BY <1>1, OpenRequest DEF CanBeAt
  <1>4. ASSUME NEW d \in D, d \in Page
        PROVE  w[d] \in Row
    <2>1. rows[d] \in Row
      BY <1>2, <1>4 DEF LockInv, OwnInv, Seen, Rows
    <2>2. req[t].page \in Page \cup {NoPage}
      BY <1>3 DEF Request
    <2>3. QED
      BY <1>4, <2>1, <2>2, MarkedRowIsRow
  <1>5. w \in Rows
    BY <1>2, <1>4 DEF Rows
  <1>6. \A d \in Page : wrote[t][d] # NoRow => w[d] # NoRow
    BY <1>4, NoRowAssumption
  <1>7. \A u \in Others(t), p \in Page : w[p] # NoRow => p \notin forUpdate[u]
    BY <1>1, WritableIsFree
  <1>8. CanBeAt("write", req[t].op) /\ "write" \in Steps \ {"idle", "lock"}
    BY <1>3 DEF CanBeAt, Steps
  <1>9. keyShare' \in [Tx -> SUBSET Page]
    BY <1>1 DEF LockInv, TypeOK
  <1> HIDE DEF w
  <1>10. QED
    BY <1>1, <1>3, <1>5, <1>6, <1>7, <1>8, <1>9, WriteKeepsLockInv

\* restore_descendants
LEMMA ReviveDownKeepsLockInv ==
    ASSUME LockInv, NEW t \in Tx, ReviveDown(t)
    PROVE  LockInv'
  <1> DEFINE D == {d \in memo[t].down : rows[d].root = req[t].page}
             w == [d \in Page |-> IF d \in memo[t].down /\ rows[d].root = req[t].page
                                  THEN [View(t)[d] EXCEPT !.root = NoPage, !.version = @ + 1]
                                  ELSE wrote[t][d]]
  <1>1. /\ pc[t] = "reviveDown" /\ wrote' = [wrote EXCEPT ![t] = w] /\ Goto(t, "write")
        /\ \A s \in memo[t].down : CanWrite(t, s)
        /\ UNCHANGED <<rows, history, req, cur, memo, forUpdate, keyShare, advisory, started>>
    BY DEF ReviveDown, At, LockInv, TypeOK, locks
  <1>2. wrote[t] \in Rows /\ rows \in Rows /\ View(t) \in Rows
    BY ViewIsRows DEF LockInv, TypeOK
  <1>3. req[t] \in Request /\ req[t].op = "restore"
    BY <1>1, OpenRequest DEF CanBeAt
  <1>4. ASSUME NEW d \in D, d \in Page
        PROVE  w[d] \in Row
    <2>1. View(t)[d] \in Row
      BY <1>2, <1>4 DEF LockInv, OwnInv, Seen, Rows, View
    <2>2. NoPage \in Page \cup {NoPage}
      BY <1>3 DEF Request
    <2>3. QED
      BY <1>4, <2>1, <2>2, MarkedRowIsRow
  <1>5. w \in Rows
    BY <1>2, <1>4 DEF Rows
  <1>6. \A d \in Page : wrote[t][d] # NoRow => w[d] # NoRow
    BY <1>4, NoRowAssumption
  <1>7. \A u \in Others(t), p \in Page : w[p] # NoRow => p \notin forUpdate[u]
    BY <1>1, WritableIsFree
  <1>8. CanBeAt("write", req[t].op) /\ "write" \in Steps \ {"idle", "lock"}
    BY <1>3 DEF CanBeAt, Steps
  <1>9. keyShare' \in [Tx -> SUBSET Page]
    BY <1>1 DEF LockInv, TypeOK
  <1> HIDE DEF w
  <1>10. QED
    BY <1>1, <1>3, <1>5, <1>6, <1>7, <1>8, <1>9, WriteKeepsLockInv

\* repo::insert: the row was not there, so nobody holds its lock.
LEMMA InsertKeepsLockInv ==
    ASSUME LockInv, NEW t \in Tx, Insert(t)
    PROVE  LockInv'
  <1>1. CASE Return(t)
    BY <1>1, ReturnKeepsLockInv
  <1>2. CASE ~Return(t)
    <2> DEFINE p == req[t].page
               q == req[t].parent
    <2>1. /\ pc[t] = "insert" /\ Goto(t, "commit") /\ rows[p] = NoRow /\ Refer(t, q)
          /\ UNCHANGED <<rows, history, req, cur, memo, forUpdate, advisory, started>>
      BY <1>2 DEF Insert, At
    <2>2. PICK title \in Title, type \in Types :
             wrote' = [wrote EXCEPT ![t][p] =
                 [parent |-> q, pos |-> memo[t].key, title |-> title, type |-> type,
                  root |-> NoPage, version |-> 1, by |-> req[t].by]]
      BY <1>2 DEF Insert
    <2> DEFINE row == [parent |-> q, pos |-> memo[t].key, title |-> title, type |-> type,
                       root |-> NoPage, version |-> 1, by |-> req[t].by]
               w == [wrote[t] EXCEPT ![p] = row]
    <2>3. req[t] \in Request /\ req[t].op = "create"
      BY <2>1, OpenRequest DEF CanBeAt
    <2>4. row \in Row
      BY <2>3 DEF Request, Row, LockInv, TypeOK, Memo
    <2>5. p \in Page /\ wrote[t] \in Rows
      BY <2>3 DEF Request, LockInv, TypeOK
    <2> HIDE DEF row
    <2>6. w \in Rows /\ w[p] # NoRow /\ \A d \in Page : d # p => w[d] = wrote[t][d]
      BY <2>4, <2>5, NoRowAssumption DEF Rows
    <2>7. wrote' = [wrote EXCEPT ![t] = w]
      BY <2>2 DEF LockInv, TypeOK, row
    <2> HIDE DEF w
    <2>8. \A d \in Page : wrote[t][d] # NoRow => w[d] # NoRow
      BY <2>6
    <2>9. ASSUME NEW u \in Others(t), NEW d \in Page, w[d] # NoRow
          PROVE  d \notin forUpdate[u]
      <3>1. CASE d # p
        BY <2>6, <2>9, <3>1, WritableIsFree
      <3>2. CASE d = p
        <4>1. OwnInv(u)
          BY DEF LockInv, Others
        <4>2. forUpdate[u] # {} => forUpdate[u] = {req[u].page} /\ rows[req[u].page] # NoRow
          BY <4>1 DEF OwnInv, Held
        <4>3. QED
          BY <2>1, <3>2, <4>2
      <3>3. QED
        BY <3>1, <3>2
    <2>10. CanBeAt("commit", req[t].op) /\ "commit" \in Steps \ {"idle", "lock"}
      BY DEF CanBeAt, Steps
    <2>11. keyShare' \in [Tx -> SUBSET Page]
      BY <2>1, <2>3 DEF Refer, Request, LockInv, TypeOK
    <2>12. QED
      BY <2>1, <2>3, <2>6, <2>7, <2>8, <2>9, <2>10, <2>11, WriteKeepsLockInv
  <1>3. QED
    BY <1>1, <1>2

\* The row a handler makes of `current` is a row with the same version and author.
LEMMA NextRowIsRow ==
    ASSUME LockInv, NEW t \in Tx, pc[t] \in {"write", "commit"}, req[t].op # "create"
    PROVE  /\ cur[t] \in Row /\ NextRow(t) \in Row
           /\ NextRow(t).version = cur[t].version /\ NextRow(t).by = cur[t].by
  <1>1. req[t] \in Request /\ req[t].op # "create"
    BY OpenRequest
  <1>2. cur[t] \in Row /\ memo[t] \in Memo
    BY <1>1 DEF LockInv, TypeOK, OwnInv, Held
  <1>3. CASE req[t].op = "move"
    BY <1>1, <1>2, <1>3 DEF NextRow, Row, Request, Memo
  <1>4. CASE req[t].op = "patch"
    BY <1>1, <1>2, <1>4 DEF NextRow, Row, Request, Memo
  <1>5. CASE req[t].op = "delete"
    BY <1>1, <1>2, <1>5 DEF NextRow, Row, Request, Memo
  <1>6. CASE req[t].op = "restore"
    BY <1>1, <1>2, <1>6 DEF NextRow, Row, Request, Memo
  <1>7. QED
    BY <1>1, <1>3, <1>4, <1>5, <1>6 DEF Request, AllOps

\* update_page: the row is locked by this transaction.
LEMMA WriteRowKeepsLockInv ==
    ASSUME LockInv, NEW t \in Tx, Write(t)
    PROVE  LockInv'
  <1>1. CASE Return(t)
    BY <1>1, ReturnKeepsLockInv
  <1>2. CASE ~Return(t)
    <2> DEFINE p == req[t].page
               new == NextRow(t)
               referred == IF new.parent = cur[t].parent THEN NoPage ELSE new.parent
               v == rows[p].version + 1
               row == [new EXCEPT !.version = v]
               w == [wrote[t] EXCEPT ![p] = row]
    <2>1. /\ pc[t] = "write" /\ Goto(t, "commit") /\ new # cur[t] /\ Refer(t, referred)
          /\ wrote' = [wrote EXCEPT ![t][p] = row]
          /\ UNCHANGED <<rows, history, req, cur, memo, forUpdate, advisory, started>>
      BY <1>2 DEF Write, At
    <2>2. /\ cur[t] \in Row /\ new \in Row /\ new.version = cur[t].version /\ new.by = cur[t].by
      BY <2>1, OpenRequest, NextRowIsRow DEF CanBeAt
    <2>3. req[t] \in Request /\ req[t].op # "create"
      BY <2>1, OpenRequest DEF CanBeAt
    <2>4. cur[t] = rows[p] /\ p \in forUpdate[t] /\ p \in Page /\ wrote[t] \in Rows
      BY <2>2, <2>3, NoRowAssumption DEF LockInv, TypeOK, OwnInv, Held, Request
    <2>5. v \in Nat \ {0}
      BY <2>2, <2>4 DEF Row
    <2>6. referred \in Page \cup {NoPage}
      BY <2>2 DEF Row
    <2> HIDE DEF new, v, referred
    <2>7. row \in Row /\ Diff(cur[t], row) # {}
      BY <2>1, <2>2, <2>5, ChangedRowHasDiff DEF Row
    <2> HIDE DEF row
    <2>8. w \in Rows /\ w[p] = row /\ \A d \in Page : d # p => w[d] = wrote[t][d]
      BY <2>4, <2>7 DEF Rows
    <2>9. wrote' = [wrote EXCEPT ![t] = w]
      BY <2>1 DEF LockInv, TypeOK
    <2> HIDE DEF w
    <2>10. \A d \in Page : wrote[t][d] # NoRow => w[d] # NoRow
      BY <2>7, <2>8, NoRowAssumption
    <2>11. \A u \in Others(t), d \in Page : w[d] # NoRow => d \notin forUpdate[u]
      BY <2>4, <2>8, WritableIsFree
    <2>12. CanBeAt("commit", req[t].op) /\ "commit" \in Steps \ {"idle", "lock"}
      BY DEF CanBeAt, Steps
    <2>13. keyShare' \in [Tx -> SUBSET Page]
      BY <2>1, <2>6 DEF Refer, LockInv, TypeOK
    <2>14. req[t].op = "patch" => \A h \in history : Clear(h, req[t])
      BY <2>1 DEF LockInv, OwnInv, Cleared
    <2>15. w[p] # NoRow /\ Diff(cur[t], w[p]) # {}
      BY <2>7, <2>8, NoRowAssumption
    <2>16. QED
      BY <2>1, <2>8, <2>9, <2>10, <2>11, <2>12, <2>13, <2>14, <2>15, WriteKeepsLockInv
  <1>3. QED
    BY <1>1, <1>2
-----------------------------------------------------------------------------
(* The statements that keep what they found. *)

\* service::place: the keys are for siblings that are there.
LEMMA PlaceKeepsLockInv ==
    ASSUME LockInv, NEW t \in Tx, Place(t)
    PROVE  LockInv'
  <1> DEFINE q == memo[t].parent
             v == View(t)
             S == Siblings(v, q, req[t].page)
             n == Cardinality(S)
             i == PlaceOf(t, n)
             KeyOf(s) == LET r == Rank(v, S, s) IN Spread(n + 1, IF r < i THEN r + 1 ELSE r + 2)
             keys == [s \in Page |-> IF s \in S THEN KeyOf(s) ELSE 0]
  <1>1. /\ pc[t] = "place" /\ advisory' = [advisory EXCEPT ![t] = {q}]
        /\ UNCHANGED <<rows, history, req, cur, wrote, forUpdate, keyShare, started>>
    BY DEF Place, PlaceWhen, At
  <1>2. PICK before \in 0 .. MaxKey, after \in 1 .. MaxKey + 1 :
           \/ /\ memo' = [memo EXCEPT ![t].key = Between(before, after)]
              /\ Goto(t, AfterPlace(t))
           \/ /\ memo' = [memo EXCEPT ![t].key = Spread(n + 1, i + 1), ![t].keys = keys]
              /\ Goto(t, "renumber")
    BY DEF Place, PlaceWhen
  <1>3. /\ req[t] \in Request /\ req[t].op \in {"create", "move", "restore"}
        /\ memo[t] \in Memo /\ v \in Rows
    BY <1>1, OpenRequest, ViewIsRows DEF CanBeAt, LockInv, TypeOK
  <1>4. S \subseteq Page /\ \A s \in S : v[s] # NoRow
    BY DEF Siblings, LiveIn, Existing
  <1>5. n \in Nat /\ i \in Nat
    <2>1. n \in Nat
      BY <1>4, PagesCount
    <2>2. QED
      BY <1>3, <2>1 DEF PlaceOf, AtMost, Request
  <1>6. \A s \in S : rows[s] # NoRow \/ wrote[t][s] # NoRow
    BY <1>4 DEF View
  <1> HIDE DEF n, i
  <1>7. ASSUME NEW s \in S
        PROVE  KeyOf(s) \in Nat
    <2>1. Rank(v, S, s) \in Nat
      BY <1>4, PagesCount DEF Rank
    <2> DEFINE x == IF Rank(v, S, s) < i THEN Rank(v, S, s) + 1 ELSE Rank(v, S, s) + 2
    <2>2. x \in Nat /\ n + 1 \in Nat
      BY <1>5, <2>1
    <2> HIDE DEF x
    <2>3. Spread(n + 1, x) \in Nat
      BY <2>2, KeyTypes
    <2>4. QED
      BY <2>3 DEF x
  <1> HIDE DEF S, v, KeyOf
  <1>8. keys \in [Page -> Nat]
    BY <1>4, <1>7
  <1>9. \A d \in Page : keys[d] # 0 => rows[d] # NoRow \/ wrote[t][d] # NoRow
    BY <1>4, <1>6
  <1>10. Between(before, after) \in Nat /\ Spread(n + 1, i + 1) \in Nat
    <2>1. before \in Nat /\ after \in Nat /\ n + 1 \in Nat /\ i + 1 \in Nat
      BY <1>5, KeyAssumption
    <2>2. QED
      BY <2>1, KeyTypes
  <1>11. advisory' \in [Tx -> SUBSET (Page \cup {NoPage})]
    BY <1>1, <1>3 DEF LockInv, TypeOK, Memo
  <1>12. /\ AfterPlace(t) \in Steps \ {"idle", "lock", "commit", "content"}
         /\ CanBeAt(AfterPlace(t), req[t].op) /\ CanBeAt("renumber", req[t].op)
         /\ "renumber" \in Steps \ {"idle", "lock", "commit"}
         /\ AfterPlace(t) = "write" => req[t].op # "patch"
    BY <1>3 DEF AfterPlace, Steps, CanBeAt
  <1>13. /\ \A d \in Page : memo[t].keys[d] # 0 => rows[d] # NoRow \/ wrote[t][d] # NoRow
         /\ \A d \in memo[t].down : rows[d] # NoRow
    BY DEF LockInv, OwnInv, Seen
  <1> HIDE DEF keys
  <1>14. CASE Goto(t, AfterPlace(t)) /\ memo' = [memo EXCEPT ![t].key = Between(before, after)]
    <2> DEFINE m == [memo[t] EXCEPT !.key = Between(before, after)]
    <2>1. m \in Memo /\ memo' = [memo EXCEPT ![t] = m] /\ m.keys = memo[t].keys /\ m.down = memo[t].down
      BY <1>3, <1>10, <1>14 DEF Memo
    <2>2. /\ \A d \in Page : m.keys[d] # 0 => rows[d] # NoRow \/ wrote[t][d] # NoRow
          /\ \A d \in m.down : rows[d] # NoRow
      BY <1>13, <2>1
    <2> HIDE DEF m
    <2> DEFINE s == AfterPlace(t)
    <2>3. /\ s \in Steps \ {"idle", "lock", "commit"} /\ CanBeAt(s, req[t].op) /\ Goto(t, s)
          /\ ~(s \in {"content", "write"} /\ req[t].op = "patch")
      BY <1>12, <1>14
    <2> HIDE DEF s
    <2>4. QED
      BY <1>1, <1>11, <2>1, <2>2, <2>3, ReadKeepsLockInv
  <1>15. CASE /\ Goto(t, "renumber")
              /\ memo' = [memo EXCEPT ![t].key = Spread(n + 1, i + 1), ![t].keys = keys]
    <2> DEFINE m == [memo[t] EXCEPT !.key = Spread(n + 1, i + 1), !.keys = keys]
    <2>1. m \in Memo /\ memo' = [memo EXCEPT ![t] = m] /\ m.keys = keys /\ m.down = memo[t].down
      BY <1>3, <1>8, <1>10, <1>15 DEF Memo
    <2>2. /\ \A d \in Page : m.keys[d] # 0 => rows[d] # NoRow \/ wrote[t][d] # NoRow
          /\ \A d \in m.down : rows[d] # NoRow
      BY <1>9, <1>13, <2>1
    <2> HIDE DEF m
    <2>3. QED
      BY <1>1, <1>11, <1>12, <1>15, <2>1, <2>2, ReadKeepsLockInv
  <1>16. QED
    BY <1>2, <1>14, <1>15

\* A statement that keeps the pages it found, which are there.
LEMMA FoundKeepsLockInv ==
    ASSUME LockInv, NEW t \in Tx, NEW s \in {"trash", "reviveDown"},
           pc[t] \notin {"idle", "lock"}, Goto(t, s), CanBeAt(s, req[t].op),
           NEW D \in SUBSET Existing(rows), memo' = [memo EXCEPT ![t].down = D],
           UNCHANGED <<rows, history, req, cur, wrote, locks, started>>
    PROVE  LockInv'
  <1> DEFINE m == [memo[t] EXCEPT !.down = D]
  <1>1. memo[t] \in Memo /\ D \subseteq Page /\ \A d \in D : rows[d] # NoRow
    BY DEF LockInv, TypeOK, Existing
  <1>2. m \in Memo /\ memo' = [memo EXCEPT ![t] = m] /\ m.keys = memo[t].keys /\ m.down = D
    BY <1>1 DEF Memo
  <1>3. \A d \in Page : memo[t].keys[d] # 0 => rows[d] # NoRow \/ wrote[t][d] # NoRow
    BY DEF LockInv, OwnInv, Seen
  <1>4. /\ \A d \in Page : m.keys[d] # 0 => rows[d] # NoRow \/ wrote[t][d] # NoRow
        /\ \A d \in m.down : rows[d] # NoRow
    BY <1>1, <1>2, <1>3
  <1>5. advisory' \in [Tx -> SUBSET (Page \cup {NoPage})]
    BY DEF LockInv, TypeOK, locks
  <1>6. s \in Steps \ {"idle", "lock", "commit"} /\ s \notin {"content", "write"}
    BY DEF Steps
  <1> HIDE DEF m
  <1>7. QED
    BY <1>2, <1>4, <1>5, <1>6, ReadKeepsLockInv DEF locks

\* The queries of trash_descendants and of restore_descendants, and parent_alive.
LEMMA FindsKeepLockInv ==
    ASSUME LockInv, NEW t \in Tx, FindDown(t) \/ CheckAlive(t) \/ FindTrashed(t)
    PROVE  LockInv'
  <1>1. CASE FindDown(t)
    <2> DEFINE D == LiveUnder(ParentIn(rows), LiveIn(rows), req[t].page)
    <2>1. D \subseteq LiveIn(rows)
      <3>1. ClosedDown(ParentIn(rows), LiveIn(rows), req[t].page, LiveIn(rows))
        BY DEF ClosedDown
      <3>2. LiveIn(rows) \in SUBSET Page
        BY DEF LiveIn, Existing
      <3>3. QED
        BY <3>1, <3>2 DEF LiveUnder
    <2>2. D \subseteq Existing(rows)
      BY <2>1 DEF LiveIn
    <2> HIDE DEF D
    <2>3. CanBeAt("trash", req[t].op)
      BY <1>1, OpenRequest DEF FindDown, At, CanBeAt
    <2>4. /\ pc[t] = "down" /\ Goto(t, "trash") /\ memo' = [memo EXCEPT ![t].down = D]
          /\ UNCHANGED <<rows, history, req, cur, wrote, locks, started>>
      BY <1>1 DEF FindDown, At, D
    <2>5. QED
      BY <2>2, <2>3, <2>4, FoundKeepsLockInv
  <1>2. CASE FindTrashed(t)
    <2> DEFINE D == {d \in Existing(rows) \ {req[t].page} : rows[d].root = req[t].page}
    <2>1. D \subseteq Existing(rows)
      OBVIOUS
    <2> HIDE DEF D
    <2>2. CanBeAt("reviveDown", req[t].op)
      BY <1>2, OpenRequest DEF FindTrashed, At, CanBeAt
    <2>3. /\ pc[t] = "revive" /\ Goto(t, "reviveDown") /\ memo' = [memo EXCEPT ![t].down = D]
          /\ UNCHANGED <<rows, history, req, cur, wrote, locks, started>>
      BY <1>2 DEF FindTrashed, At, D
    <2>4. QED
      BY <2>1, <2>2, <2>3, FoundKeepsLockInv
  <1>3. CASE CheckAlive(t)
    <2> DEFINE alive == cur[t].parent = NoPage \/ cur[t].parent \in LiveIn(rows)
               q == IF alive THEN cur[t].parent ELSE NoPage
               k == IF alive THEN cur[t].pos ELSE 0
               m == [memo[t] EXCEPT !.parent = q, !.key = k]
               s == IF alive THEN "revive" ELSE "place"
    <2>1. /\ pc[t] = "alive" /\ Goto(t, s) /\ memo' = [memo EXCEPT ![t].parent = q, ![t].key = k]
          /\ UNCHANGED <<rows, history, req, cur, wrote, locks, started>>
      BY <1>3 DEF CheckAlive, At
    <2>2. /\ CanBeAt(s, req[t].op) /\ s \in Steps \ {"idle", "lock", "commit"}
          /\ s \notin {"content", "write"}
      BY <2>1, OpenRequest DEF CanBeAt, Steps
    <2>3. cur[t] \in Row /\ memo[t] \in Memo
      BY <2>1, OpenRequest DEF CanBeAt, LockInv, TypeOK, OwnInv, Held
    <2>4. q \in Page \cup {NoPage} /\ k \in Nat
      BY <2>3 DEF Row
    <2> HIDE DEF alive, q, k, s
    <2>5. m \in Memo /\ memo' = [memo EXCEPT ![t] = m] /\ m.keys = memo[t].keys /\ m.down = memo[t].down
      BY <2>1, <2>3, <2>4 DEF Memo
    <2>6. /\ \A d \in Page : m.keys[d] # 0 => rows[d] # NoRow \/ wrote[t][d] # NoRow
          /\ \A d \in m.down : rows[d] # NoRow
      BY <2>5 DEF LockInv, OwnInv, Seen
    <2>7. advisory' \in [Tx -> SUBSET (Page \cup {NoPage})]
      BY <2>1 DEF LockInv, TypeOK, locks
    <2> HIDE DEF m
    <2>8. QED
      BY <2>1, <2>2, <2>5, <2>6, <2>7, ReadKeepsLockInv DEF locks
  <1>4. QED
    BY <1>1, <1>2, <1>3
-----------------------------------------------------------------------------
(* The start, the lock and the commit of a transaction. *)

LEMMA BeginKeepsLockInv ==
    ASSUME LockInv, NEW t \in Tx, Begin(t)
    PROVE  LockInv'
  <1>1. PICK r \in [op : Ops, page : Page, parent : Page \cup {NoPage}, index : 0 .. Cardinality(Page),
                    base : 0 .. MaxRequests + 2, title : Title \cup {Unset}, type : Types \cup {Unset},
                    by : User] :
           /\ r.op # "create" => rows[r.page] # NoRow
           /\ req' = [req EXCEPT ![t] = r]
           /\ memo' = [memo EXCEPT ![t].parent = r.parent]
           /\ Goto(t, IF r.op = "create" THEN "exists" ELSE "lock")
    BY DEF Begin
  <1>2. /\ pc[t] = "idle" /\ started' = started + 1
        /\ UNCHANGED <<rows, history, cur, wrote, forUpdate, keyShare, advisory>>
    BY DEF Begin, At, locks
  <1>3. r \in Request
    <2>1. \A x \in 0 .. Cardinality(Page) : x \in Nat
      BY PagesCount
    <2>2. \A x \in 0 .. MaxRequests + 2 : x \in Nat
      BY RequestAssumption
    <2>3. QED
      BY <1>1, <2>1, <2>2, RequestAssumption DEF Request
  <1> DEFINE s == IF r.op = "create" THEN "exists" ELSE "lock"
             m == [memo[t] EXCEPT !.parent = r.parent]
  <1>4. m \in Memo /\ memo' = [memo EXCEPT ![t] = m] /\ m.keys = memo[t].keys /\ m.down = memo[t].down
    <2>1. memo[t] \in Memo
      BY DEF LockInv, TypeOK
    <2>2. r.parent \in Page \cup {NoPage}
      BY <1>3 DEF Request
    <2>3. m \in Memo /\ m.keys = memo[t].keys /\ m.down = memo[t].down
      BY <2>1, <2>2 DEF Memo
    <2> QED
      BY <1>1, <2>3
  <1> HIDE DEF m
  <1>5. TypeOK'
    <2>1. s \in Steps /\ pc' = [pc EXCEPT ![t] = s]
      BY <1>1 DEF Goto, Steps
    <2>2. TypeOK
      BY DEF LockInv
    <2>3. /\ pc' \in [Tx -> Steps] /\ req' \in [Tx -> Request \cup {NoRow}]
          /\ memo' \in [Tx -> Memo]
      BY <1>1, <1>3, <1>4, <2>1, <2>2 DEF TypeOK
    <2>4. started' \in Nat
      BY <1>2, <2>2 DEF TypeOK
    <2> QED
      BY <1>2, <2>2, <2>3, <2>4 DEF TypeOK
  <1>6. ASSUME NEW u \in Tx
        PROVE  OwnInv(u)'
    <2>1. OwnInv(u)
      BY DEF LockInv
    <2>2. CASE u = t
      <3>1. /\ pc'[t] = s /\ req'[t] = r /\ memo'[t] = m
        BY <1>1, <1>4 DEF LockInv, TypeOK, Goto
      <3>2. cur[t] = NoRow /\ forUpdate[t] = {}
        BY <1>2, <2>1, <2>2 DEF OwnInv, Held
      <3>3. Control(t)' /\ Held(t)'
        BY <1>2, <1>3, <3>1, <3>2 DEF Control, CanBeAt, Held
      <3>4. Seen(t)'
        BY <1>1, <1>2, <1>4, <2>1, <2>2, <3>1 DEF Seen, OwnInv
      <3>5. Ready(t)' /\ Cleared(t)'
        BY <3>1 DEF Ready, Cleared
      <3>6. QED
        BY <2>2, <3>3, <3>4, <3>5 DEF OwnInv
    <2>3. CASE u # t
      <3>1. pc'[u] = pc[u] /\ req'[u] = req[u] /\ memo'[u] = memo[u]
        BY <1>1, <2>3 DEF LockInv, TypeOK, Goto
      <3>2. QED
        BY <1>2, <2>1, <3>1 DEF OwnInv, Control, Held, Seen, Ready, Cleared, Clear
    <2>4. QED
      BY <2>2, <2>3
  <1>7. ASSUME NEW u \in Tx, NEW w \in Tx
        PROVE  Exclusive(u, w)'
    BY <1>2 DEF LockInv, Exclusive
  <1>8. QED
    BY <1>5, <1>6, <1>7 DEF LockInv

\* repo::lock takes the lock when no other transaction has it or has written the row.
LEMMA LockKeepsLockInv ==
    ASSUME LockInv, NEW t \in Tx, Lock(t)
    PROVE  LockInv'
  <1>1. CASE Return(t)
    BY <1>1, ReturnKeepsLockInv
  <1>2. CASE ~Return(t)
    <2> DEFINE p == req[t].page
               op == req[t].op
               s == CASE op = "move" -> IF req[t].parent = NoPage THEN "height" ELSE "parent"
                      [] op = "patch" -> "conflicts"
                      [] op = "delete" -> "down"
                      [] op = "restore" -> "alive"
    <2>1. /\ pc[t] = "lock" /\ CanLock(t, p) /\ Goto(t, s)
          /\ cur' = [cur EXCEPT ![t] = rows[p]]
          /\ forUpdate' = [forUpdate EXCEPT ![t] = {p}]
          /\ UNCHANGED <<rows, history, req, memo, wrote, keyShare, advisory, started>>
      BY <1>2 DEF Lock, At
    <2>2. OwnInv(t) /\ req[t] \in Request /\ op # "create"
      BY <2>1, OpenRequest DEF CanBeAt, LockInv
    <2>3. p \in Page /\ rows[p] \in Row /\ rows[p] # NoRow
      BY <2>1, <2>2, NoRowAssumption DEF OwnInv, Seen, Request, LockInv, TypeOK, Rows
    <2>4. s \in {"height", "parent", "conflicts", "down", "alive"} /\ CanBeAt(s, op)
      BY <2>2 DEF Request, AllOps, CanBeAt
    <2> HIDE DEF s
    <2>5. TypeOK'
      BY <2>1, <2>3, <2>4 DEF LockInv, TypeOK, Goto, Steps
    <2>6. ASSUME NEW u \in Tx
          PROVE  OwnInv(u)'
      <3>1. CASE u = t
        <4>1. pc'[t] = s /\ cur'[t] = rows[p] /\ forUpdate'[t] = {p}
          BY <2>1 DEF LockInv, TypeOK, Goto
        <4>2. Control(t)' /\ Held(t)'
          BY <2>1, <2>2, <2>3, <2>4, <4>1 DEF Control, Held
        <4>3. Seen(t)' /\ Ready(t)' /\ Cleared(t)'
          BY <2>1, <2>2, <2>4, <4>1 DEF OwnInv, Seen, Ready, Cleared
        <4>4. QED
          BY <3>1, <4>2, <4>3 DEF OwnInv
      <3>2. CASE u # t
        <4>1. OwnInv(u) /\ pc'[u] = pc[u] /\ cur'[u] = cur[u] /\ forUpdate'[u] = forUpdate[u]
          BY <2>1, <3>2 DEF LockInv, TypeOK, Goto
        <4>2. QED
          BY <2>1, <4>1 DEF OwnInv, Control, Held, Seen, Ready, Cleared, Clear
      <3>3. QED
        BY <3>1, <3>2
    <2>7. ASSUME NEW u \in Tx, NEW w \in Tx
          PROVE  Exclusive(u, w)'
      <3>1. Exclusive(u, w) /\ wrote' = wrote
        BY <2>1 DEF LockInv
      <3>2. CASE u = t
        BY <2>1, <2>3, <3>1, <3>2 DEF Exclusive, CanLock, Others, Written, LockInv, TypeOK
      <3>3. CASE u # t /\ w = t
        BY <2>1, <3>1, <3>3 DEF Exclusive, CanLock, Others, LockInv, TypeOK
      <3>4. CASE u # t /\ w # t
        BY <2>1, <3>1, <3>4 DEF Exclusive, LockInv, TypeOK
      <3>5. QED
        BY <3>2, <3>3, <3>4
    <2>8. QED
      BY <2>5, <2>6, <2>7 DEF LockInv
  <1>3. QED
    BY <1>1, <1>2

\* A commit writes rows no other transaction has locked.
LEMMA CommitKeepsLockInv ==
    ASSUME LockInv, NEW t \in Tx, Commit(t)
    PROVE  LockInv'
  <1> DEFINE p == req[t].page
             h == [page |-> p, version |-> wrote[t][p].version, fields |-> Diff(cur[t], wrote[t][p])]
  <1>1. /\ pc[t] = "commit" /\ rows' = View(t) /\ End(t) /\ started' = started
        /\ history' = IF req[t].op = "create" THEN history ELSE history \cup {h}
    BY DEF Commit, At
  <1>2. OwnInv(t) /\ req[t] \in Request /\ wrote[t] \in Rows
    BY <1>1, OpenRequest DEF LockInv, TypeOK
  <1>3. wrote[t][p] \in Row /\ p \in Page
    BY <1>1, <1>2 DEF OwnInv, Ready, Request, Rows
  <1>4. req[t].op # "create" => h \in Change
    <2>1. Diff(cur[t], wrote[t][p]) \subseteq Fields
      BY DEF Diff
    <2>2. req[t].op # "create" => Diff(cur[t], wrote[t][p]) # {}
      BY <1>1, <1>2 DEF OwnInv, Ready
    <2>3. wrote[t][p].version \in Nat \ {0}
      BY <1>3 DEF Row
    <2> DEFINE f == Diff(cur[t], wrote[t][p])
    <2> HIDE DEF f
    <2>4. req[t].op # "create" => f \in (SUBSET Fields) \ {{}}
      BY <2>1, <2>2 DEF f
    <2>5. QED
      BY <1>3, <2>3, <2>4 DEF Change, f
  <1>5. req[t].op # "create" => p \in forUpdate[t]
    BY <1>1, <1>2 DEF OwnInv, Held
  <1> HIDE DEF h
  <1>6. EmptyMemo \in Memo /\ NoRows \in Rows /\ rows' \in Rows
    BY <1>1, ViewIsRows DEF LockInv, EmptyMemo, Memo, NoRows, Rows, NoPage
  <1>7. TypeOK'
    BY <1>1, <1>4, <1>6 DEF LockInv, TypeOK, End, Goto, Steps
  <1>8. ASSUME NEW u \in Tx
        PROVE  OwnInv(u)'
    <2>1. CASE u = t
      BY <1>1, <2>1 DEF LockInv, TypeOK, End, Goto, EmptyMemo, OwnInv, Control, CanBeAt, Held, Seen,
                        Ready, Cleared
    <2>2. CASE u # t
      <3>1. OwnInv(u) /\ Exclusive(u, t)
        BY DEF LockInv
      <3>2. /\ pc'[u] = pc[u] /\ req'[u] = req[u] /\ cur'[u] = cur[u] /\ memo'[u] = memo[u]
            /\ wrote'[u] = wrote[u] /\ forUpdate'[u] = forUpdate[u]
        BY <1>1, <2>2 DEF LockInv, TypeOK, End, Goto
      <3>3. \A d \in Page : /\ rows[d] # NoRow => rows'[d] # NoRow
                            /\ d \in forUpdate[u] => rows'[d] = rows[d]
        BY <1>1, <2>2, <3>1 DEF View, Exclusive
      <3>4. pc[u] # "idle" => req[u].page \in Page
        BY <3>1 DEF OwnInv, Held, Request
      <3>5. Control(u)' /\ Ready(u)'
        BY <3>1, <3>2 DEF OwnInv, Control, Ready
      <3>6. Held(u)'
        BY <3>1, <3>2, <3>3, <3>4 DEF OwnInv, Held
      <3>7. Seen(u)'
        BY <3>1, <3>2, <3>3, <3>4 DEF OwnInv, Seen, LockInv, TypeOK, Memo
      <3>8. Cleared(u)'
        <4> SUFFICES ASSUME pc[u] \in {"content", "write", "commit"}, req[u].op = "patch",
                            NEW x \in history'
                     PROVE  Clear(x, req[u])
          BY <3>2 DEF Cleared
        <4>1. CASE x \in history
          BY <3>1, <4>1 DEF OwnInv, Cleared
        <4>2. CASE x = h /\ req[t].op # "create"
          <5>1. req[u].page \in forUpdate[u]
            BY <3>1 DEF OwnInv, Held
          <5>2. req[u].page # p
            BY <1>5, <2>2, <3>1, <4>2, <5>1 DEF Exclusive
          <5>3. QED
            BY <4>2, <5>2 DEF Clear, h
        <4>3. QED
          BY <1>1, <4>1, <4>2
      <3>9. QED
        BY <3>5, <3>6, <3>7, <3>8 DEF OwnInv
    <2>3. QED
      BY <2>1, <2>2
  <1>9. ASSUME NEW u \in Tx, NEW w \in Tx
        PROVE  Exclusive(u, w)'
    BY <1>1 DEF LockInv, TypeOK, End, NoRows, Exclusive
  <1>10. QED
    BY <1>7, <1>8, <1>9 DEF LockInv

\* Every step keeps the invariant.
LEMMA NextKeepsLockInv == LockInv /\ [Next]_vars => LockInv'
  <1> SUFFICES ASSUME LockInv, [Next]_vars PROVE LockInv'
    OBVIOUS
  <1>1. CASE UNCHANGED vars
    <2>1. /\ rows' = rows /\ history' = history /\ req' = req /\ pc' = pc /\ cur' = cur
          /\ memo' = memo /\ wrote' = wrote /\ forUpdate' = forUpdate /\ keyShare' = keyShare
          /\ advisory' = advisory /\ started' = started
      BY <1>1 DEF vars
    <2>2. QED
      BY <2>1 DEF LockInv, TypeOK, OwnInv, Control, Held, Seen, Ready, Cleared, Clear, Exclusive
  <1>2. ASSUME NEW t \in Tx, Begin(t) \/ Step(t) \/ Rollback(t)
        PROVE  LockInv'
    <2>1. CASE Begin(t)
      BY <2>1, BeginKeepsLockInv
    <2>2. CASE Rollback(t)
      BY <2>2, ReturnKeepsLockInv DEF Rollback
    <2>3. CASE Lock(t)
      BY <2>3, LockKeepsLockInv
    <2>4. CASE Exists(t) \/ CheckParent(t) \/ CheckPath(t) \/ CheckHeight(t) \/ CheckSamePlace(t)
      BY <2>4, ChecksKeepLockInv
    <2>5. CASE Place(t)
      BY <2>5, PlaceKeepsLockInv
    <2>6. CASE Renumber(t)
      BY <2>6, RenumberKeepsLockInv
    <2>7. CASE Insert(t)
      BY <2>7, InsertKeepsLockInv
    <2>8. CASE CheckConflicts(t) \/ CheckContent(t)
      BY <2>8, ConflictsKeepLockInv
    <2>9. CASE FindDown(t) \/ CheckAlive(t) \/ FindTrashed(t)
      BY <2>9, FindsKeepLockInv
    <2>10. CASE TrashDown(t)
      BY <2>10, TrashDownKeepsLockInv
    <2>11. CASE ReviveDown(t)
      BY <2>11, ReviveDownKeepsLockInv
    <2>12. CASE Write(t)
      BY <2>12, WriteRowKeepsLockInv
    <2>13. CASE Commit(t)
      BY <2>13, CommitKeepsLockInv
    <2>14. QED
      BY <1>2, <2>1, <2>2, <2>3, <2>4, <2>5, <2>6, <2>7, <2>8, <2>9, <2>10, <2>11, <2>12, <2>13 DEF Step
  <1>3. QED
    BY <1>1, <1>2 DEF Next
-----------------------------------------------------------------------------
(* What FOR UPDATE gives. *)

\* In every state: who holds what, and that what was read under a lock is still so.
THEOREM LocksHold == Spec => []LockInv
  BY InitLockInv, NextKeepsLockInv, PTL DEF Spec

\* The types of the rows, of the history and of what the handlers keep: a row written from
\* `current`, from a body and from a key of place is a row, a change recorded at a commit has a field.
THEOREM TransactionsAreTyped == Spec => []TypeOK
  <1>1. LockInv => TypeOK
    BY DEF LockInv
  <1>2. QED
    BY <1>1, LocksHold, PTL

\* From repo::lock to the end of its transaction, the row a handler works from is the row in the
\* table: update_page, which writes every field, loses no committed change.
THEOREM LockedRowIsCurrent == Spec => []CurrentIsCommitted
  <1>1. LockInv => CurrentIsCommitted
    <2> SUFFICES ASSUME LockInv, NEW t \in Tx, cur[t] # NoRow
                 PROVE  rows[req[t].page] = cur[t]
      BY DEF CurrentIsCommitted
    <2>1. QED
      BY DEF LockInv, OwnInv, Held
  <1>2. QED
    BY <1>1, LocksHold, PTL

\* The field contract of check_conflicts: an edit that commits overwrites no change of its fields
\* newer than the version its author sent.
THEOREM EditsOverwriteNothingUnseen == Spec => NoUnseenOverwrite
  <1> DEFINE A == \A t \in Tx : Commit(t) /\ req[t].op = "patch" =>
                    \A h \in history :
                      h.page = req[t].page /\ h.version > req[t].base =>
                         /\ "title" \in h.fields => req[t].title = Unset
                         /\ "type" \in h.fields => req[t].type = Unset
  <1>1. LockInv /\ [Next]_vars => [A]_vars
    <2> SUFFICES ASSUME LockInv, NEW t \in Tx, Commit(t), req[t].op = "patch"
                 PROVE  \A h \in history : Clear(h, req[t])
      BY DEF Clear
    <2>1. pc[t] = "commit" /\ Cleared(t)
      BY DEF LockInv, OwnInv, Commit, At
    <2>2. QED
      BY <2>1 DEF Cleared
  <1>2. QED
    BY <1>1, LocksHold, PTL DEF Spec, NoUnseenOverwrite
-----------------------------------------------------------------------------
(* Places and keys. *)

\* A key between two others is above the first.
LEMMA BetweenIsAbove ==
    ASSUME NEW a \in Nat, NEW b \in Nat, Between(a, b) # 0
    PROVE  Between(a, b) > a
  BY DEF Between

\* A divisor apart, two quotients differ.
LEMMA QuotientGrows ==
    ASSUME NEW x \in Nat, NEW y \in Nat, NEW d \in Nat \ {0}, y >= x + d
    PROVE  x \div d < y \div d
  OBVIOUS

\* While there are as many keys as places the keys of spread grow: no two are equal.
LEMMA SpreadGrows ==
    ASSUME NEW count \in Nat, count <= MaxKey, NEW i \in Nat, NEW j \in Nat, i < j
    PROVE  Spread(count, i) < Spread(count, j)
  <1> DEFINE m == MaxKey + 1
             d == count + 1
  <1>1. m \in Nat /\ d \in Nat \ {0} /\ d <= m
    BY KeyAssumption
  <1> HIDE DEF m, d
  <1>2. i * m \in Nat /\ j * m \in Nat /\ j * m >= i * m + m
    <2>1. PICK k \in Nat : j = i + 1 + k
      <3>1. j - i - 1 \in Nat /\ j = i + 1 + (j - i - 1)
        OBVIOUS
      <3>2. QED
        BY <3>1
    <2>2. j * m = i * m + m + k * m /\ k * m \in Nat /\ i * m \in Nat
      BY <1>1, <2>1
    <2>3. QED
      BY <1>1, <2>2
  <1>3. (i * m) \div d < (j * m) \div d
    <2> DEFINE x == i * m
               y == j * m
    <2>1. x \in Nat /\ y \in Nat /\ y >= x + d
      BY <1>1, <1>2
    <2> HIDE DEF x, y
    <2>2. x \div d < y \div d
      BY <1>1, <2>1, QuotientGrows
    <2>3. QED
      BY <2>2 DEF x, y
  <1>4. QED
    BY <1>3 DEF Spread, m, d

\* Pages come one before the other, and their ranks with them.
LEMMA RankGrows ==
    ASSUME NEW v \in Rows, NEW S \in SUBSET Page, \A s \in S : v[s] # NoRow,
           NEW a \in S, NEW b \in S, Before(v, a, b)
    PROVE  Rank(v, S, a) < Rank(v, S, b)
  <1> DEFINE A == {s \in S : Before(v, s, a)}
             B == {s \in S : Before(v, s, b)}
  <1>1. \A s \in S : v[s].pos \in Nat /\ s \in Nat
    BY PageAssumption DEF Rows, Row
  <1>2. A \subseteq B /\ a \in B /\ a \notin A
    BY <1>1 DEF Before
  <1>3. IsFiniteSet(B) /\ B \subseteq Page
    BY KeyAssumption, FS_Subset
  <1> HIDE DEF A, B
  <1>4. /\ Cardinality(A) <= Cardinality(B)
        /\ Cardinality(A) = Cardinality(B) => B = A
        /\ Cardinality(A) \in Nat /\ Cardinality(B) \in Nat
    BY <1>2, <1>3, FS_Subset, PagesCount
  <1>5. Cardinality(A) < Cardinality(B)
    BY <1>2, <1>4
  <1>6. QED
    BY <1>5 DEF Rank, A, B

\* Two pages have two ranks.
LEMMA RanksDiffer ==
    ASSUME NEW v \in Rows, NEW S \in SUBSET Page, \A s \in S : v[s] # NoRow,
           NEW a \in S, NEW b \in S, a # b
    PROVE  Rank(v, S, a) # Rank(v, S, b)
  <1>1. v[a].pos \in Nat /\ v[b].pos \in Nat /\ a \in Nat /\ b \in Nat
    BY PageAssumption DEF Rows, Row
  <1>2. Before(v, a, b) \/ Before(v, b, a)
    BY <1>1 DEF Before
  <1>3. Rank(v, S, a) \in Nat /\ Rank(v, S, b) \in Nat
    BY PagesCount DEF Rank
  <1>4. Before(v, a, b) => Rank(v, S, a) < Rank(v, S, b)
    BY RankGrows
  <1>5. Before(v, b, a) => Rank(v, S, b) < Rank(v, S, a)
    BY RankGrows
  <1>6. QED
    BY <1>2, <1>3, <1>4, <1>5

\* The page with all the others before it has the highest key.
LEMMA LastHasHighestKey ==
    ASSUME NEW v \in Rows, NEW S \in SUBSET Page, \A s \in S : v[s] # NoRow,
           NEW a \in S, Rank(v, S, a) + 1 = Cardinality(S), NEW b \in S
    PROVE  v[b].pos <= v[a].pos
  <1> DEFINE A == {s \in S : Before(v, s, a)}
  <1>1. \A s \in S : v[s].pos \in Nat
    BY DEF Rows, Row
  <1>2. A \subseteq S \ {a}
    BY <1>1, PageAssumption DEF Before
  <1>3. IsFiniteSet(S) /\ Cardinality(S) \in Nat /\ Cardinality(A) \in Nat
    BY KeyAssumption, FS_Subset, PagesCount
  <1>4. IsFiniteSet(S \ {a}) /\ Cardinality(S \ {a}) = Cardinality(S) - 1
    BY <1>3, FS_RemoveElement
  <1>5. Cardinality(A) = Cardinality(S) - 1
    BY <1>3 DEF Rank
  <1> HIDE DEF A
  <1>6. A = S \ {a}
    BY <1>2, <1>4, <1>5, FS_Subset
  <1>7. CASE b = a
    BY <1>1, <1>7
  <1>8. CASE b # a
    <2>1. Before(v, b, a)
      BY <1>6, <1>8 DEF A
    <2>2. QED
      BY <1>1, <2>1 DEF Before
  <1>9. QED
    BY <1>7, <1>8
-----------------------------------------------------------------------------
(* What a transaction may write: the invariant. *)

\* Statements before the first write of their transaction.
Reading == {"lock", "exists", "parent", "path", "height", "samePlace", "place", "renumber",
            "conflicts", "content", "down", "trash", "alive"}

\* The memory of an open transaction is not about its own page.
Remembers(t) ==
    IF pc[t] = "idle" THEN memo[t] = EmptyMemo
    ELSE /\ req[t].page \notin memo[t].down
         /\ memo[t].keys[req[t].page] = 0
         /\ req[t].op \in {"create", "move"} => memo[t].parent = req[t].parent

\* What place, trash_descendants and restore_descendants leave of another page's row.
Kept(t, c) ==
    LET w == wrote[t][c]
        r == rows[c]
    IN  /\ r # NoRow
        /\ w.title = r.title /\ w.type = r.type /\ w.parent = r.parent /\ w.by = r.by
        /\ \/ w.root = r.root /\ w.version = r.version
           \/ req[t].op = "delete" /\ w.root = req[t].page /\ w.version = r.version + 1
           \/ req[t].op = "restore" /\ w.root = NoPage /\ w.version = r.version + 1

\* Its own page is written last, and the others' rows keep what is not asked for.
Writes(t) ==
    /\ pc[t] \in Reading \cup {"idle"} => wrote[t] = NoRows
    /\ pc[t] \notin {"idle", "commit"} => wrote[t][req[t].page] = NoRow
    /\ \A c \in Page : wrote[t][c] # NoRow /\ c # req[t].page => Kept(t, c)
    /\ pc[t] \in {"revive", "reviveDown"} =>
         \A c \in Page : wrote[t][c] # NoRow => wrote[t][c].version = rows[c].version

\* The row of the request as it is committed; its new parent is locked against a delete.
Final(t) ==
    LET p == req[t].page
        w == wrote[t][p]
    IN  pc[t] = "commit" =>
        IF req[t].op = "create"
        THEN /\ rows[p] = NoRow
             /\ w.parent = req[t].parent /\ w.root = NoPage
             /\ w.version = 1 /\ w.pos = memo[t].key
             /\ w.parent \in keyShare[t] \cup {NoPage}
        ELSE LET new == NextRow(t) IN
             /\ w.parent = new.parent /\ w.pos = new.pos /\ w.title = new.title
             /\ w.type = new.type /\ w.root = new.root /\ w.by = new.by
             /\ w.version = cur[t].version + 1
             /\ w.parent # cur[t].parent => w.parent \in keyShare[t] \cup {NoPage}

\* The row of a live page that was not changed since it was created
Fresh(r) == r # NoRow /\ r.root = NoPage /\ r.version = 1
Differ(r, s) == Fresh(r) /\ Fresh(s) /\ r.parent = s.parent => r.pos # s.pos

\* View(t)[c]
Sees(t, c) == IF wrote[t][c] # NoRow THEN wrote[t][c] ELSE rows[c]

\* A new page has its key.
Placed(t) == pc[t] \in {"insert", "commit"} /\ req[t].op = "create"

\* The keys a handler found stay free until its commit: lock_children lets nobody else create
\* under the parent.
Keys(t) ==
    LET q == memo[t].parent
        Rest == Page \ {req[t].page}
    IN  /\ pc[t] # "idle" => \A c, d \in Rest : c # d => Differ(Sees(t, c), Sees(t, d))
        /\ pc[t] = "renumber" \/ Placed(t) => q \in advisory[t]
        /\ \A c \in Rest : Fresh(wrote[t][c]) => wrote[t][c].parent \in advisory[t]
        /\ Placed(t) =>
             \A c \in Rest : Fresh(Sees(t, c)) /\ Sees(t, c).parent = q => Sees(t, c).pos # memo[t].key

\* The new keys, one for each child and one for the page
NewKeys(t) ==
    LET k == memo[t].keys
        Rest == Page \ {req[t].page}
    IN  pc[t] = "renumber" =>
        /\ \A c \in Rest : Fresh(rows[c]) => (k[c] # 0 <=> rows[c].parent = memo[t].parent)
        /\ \A c \in Page : k[c] # 0 => k[c] # memo[t].key
        /\ \A c, d \in Page : k[c] # 0 /\ k[d] # 0 /\ c # d => k[c] # k[d]

OwnRows(t) == Remembers(t) /\ Writes(t) /\ Final(t) /\ Keys(t) /\ NewKeys(t)

\* Two transactions write different rows and hold different locks.
Apart(t, u) ==
    t # u =>
        /\ \A p \in Page : wrote[t][p] = NoRow \/ wrote[u][p] = NoRow
        /\ forUpdate[t] \cap keyShare[u] = {}
        /\ advisory[t] \cap advisory[u] = {}

FreshDiffer == \A c, d \in Page : c # d => Differ(rows[c], rows[d])

RowsInv ==
    /\ LockInv
    /\ FreshDiffer
    /\ \A t \in Tx : OwnRows(t)
    /\ \A t, u \in Tx : Apart(t, u)
-----------------------------------------------------------------------------
(* A step changes nothing of another transaction. *)

Same(u) ==
    /\ pc'[u] = pc[u] /\ req'[u] = req[u] /\ cur'[u] = cur[u] /\ memo'[u] = memo[u]
    /\ wrote'[u] = wrote[u] /\ forUpdate'[u] = forUpdate[u] /\ keyShare'[u] = keyShare[u]
    /\ advisory'[u] = advisory[u]

LEMMA ReturnIsOwn ==
    ASSUME TypeOK, NEW t \in Tx, End(t), NEW u \in Tx, u # t
    PROVE  Same(u)
  BY DEF TypeOK, End, Goto, Same

LEMMA StepsAreOwn ==
    ASSUME TypeOK, NEW t \in Tx, Begin(t) \/ Step(t) \/ Rollback(t), NEW u \in Tx, u # t
    PROVE  Same(u)
  <1>1. CASE End(t)
    BY <1>1, ReturnIsOwn
  <1>2. CASE ~End(t)
    <2>1. CASE Begin(t)
      BY <2>1 DEF Begin, TypeOK, Goto, Same, locks
    <2>2. CASE Rollback(t)
      BY <1>2, <2>2 DEF Rollback, Return
    <2>3. CASE Lock(t)
      BY <1>2, <2>3 DEF Lock, Return, TypeOK, Goto, Same
    <2>4. CASE Exists(t) \/ CheckParent(t) \/ CheckContent(t)
      BY <1>2, <2>4 DEF Exists, CheckParent, CheckContent, Return, TypeOK, Goto, Same, locks
    <2>5. CASE CheckPath(t)
      BY <1>2, <2>5 DEF CheckPath, Return, TypeOK, Goto, Same, locks
    <2>6. CASE CheckHeight(t)
      BY <1>2, <2>6 DEF CheckHeight, Return, TypeOK, Goto, Same, locks
    <2>7. CASE CheckSamePlace(t)
      BY <1>2, <2>7 DEF CheckSamePlace, Return, TypeOK, Goto, Same, locks
    <2>8. CASE Place(t)
      BY <2>8 DEF Place, PlaceWhen, TypeOK, Goto, Same
    <2>9. CASE Renumber(t)
      BY <2>9 DEF Renumber, TypeOK, Goto, Same, locks
    <2>10. CASE Insert(t)
      BY <1>2, <2>10 DEF Insert, Return, Refer, TypeOK, Goto, Same
    <2>11. CASE CheckConflicts(t)
      BY <1>2, <2>11 DEF CheckConflicts, Return, TypeOK, Goto, Same, locks
    <2>12. CASE FindDown(t) \/ CheckAlive(t) \/ FindTrashed(t)
      BY <2>12 DEF FindDown, CheckAlive, FindTrashed, TypeOK, Goto, Same, locks
    <2>13. CASE TrashDown(t)
      BY <2>13 DEF TrashDown, TypeOK, Goto, Same, locks
    <2>14. CASE ReviveDown(t)
      BY <2>14 DEF ReviveDown, TypeOK, Goto, Same, locks
    <2>15. CASE Write(t)
      BY <1>2, <2>15 DEF Write, Return, Refer, TypeOK, Goto, Same
    <2>16. CASE Commit(t)
      BY <1>2, <2>16 DEF Commit
    <2>17. QED
      BY <2>1, <2>2, <2>3, <2>4, <2>5, <2>6, <2>7, <2>8, <2>9, <2>10, <2>11, <2>12, <2>13, <2>14,
         <2>15, <2>16 DEF Step
  <1>3. QED
    BY <1>1, <1>2

\* Only a commit changes the rows.
LEMMA RowsChangeAtCommit ==
    ASSUME NEW t \in Tx, Begin(t) \/ Step(t) \/ Rollback(t), ~Commit(t)
    PROVE  rows' = rows
  <1>1. CASE Begin(t) \/ Rollback(t) \/ Lock(t) \/ Exists(t) \/ CheckParent(t) \/ CheckContent(t)
    BY <1>1 DEF Begin, Rollback, Lock, Exists, CheckParent, CheckContent, Return
  <1>2. CASE CheckPath(t) \/ CheckHeight(t) \/ CheckSamePlace(t) \/ Place(t) \/ CheckConflicts(t)
    BY <1>2 DEF CheckPath, CheckHeight, CheckSamePlace, Place, PlaceWhen, CheckConflicts, Return
  <1>3. CASE Renumber(t) \/ Insert(t) \/ FindDown(t) \/ TrashDown(t) \/ CheckAlive(t) \/ FindTrashed(t)
    BY <1>3 DEF Renumber, Insert, FindDown, TrashDown, CheckAlive, FindTrashed, Return
  <1>4. CASE ReviveDown(t) \/ Write(t)
    BY <1>4 DEF ReviveDown, Write, Return
  <1>5. QED
    BY <1>1, <1>2, <1>3, <1>4 DEF Step

\* A transaction that does nothing keeps its part while the rows stay.
LEMMA SameKeepsOwnRows ==
    ASSUME NEW u \in Tx, OwnRows(u), Same(u), rows' = rows
    PROVE  OwnRows(u)'
  <1>1. Remembers(u)'
    BY DEF OwnRows, Same, Remembers
  <1>2. Writes(u)'
    BY DEF OwnRows, Same, Writes, Kept
  <1>3. Final(u)'
    <2>1. NextRow(u)' = NextRow(u)
      BY DEF Same, NextRow
    <2>2. QED
      BY <2>1 DEF OwnRows, Same, Final
  <1>4. Keys(u)'
    BY DEF OwnRows, Same, Keys, Sees, Placed
  <1>5. NewKeys(u)'
    BY DEF OwnRows, Same, NewKeys
  <1>6. QED
    BY <1>1, <1>2, <1>3, <1>4, <1>5 DEF OwnRows
-----------------------------------------------------------------------------
(* A commit and the others. *)

\* The version of a row that was there is above 1 once it is written again.
LEMMA ChangedIsNotFresh ==
    ASSUME RowsInv, NEW t \in Tx, pc[t] = "commit", req[t].op # "create"
    PROVE  ~Fresh(wrote[t][req[t].page])
  <1> DEFINE p == req[t].page
             w == wrote[t][p]
  <1>1. w.version = cur[t].version + 1 /\ cur[t] \in Row
    <2>1. OwnRows(t) /\ OwnInv(t)
      BY DEF RowsInv, LockInv
    <2>2. cur[t] # NoRow
      BY <2>1 DEF OwnInv, Held
    <2>3. QED
      BY <2>1, <2>2 DEF OwnRows, Final, RowsInv, LockInv, TypeOK
  <1>2. w.version # 1
    BY <1>1 DEF Row
  <1>3. QED
    BY <1>2 DEF Fresh

\* A page that is fresh after a commit which wrote its row is one the commit created, or one its
\* place renumbered: its parent's children were locked.
LEMMA FreshIsUnderLock ==
    ASSUME RowsInv, NEW t \in Tx, pc[t] = "commit", NEW c \in Page, Fresh(wrote[t][c])
    PROVE  wrote[t][c].parent \in advisory[t]
  <1>1. OwnRows(t)
    BY DEF RowsInv
  <1>2. CASE c # req[t].page
    BY <1>1, <1>2 DEF OwnRows, Keys
  <1>3. CASE c = req[t].page
    <2>1. req[t].op = "create"
      BY <1>3, ChangedIsNotFresh
    <2>2. wrote[t][c].parent = req[t].parent
      BY <1>1, <1>3, <2>1 DEF OwnRows, Final
    <2>3. memo[t].parent = req[t].parent
      BY <1>1, <2>1 DEF OwnRows, Remembers
    <2>4. memo[t].parent \in advisory[t]
      BY <1>1, <2>1 DEF OwnRows, Keys, Placed
    <2>5. QED
      BY <2>2, <2>3, <2>4
  <1>4. QED
    BY <1>2, <1>3

\* Under a parent whose children another transaction has locked a commit leaves the fresh pages
\* as they are.
LEMMA LockedChildrenStay ==
    ASSUME RowsInv, NEW t \in Tx, Commit(t), NEW u \in Tx, u # t, NEW c \in Page,
           Fresh(rows'[c]), rows'[c].parent \in advisory[u]
    PROVE  wrote[t][c] = NoRow /\ rows'[c] = rows[c]
  <1>1. pc[t] = "commit" /\ rows'[c] = Sees(t, c)
    BY DEF Commit, At, View, Sees
  <1>2. advisory[t] \cap advisory[u] = {}
    BY DEF RowsInv, Apart
  <1>3. wrote[t][c] = NoRow
    BY <1>1, <1>2, FreshIsUnderLock DEF Sees
  <1>4. QED
    BY <1>1, <1>3 DEF Sees

\* The fresh pages' keys differ after a commit.
LEMMA CommitKeepsFreshDiffer ==
    ASSUME RowsInv, NEW t \in Tx, Commit(t)
    PROVE  FreshDiffer'
  <1> SUFFICES ASSUME NEW c \in Page, NEW d \in Page, c # d, Fresh(rows'[c]), Fresh(rows'[d]),
                      rows'[c].parent = rows'[d].parent
               PROVE  rows'[c].pos # rows'[d].pos
    BY DEF FreshDiffer, Differ
  <1> DEFINE p == req[t].page
  <1>1. pc[t] = "commit" /\ OwnRows(t) /\ \A x \in Page : rows'[x] = Sees(t, x)
    BY DEF RowsInv, Commit, At, View, Sees
  <1>2. CASE c # p /\ d # p
    <2>1. Differ(Sees(t, c), Sees(t, d))
      BY <1>1, <1>2 DEF OwnRows, Keys
    <2>2. QED
      BY <1>1, <2>1 DEF Differ
  <1>3. ASSUME NEW x \in Page, NEW y \in Page, x = p, y # p, Fresh(rows'[x]), Fresh(rows'[y]),
               rows'[x].parent = rows'[y].parent
        PROVE  rows'[x].pos # rows'[y].pos
    <2>1. wrote[t][x] # NoRow /\ rows'[x] = wrote[t][x]
      BY <1>1, <1>3 DEF RowsInv, LockInv, OwnInv, Ready, Sees
    <2>2. req[t].op = "create"
      BY <1>1, <1>3, <2>1, ChangedIsNotFresh
    <2>3. rows'[x].parent = memo[t].parent /\ rows'[x].pos = memo[t].key
      BY <1>1, <1>3, <2>1, <2>2 DEF OwnRows, Final, Remembers
    <2>4. Sees(t, y).pos # memo[t].key
      BY <1>1, <1>3, <2>2, <2>3 DEF OwnRows, Keys, Placed
    <2>5. QED
      BY <1>1, <2>3, <2>4
  <1>4. QED
    BY <1>2, <1>3

\* What another open transaction has written, found and computed stays true.
LEMMA CommitKeepsOthers ==
    ASSUME RowsInv, NEW t \in Tx, Commit(t), NEW u \in Tx, u # t
    PROVE  OwnRows(u)'
  <1> DEFINE p == req[u].page
             q == memo[u].parent
             Rest == Page \ {p}
  <1>1. Same(u) /\ OwnRows(u) /\ OwnInv(u) /\ OwnInv(t) /\ OwnRows(t)
    BY StepsAreOwn DEF RowsInv, LockInv, Step
  <1>2. /\ pc[t] = "commit"
        /\ \A c \in Page : rows'[c] = Sees(t, c)
        /\ \A c \in Page : wrote[u][c] # NoRow => rows'[c] = rows[c]
    BY DEF RowsInv, Apart, Commit, At, View, Sees
  <1>3. Remembers(u)'
    BY <1>1 DEF OwnRows, Same, Remembers
  <1>4. Writes(u)'
    BY <1>1, <1>2 DEF OwnRows, Same, Writes, Kept
  <1>5. pc[u] = "commit" => p \in Page /\ wrote[u][p] # NoRow
    BY <1>1 DEF OwnInv, Ready, Held, Request
  <1>6. Final(u)'
    <2>1. NextRow(u)' = NextRow(u)
      BY <1>1 DEF Same, NextRow
    <2>2. QED
      BY <1>1, <1>2, <1>5, <2>1 DEF OwnRows, Same, Final
  <1>7. \A c \in Page : Sees(u, c)' = IF wrote[u][c] # NoRow THEN wrote[u][c] ELSE rows'[c]
    BY <1>1 DEF Same, Sees
  <1>8. ASSUME NEW c \in Page, Fresh(Sees(u, c)'), Sees(u, c)'.parent \in advisory[u]
        PROVE  Sees(u, c)' = Sees(u, c)
    BY <1>7, <1>8, LockedChildrenStay DEF Sees
  <1>9. Keys(u)'
    <2>1. ASSUME NEW c \in Rest, NEW d \in Rest, c # d, pc[u] # "idle",
                 Fresh(Sees(u, c)'), Fresh(Sees(u, d)'), Sees(u, c)'.parent = Sees(u, d)'.parent
          PROVE  Sees(u, c)'.pos # Sees(u, d)'.pos
      <3>1. CASE Sees(u, c)'.parent \in advisory[u]
        <4>1. Sees(u, c)' = Sees(u, c) /\ Sees(u, d)' = Sees(u, d)
          BY <1>8, <2>1, <3>1
        <4>2. Differ(Sees(u, c), Sees(u, d))
          BY <1>1, <2>1 DEF OwnRows, Keys
        <4>3. QED
          BY <2>1, <4>1, <4>2 DEF Differ
      <3>2. CASE Sees(u, c)'.parent \notin advisory[u]
        <4>1. wrote[u][c] = NoRow /\ wrote[u][d] = NoRow
          BY <1>1, <1>7, <2>1, <3>2 DEF OwnRows, Keys
        <4>2. Differ(rows'[c], rows'[d])
          BY <2>1, CommitKeepsFreshDiffer DEF FreshDiffer
        <4>3. QED
          BY <1>7, <2>1, <4>1, <4>2 DEF Differ
      <3>3. QED
        BY <3>1, <3>2
    <2>2. ASSUME Placed(u), NEW c \in Rest, Fresh(Sees(u, c)'), Sees(u, c)'.parent = q
          PROVE  Sees(u, c)'.pos # memo[u].key
      <3>1. q \in advisory[u]
        BY <1>1, <2>2 DEF OwnRows, Keys
      <3>2. Sees(u, c)' = Sees(u, c)
        BY <1>8, <2>2, <3>1
      <3>3. QED
        BY <1>1, <2>2, <3>2 DEF OwnRows, Keys
    <2>3. QED
      BY <1>1, <2>1, <2>2 DEF OwnRows, Same, Keys, Placed, Differ
  <1>10. NewKeys(u)'
    <2>1. ASSUME NEW c \in Rest, pc[u] = "renumber", Fresh(rows'[c]), rows'[c].parent = q
          PROVE  memo[u].keys[c] # 0
      <3>1. q \in advisory[u]
        BY <1>1, <2>1 DEF OwnRows, Keys
      <3>2. rows'[c] = rows[c]
        BY <2>1, <3>1, LockedChildrenStay
      <3>3. QED
        BY <1>1, <2>1, <3>2 DEF OwnRows, NewKeys
    <2>2. ASSUME NEW c \in Rest, pc[u] = "renumber", Fresh(rows'[c]), memo[u].keys[c] # 0
          PROVE  rows'[c].parent = q
      <3>1. rows[c] # NoRow
        BY <1>1, <2>2 DEF OwnInv, Seen, OwnRows, Writes, Reading, NoRows
      <3>2. CASE wrote[t][c] = NoRow
        BY <1>1, <1>2, <2>2, <3>2 DEF OwnRows, NewKeys, Sees
      <3>3. CASE wrote[t][c] # NoRow
        <4>1. Fresh(wrote[t][c]) /\ rows'[c] = wrote[t][c]
          BY <1>2, <2>2, <3>3 DEF Sees
        <4>2. c # req[t].page
          BY <1>1, <1>2, <3>1, <4>1, ChangedIsNotFresh DEF OwnRows, Final
        <4>3. Kept(t, c)
          BY <1>1, <3>3, <4>2 DEF OwnRows, Writes
        <4>4. rows[c] \in Row
          BY <3>1 DEF RowsInv, LockInv, TypeOK, Rows
        <4>5. Fresh(rows[c]) /\ rows[c].parent = rows'[c].parent
          BY <4>1, <4>3, <4>4 DEF Kept, Fresh, Row
        <4>6. QED
          BY <1>1, <2>2, <4>5 DEF OwnRows, NewKeys
      <3>4. QED
        BY <3>2, <3>3
    <2>3. QED
      BY <1>1, <2>1, <2>2 DEF OwnRows, Same, NewKeys
  <1>11. QED
    BY <1>3, <1>4, <1>6, <1>9, <1>10 DEF OwnRows
-----------------------------------------------------------------------------
(* The transaction's own steps. *)

\* Nothing is left of a transaction that ends.
LEMMA EndKeepsOwnRows ==
    ASSUME TypeOK, NEW t \in Tx, End(t)
    PROVE  OwnRows(t)'
  <1>1. /\ pc'[t] = "idle" /\ wrote'[t] = NoRows /\ memo'[t] = EmptyMemo
    BY DEF TypeOK, End, Goto
  <1>2. Remembers(t)' /\ Final(t)' /\ NewKeys(t)'
    BY <1>1 DEF Remembers, Final, NewKeys
  <1>3. Writes(t)'
    BY <1>1 DEF Writes, NoRows
  <1>4. Keys(t)'
    BY <1>1 DEF Keys, Placed, NoRows, Fresh
  <1>5. QED
    BY <1>2, <1>3, <1>4 DEF OwnRows

\* A request comes with an empty memory.
LEMMA BeginKeepsOwnRows ==
    ASSUME RowsInv, NEW t \in Tx, Begin(t)
    PROVE  OwnRows(t)'
  <1>1. PICK r \in [op : Ops, page : Page, parent : Page \cup {NoPage}, index : 0 .. Cardinality(Page),
                    base : 0 .. MaxRequests + 2, title : Title \cup {Unset}, type : Types \cup {Unset},
                    by : User] :
           /\ req' = [req EXCEPT ![t] = r]
           /\ memo' = [memo EXCEPT ![t].parent = r.parent]
           /\ Goto(t, IF r.op = "create" THEN "exists" ELSE "lock")
    BY DEF Begin
  <1>2. /\ pc[t] = "idle" /\ rows' = rows /\ wrote' = wrote /\ TypeOK /\ OwnRows(t) /\ FreshDiffer
    BY DEF Begin, At, RowsInv, LockInv
  <1>3. pc'[t] \in {"exists", "lock"} /\ req'[t] = r
    BY <1>1, <1>2 DEF TypeOK, Goto
  <1>4. r.page \in Page
    BY <1>1
  <1>5. memo[t] = EmptyMemo /\ wrote[t] = NoRows
    BY <1>2 DEF OwnRows, Remembers, Writes
  <1>6. memo'[t].down = {} /\ memo'[t].keys[r.page] = 0 /\ memo'[t].parent = r.parent
    BY <1>1, <1>2, <1>4, <1>5 DEF TypeOK, Memo, EmptyMemo
  <1>7. Remembers(t)' /\ Final(t)' /\ NewKeys(t)'
    BY <1>3, <1>6 DEF Remembers, Final, NewKeys
  <1>8. Writes(t)'
    BY <1>2, <1>3, <1>4, <1>5 DEF Writes, NoRows
  <1>9. Keys(t)'
    BY <1>2, <1>3, <1>5 DEF Keys, Placed, NoRows, Fresh, FreshDiffer, Sees, Differ
  <1>10. QED
    BY <1>7, <1>8, <1>9 DEF OwnRows

\* A statement that reads goes on with what was written.
LEMMA GoKeepsOwnRows ==
    ASSUME RowsInv, NEW t \in Tx, pc[t] \notin {"idle", "commit"},
           pc'[t] \notin {"idle", "commit", "renumber", "insert"},
           pc'[t] \in Reading => pc[t] \in Reading,
           pc'[t] \in {"revive", "reviveDown"} => pc[t] \in Reading \cup {"revive"},
           rows' = rows, req'[t] = req[t], wrote'[t] = wrote[t], advisory'[t] = advisory[t],
           req[t].page \notin memo'[t].down, memo'[t].keys = memo[t].keys,
           req[t].op \in {"create", "move"} => memo'[t].parent = memo[t].parent
    PROVE  OwnRows(t)'
  <1>1. OwnRows(t)
    BY DEF RowsInv
  <1>2. Remembers(t)' /\ Final(t)' /\ NewKeys(t)'
    BY <1>1 DEF OwnRows, Remembers, Final, NewKeys
  <1>3. Writes(t)'
    BY <1>1 DEF OwnRows, Writes, Kept, NoRows
  <1>4. Keys(t)'
    BY <1>1 DEF OwnRows, Keys, Placed, Sees
  <1>5. QED
    BY <1>2, <1>3, <1>4 DEF OwnRows

\* The statements that read.
LEMMA ReadsKeepOwnRows ==
    ASSUME RowsInv, NEW t \in Tx,
           \/ Lock(t) \/ Exists(t) \/ CheckParent(t) \/ CheckPath(t) \/ CheckHeight(t)
           \/ CheckSamePlace(t) \/ CheckConflicts(t) \/ CheckContent(t)
           \/ FindDown(t) \/ CheckAlive(t) \/ FindTrashed(t)
    PROVE  OwnRows(t)'
  <1>1. CASE End(t)
    BY <1>1, EndKeepsOwnRows DEF RowsInv, LockInv
  <1>2. CASE ~End(t)
    <2> DEFINE Goes == /\ pc[t] \notin {"idle", "commit"}
                       /\ pc'[t] \notin {"idle", "commit", "renumber", "insert"}
                       /\ pc'[t] \in Reading => pc[t] \in Reading
                       /\ pc'[t] \in {"revive", "reviveDown"} => pc[t] \in Reading \cup {"revive"}
                       /\ rows' = rows /\ req' = req /\ wrote' = wrote /\ advisory' = advisory
               Keeps == /\ req[t].page \notin memo'[t].down
                        /\ memo'[t].keys = memo[t].keys
                        /\ req[t].op \in {"create", "move"} => memo'[t].parent = memo[t].parent
    <2>1. /\ pc \in [Tx -> Steps] /\ memo \in [Tx -> Memo]
          /\ pc[t] # "idle" => req[t].page \notin memo[t].down
          /\ pc[t] # "idle" => req[t].op \in AllOps /\ CanBeAt(pc[t], req[t].op)
      BY OpenRequest DEF RowsInv, LockInv, TypeOK, OwnRows, Remembers, Request
    <2>2. Goes /\ memo' = memo => Goes /\ Keeps
      BY <2>1
    <2>3. CASE Lock(t)
      <3>1. /\ pc[t] = "lock" /\ Goto(t, CASE req[t].op = "move" -> IF req[t].parent = NoPage THEN "height" ELSE "parent"
                                          [] req[t].op = "patch" -> "conflicts"
                                          [] req[t].op = "delete" -> "down"
                                          [] req[t].op = "restore" -> "alive")
            /\ rows' = rows /\ req' = req /\ memo' = memo /\ wrote' = wrote /\ advisory' = advisory
        BY <1>2, <2>3 DEF Lock, Return, At
      <3>2. pc'[t] \in {"height", "parent", "conflicts", "down", "alive"}
        BY <2>1, <3>1 DEF Goto, CanBeAt, AllOps
      <3>3. Goes /\ Keeps
        BY <2>1, <3>1, <3>2 DEF Reading
      <3>4. QED
        BY <3>3, GoKeepsOwnRows
    <2>4. CASE Exists(t) \/ CheckParent(t) \/ CheckContent(t)
      <3>1. Goes /\ memo' = memo
        BY <1>2, <2>1, <2>4 DEF Exists, CheckParent, CheckContent, Return, At, Goto, Reading, locks
      <3>2. QED
        BY <2>2, <3>1, GoKeepsOwnRows
    <2>5. CASE CheckPath(t)
      <3>1. /\ Goes /\ memo' = [memo EXCEPT ![t].depth = Cardinality(Up(ParentIn(rows), req[t].parent))]
        BY <1>2, <2>1, <2>5 DEF CheckPath, Return, At, Goto, Reading, locks
      <3>2. Keeps
        BY <2>1, <3>1 DEF Memo
      <3>3. QED
        BY <3>1, <3>2, GoKeepsOwnRows
    <2>6. CASE CheckHeight(t)
      <3>1. Goes /\ memo' = memo
        BY <1>2, <2>1, <2>6 DEF CheckHeight, Return, At, Goto, Reading, locks
      <3>2. QED
        BY <2>2, <3>1, GoKeepsOwnRows
    <2>7. CASE CheckSamePlace(t)
      <3>1. Goes /\ memo' = memo
        BY <1>2, <2>1, <2>7 DEF CheckSamePlace, Return, At, Goto, Reading, locks
      <3>2. QED
        BY <2>2, <3>1, GoKeepsOwnRows
    <2>8. CASE CheckConflicts(t)
      <3>1. Goes /\ memo' = memo
        BY <1>2, <2>1, <2>8 DEF CheckConflicts, Return, At, Goto, Reading, locks
      <3>2. QED
        BY <2>2, <3>1, GoKeepsOwnRows
    <2>9. CASE FindDown(t)
      <3>1. /\ Goes /\ req[t].page \notin LiveUnder(ParentIn(rows), LiveIn(rows), req[t].page)
            /\ memo' = [memo EXCEPT ![t].down = LiveUnder(ParentIn(rows), LiveIn(rows), req[t].page)]
        BY <2>1, <2>9 DEF FindDown, At, Goto, Reading, locks
      <3>2. Keeps
        BY <2>1, <3>1 DEF Memo
      <3>3. QED
        BY <3>1, <3>2, GoKeepsOwnRows
    <2>10. CASE FindTrashed(t)
      <3>1. /\ Goes
            /\ memo' = [memo EXCEPT ![t].down =
                           {d \in Existing(rows) \ {req[t].page} : rows[d].root = req[t].page}]
        BY <2>1, <2>10 DEF FindTrashed, At, Goto, Reading, locks
      <3>2. Keeps
        BY <2>1, <3>1 DEF Memo
      <3>3. QED
        BY <3>1, <3>2, GoKeepsOwnRows
    <2>11. CASE CheckAlive(t)
      <3>1. /\ Goes /\ pc[t] = "alive"
            /\ memo'[t].keys = memo[t].keys /\ memo'[t].down = memo[t].down
        BY <2>1, <2>11 DEF CheckAlive, At, Goto, Reading, locks, Memo
      <3>2. Keeps
        BY <2>1, <3>1 DEF CanBeAt
      <3>3. QED
        BY <3>1, <3>2, GoKeepsOwnRows
    <2>12. QED
      BY <2>3, <2>4, <2>5, <2>6, <2>7, <2>8, <2>9, <2>10, <2>11
  <1>3. QED
    BY <1>1, <1>2

\* service::place: the key of a new page is above its siblings'; when there is no room between two
\* keys the new keys of all differ.
LEMMA PlaceKeepsOwnRows ==
    ASSUME RowsInv, NEW t \in Tx, Place(t)
    PROVE  OwnRows(t)'
  <1> DEFINE p == req[t].page
             q == memo[t].parent
             v == View(t)
             S == Siblings(v, q, p)
             n == Cardinality(S)
             i == PlaceOf(t, n)
             KeyOf(s) == LET r == Rank(v, S, s) IN Spread(n + 1, IF r < i THEN r + 1 ELSE r + 2)
             keys == [s \in Page |-> IF s \in S THEN KeyOf(s) ELSE 0]
             Rest == Page \ {p}
  <1>1. /\ pc[t] = "place" /\ advisory' = [advisory EXCEPT ![t] = {q}]
        /\ UNCHANGED <<rows, history, req, cur, wrote, forUpdate, keyShare, started>>
    BY DEF Place, PlaceWhen, At
  <1>2. PICK before \in 0 .. MaxKey, after \in 1 .. MaxKey + 1 :
           /\ KeyBefore(v, S, i, before)
           /\ \/ /\ Between(before, after) # 0
                 /\ memo' = [memo EXCEPT ![t].key = Between(before, after)]
                 /\ Goto(t, AfterPlace(t))
              \/ /\ memo' = [memo EXCEPT ![t].key = Spread(n + 1, i + 1), ![t].keys = keys]
                 /\ Goto(t, "renumber")
    BY DEF Place, PlaceWhen
  <1>3. /\ req[t] \in Request /\ req[t].op \in {"create", "move", "restore"} /\ p \in Page
        /\ memo[t] \in Memo /\ pc \in [Tx -> Steps] /\ memo \in [Tx -> Memo] /\ v \in Rows
        /\ rows \in Rows /\ advisory'[t] = {q} /\ OwnRows(t) /\ FreshDiffer
    BY <1>1, OpenRequest, ViewIsRows DEF CanBeAt, RowsInv, LockInv, TypeOK, Request
  <1>4. wrote[t] = NoRows /\ \A c \in Page : v[c] = rows[c] /\ wrote[t][c] = NoRow /\ Sees(t, c) = rows[c]
    BY <1>1, <1>3 DEF OwnRows, Writes, Reading, NoRows, View, Sees
  <1>5. /\ S \in SUBSET Page /\ S \subseteq Rest /\ \A s \in S : v[s] # NoRow
        /\ \A c \in Rest : Fresh(rows[c]) => (c \in S <=> rows[c].parent = q)
    BY <1>4 DEF Siblings, LiveIn, Existing, Fresh
  <1>6. n \in Nat /\ i \in Nat /\ n + 1 <= MaxKey
    <2>1. /\ IsFiniteSet(Rest) /\ Cardinality(Rest) = Cardinality(Page) - 1
          /\ Cardinality(Page) \in Nat
      BY <1>3, KeyAssumption, FS_RemoveElement, PagesCount
    <2>2. n <= Cardinality(Rest) /\ n \in Nat
      BY <1>5, <2>1, FS_Subset, PagesCount
    <2>3. i \in Nat
      BY <1>3, <2>2 DEF PlaceOf, AtMost, Request
    <2>4. QED
      BY <2>1, <2>2, <2>3, KeyAssumption
  <1>7. /\ p \notin memo[t].down /\ memo[t].keys[p] = 0
        /\ req[t].op \in {"create", "move"} => q = req[t].parent
    BY <1>1, <1>3 DEF OwnRows, Remembers
  <1> HIDE DEF v, S, n, i, KeyOf
  <1>8. \A c \in Rest : ~Fresh(wrote'[t][c])
    BY <1>1, <1>4 DEF Fresh
  <1>9. \A c, d \in Rest : c # d => Differ(Sees(t, c)', Sees(t, d)')
    BY <1>1, <1>3, <1>4 DEF FreshDiffer, Sees
  <1>10. CASE /\ Between(before, after) # 0
              /\ memo' = [memo EXCEPT ![t].key = Between(before, after)]
              /\ Goto(t, AfterPlace(t))
    <2>1. /\ pc'[t] \in {"insert", "write", "revive"}
          /\ pc'[t] = "insert" => req[t].op = "create"
      BY <1>3, <1>10 DEF Goto, AfterPlace
    <2>2. /\ memo'[t].key = Between(before, after) /\ memo'[t].parent = q
          /\ memo'[t].keys = memo[t].keys /\ memo'[t].down = memo[t].down
      BY <1>3, <1>10 DEF Memo
    <2>3. Remembers(t)' /\ Final(t)' /\ NewKeys(t)'
      BY <1>1, <1>7, <2>1, <2>2 DEF Remembers, Final, NewKeys
    <2>4. Writes(t)'
      BY <1>1, <1>3, <1>4, <2>1 DEF Writes, Reading
    <2>5. ASSUME pc'[t] = "insert", NEW c \in Rest, Fresh(rows[c]), rows[c].parent = q
          PROVE  rows[c].pos # Between(before, after)
      <3>1. i = n /\ c \in S
        BY <1>5, <2>1, <2>5 DEF i, PlaceOf
      <3>2. before \in Nat /\ after \in Nat
        BY KeyAssumption
      <3>3. S # {} => n # 0
        <4>1. IsFiniteSet(S)
          BY <1>5, KeyAssumption, FS_Subset
        <4>2. QED
          BY <4>1, FS_EmptySet DEF n
      <3>4. PICK s \in S : Rank(v, S, s) + 1 = n /\ before = v[s].pos
        BY <1>2, <3>1, <3>3 DEF KeyBefore
      <3>5. v[c].pos <= before
        BY <1>3, <1>5, <3>1, <3>4, LastHasHighestKey DEF n
      <3>6. Between(before, after) > before /\ Between(before, after) \in Nat
        BY <1>10, <3>2, BetweenIsAbove, KeyTypes
      <3>7. v[c] = rows[c] /\ rows[c].pos \in Nat
        BY <1>3, <1>4, <2>5 DEF Rows, Row, Fresh
      <3>8. QED
        BY <3>2, <3>5, <3>6, <3>7
    <2>6. Keys(t)'
      BY <1>1, <1>3, <1>4, <1>8, <1>9, <2>1, <2>2, <2>5 DEF Keys, Placed, Sees
    <2>7. QED
      BY <2>3, <2>4, <2>6 DEF OwnRows
  <1>11. CASE /\ memo' = [memo EXCEPT ![t].key = Spread(n + 1, i + 1), ![t].keys = keys]
              /\ Goto(t, "renumber")
    <2>1. pc'[t] = "renumber"
      BY <1>3, <1>11 DEF Goto
    <2> HIDE DEF keys
    <2>2. /\ memo'[t].key = Spread(n + 1, i + 1) /\ memo'[t].parent = q
          /\ memo'[t].keys = keys /\ memo'[t].down = memo[t].down
      BY <1>3, <1>11 DEF Memo
    <2> DEFINE At2(s) == IF Rank(v, S, s) < i THEN Rank(v, S, s) + 1 ELSE Rank(v, S, s) + 2
    <2>3. \A s \in S : Rank(v, S, s) \in Nat
      BY <1>5, PagesCount DEF Rank
    <2>4. /\ \A s \in S : At2(s) \in Nat \ {0} /\ At2(s) # i + 1
          /\ \A s, r \in S : s # r => At2(s) # At2(r)
      <3>1. \A s, r \in S : s # r => Rank(v, S, s) # Rank(v, S, r)
        BY <1>3, <1>5, RanksDiffer
      <3>2. QED
        BY <1>6, <2>3, <3>1
    <2>5. /\ \A c \in Page : c \in S => keys[c] = Spread(n + 1, At2(c))
          /\ \A c \in Page : c \notin S => keys[c] = 0
      BY DEF keys, KeyOf
    <2> HIDE DEF At2
    <2>6. \A x, y \in Nat : x # y => Spread(n + 1, x) # Spread(n + 1, y)
      <3>1. \A x, y \in Nat : x < y => Spread(n + 1, x) < Spread(n + 1, y)
        BY <1>6, SpreadGrows
      <3>2. \A x \in Nat : Spread(n + 1, x) \in Nat
        <4>1. n + 1 \in Nat
          BY <1>6
        <4>2. QED
          BY <4>1, KeyTypes
      <3>3. QED
        BY <3>1, <3>2
    <2>7. Spread(n + 1, 0) = 0
      <3>1. /\ MaxKey + 1 \in Nat /\ n + 1 + 1 \in Nat \ {0}
        BY <1>6, KeyAssumption
      <3>2. 0 * (MaxKey + 1) = 0
        BY <3>1
      <3>3. 0 \div (n + 1 + 1) = 0
        BY <3>1
      <3>4. QED
        BY <3>2, <3>3 DEF Spread
    <2>8. \A c \in Page : keys[c] # 0 <=> c \in S
      BY <2>4, <2>5, <2>6, <2>7
    <2>9. \A c \in Page : keys[c] # 0 => keys[c] # Spread(n + 1, i + 1)
      BY <1>6, <2>4, <2>5, <2>6, <2>8
    <2>10. \A c, d \in Page : keys[c] # 0 /\ keys[d] # 0 /\ c # d => keys[c] # keys[d]
      BY <2>4, <2>5, <2>6, <2>8
    <2>11. keys[p] = 0
      BY <1>3, <1>5, <2>8
    <2>12. Remembers(t)' /\ Final(t)'
      BY <1>1, <1>7, <2>1, <2>2, <2>11 DEF Remembers, Final
    <2>13. Writes(t)'
      BY <1>1, <1>3, <1>4, <2>1 DEF Writes
    <2>14. Keys(t)'
      BY <1>1, <1>3, <1>8, <1>9, <2>1, <2>2 DEF Keys, Placed
    <2>15. NewKeys(t)'
      BY <1>1, <1>5, <2>2, <2>8, <2>9, <2>10 DEF NewKeys
    <2>16. QED
      BY <2>12, <2>13, <2>14, <2>15 DEF OwnRows
  <1>12. QED
    BY <1>2, <1>10, <1>11


\* set_positions: only keys change.
LEMMA RenumberKeepsOwnRows ==
    ASSUME RowsInv, NEW t \in Tx, Renumber(t)
    PROVE  OwnRows(t)'
  <1> DEFINE p == req[t].page
             q == memo[t].parent
             k == memo[t].keys
             Rest == Page \ {p}
  <1>1. /\ pc[t] = "renumber" /\ Goto(t, AfterPlace(t))
        /\ wrote' = [wrote EXCEPT ![t] =
                        [s \in Page |-> IF k[s] # 0 THEN [View(t)[s] EXCEPT !.pos = k[s]] ELSE @[s]]]
        /\ UNCHANGED <<rows, history, req, cur, memo, forUpdate, keyShare, advisory, started>>
    BY DEF Renumber, At, locks
  <1>2. /\ OwnRows(t) /\ OwnInv(t) /\ TypeOK /\ p \in Page
        /\ req[t].op \in {"create", "move", "restore"}
    BY <1>1, OpenRequest DEF RowsInv, LockInv, CanBeAt, Request
  <1>3. /\ pc'[t] \in {"insert", "write", "revive"}
        /\ pc'[t] = "insert" => req[t].op = "create"
    BY <1>1, <1>2 DEF Goto, AfterPlace, TypeOK
  <1>4. \A c \in Page : wrote[t][c] = NoRow /\ View(t)[c] = rows[c] /\ Sees(t, c) = rows[c]
    BY <1>1, <1>2 DEF OwnRows, Writes, Reading, NoRows, View, Sees
  <1>5. \A c \in Page : k[c] # 0 => rows[c] \in Row /\ rows[c] # NoRow /\ k[c] \in Nat
    BY <1>2, <1>4 DEF OwnInv, Seen, TypeOK, Rows, Memo
  <1>6. \A c \in Page : wrote'[t][c] = IF k[c] # 0 THEN [rows[c] EXCEPT !.pos = k[c]] ELSE NoRow
    BY <1>1, <1>2, <1>4 DEF TypeOK
  <1>7. ASSUME NEW c \in Page, k[c] # 0
        PROVE  LET w == wrote'[t][c]
                   r == rows[c]
               IN  /\ w # NoRow /\ w.pos = k[c]
                   /\ w.title = r.title /\ w.type = r.type /\ w.parent = r.parent /\ w.by = r.by
                   /\ w.root = r.root /\ w.version = r.version
    <2>1. wrote'[t][c] \in Row
      BY <1>5, <1>6, <1>7 DEF Row
    <2>2. QED
      BY <1>5, <1>6, <1>7, <2>1, NoRowAssumption DEF Row
  <1>8. \A c \in Page : Sees(t, c)' = IF k[c] # 0 THEN wrote'[t][c] ELSE rows[c]
    <2>1. \A c \in Page : k[c] # 0 => wrote'[t][c] # NoRow
      BY <1>7
    <2>2. \A c \in Page : k[c] = 0 => wrote'[t][c] = NoRow
      BY <1>6
    <2>3. rows' = rows
      BY <1>1
    <2> HIDE DEF k
    <2>4. QED
      BY <2>1, <2>2, <2>3 DEF Sees
  <1>9. \A c \in Page : /\ Fresh(Sees(t, c)') <=> Fresh(rows[c])
                        /\ Fresh(rows[c]) => Sees(t, c)'.parent = rows[c].parent
                        /\ k[c] # 0 => Sees(t, c)'.pos = k[c]
                        /\ k[c] = 0 => Sees(t, c)' = rows[c]
    BY <1>5, <1>7, <1>8 DEF Fresh
  <1>10. Remembers(t)' /\ Final(t)' /\ NewKeys(t)'
    BY <1>1, <1>2, <1>3 DEF OwnRows, Remembers, Final, NewKeys
  <1>11. Writes(t)'
    <2>1. wrote'[t][p] = NoRow
      BY <1>1, <1>2, <1>6 DEF OwnRows, Remembers
    <2>2. \A c \in Page : wrote'[t][c] # NoRow => k[c] # 0
      BY <1>6
    <2>3. \A c \in Page : wrote'[t][c] # NoRow => Kept(t, c)' /\ wrote'[t][c].version = rows[c].version
      BY <1>1, <1>5, <1>7, <2>2 DEF Kept
    <2>4. QED
      BY <1>1, <1>3, <2>1, <2>3 DEF Writes, Reading
  <1>12. Keys(t)'
    <2>1. /\ q \in advisory[t]
          /\ \A c \in Rest : Fresh(rows[c]) => (k[c] # 0 <=> rows[c].parent = q)
          /\ \A c \in Page : k[c] # 0 => k[c] # memo[t].key
          /\ \A c, d \in Page : k[c] # 0 /\ k[d] # 0 /\ c # d => k[c] # k[d]
          /\ \A c, d \in Rest : c # d => Differ(rows[c], rows[d])
      BY <1>1, <1>2, <1>4 DEF OwnRows, Keys, NewKeys
    <2>2. ASSUME NEW c \in Rest, NEW d \in Rest, c # d, Fresh(Sees(t, c)'), Fresh(Sees(t, d)'),
                 Sees(t, c)'.parent = Sees(t, d)'.parent
          PROVE  Sees(t, c)'.pos # Sees(t, d)'.pos
      BY <1>9, <2>1, <2>2 DEF Differ
    <2>3. \A c \in Rest : Fresh(wrote'[t][c]) => wrote'[t][c].parent \in advisory[t]
      <3>1. SUFFICES ASSUME NEW c \in Rest, Fresh(wrote'[t][c])
                     PROVE  wrote'[t][c].parent \in advisory[t]
        OBVIOUS
      <3>2. k[c] # 0
        BY <1>6, <3>1 DEF Fresh
      <3>3. Fresh(rows[c]) /\ wrote'[t][c].parent = rows[c].parent
        BY <1>5, <1>7, <3>1, <3>2 DEF Fresh
      <3>4. QED
        BY <2>1, <3>2, <3>3
    <2>4. \A c \in Rest : Fresh(Sees(t, c)') /\ Sees(t, c)'.parent = q => Sees(t, c)'.pos # memo[t].key
      BY <1>9, <2>1
    <2>5. QED
      BY <1>1, <2>1, <2>2, <2>3, <2>4 DEF Keys, Differ
  <1>13. QED
    BY <1>10, <1>11, <1>12 DEF OwnRows

\* A statement that changes other pages' rows, with a new version each.
LEMMA RewriteKeepsOwnRows ==
    ASSUME RowsInv, NEW t \in Tx, pc[t] \notin {"idle", "commit"}, pc'[t] = "write",
           rows' = rows, req'[t] = req[t], memo'[t] = memo[t], advisory'[t] = advisory[t],
           wrote'[t][req[t].page] = NoRow,
           \A c \in Page : \/ wrote'[t][c] = wrote[t][c]
                           \/ wrote'[t][c] # NoRow /\ wrote'[t][c].version # 1 /\ Kept(t, c)'
    PROVE  OwnRows(t)'
  <1>1. OwnRows(t)
    BY DEF RowsInv
  <1>2. Remembers(t)' /\ Final(t)' /\ NewKeys(t)'
    BY <1>1 DEF OwnRows, Remembers, Final, NewKeys
  <1>3. Writes(t)'
    BY <1>1 DEF OwnRows, Writes, Reading, Kept
  <1>4. \A c \in Page : wrote'[t][c] = wrote[t][c] \/ ~Fresh(wrote'[t][c])
    BY DEF Fresh
  <1>5. \A c \in Page : Sees(t, c)' = Sees(t, c) \/ ~Fresh(Sees(t, c)')
    BY DEF Fresh, Sees
  <1>6. Keys(t)'
    BY <1>1, <1>4, <1>5 DEF OwnRows, Keys, Placed, Differ
  <1>7. QED
    BY <1>2, <1>3, <1>6 DEF OwnRows

\* trash_descendants
LEMMA TrashDownKeepsOwnRows ==
    ASSUME RowsInv, NEW t \in Tx, TrashDown(t)
    PROVE  OwnRows(t)'
  <1> DEFINE p == req[t].page
             D == memo[t].down
  <1>1. /\ pc[t] = "trash" /\ Goto(t, "write")
        /\ wrote' = [wrote EXCEPT ![t] =
                        [d \in Page |-> IF d \in D THEN [rows[d] EXCEPT !.root = p, !.version = @ + 1]
                                        ELSE @[d]]]
        /\ UNCHANGED <<rows, history, req, cur, memo, forUpdate, keyShare, advisory, started>>
    BY DEF TrashDown, At, locks
  <1>2. OwnRows(t) /\ OwnInv(t) /\ TypeOK /\ p \in Page /\ req[t].op = "delete" /\ pc'[t] = "write"
    BY <1>1, OpenRequest DEF RowsInv, LockInv, CanBeAt, Request, TypeOK, Goto
  <1>3. /\ p \notin D
        /\ \A c \in D : rows[c] # NoRow
        /\ \A c \in Page : wrote[t][c] = NoRow
    BY <1>1, <1>2 DEF OwnRows, Remembers, OwnInv, Seen, Writes, Reading, NoRows
  <1>4. ASSUME NEW c \in Page, c \in D
        PROVE  wrote'[t][c] # NoRow /\ wrote'[t][c].version # 1 /\ Kept(t, c)'
    <2>1. rows[c] \in Row /\ rows[c] # NoRow /\ rows[c].version \in Nat \ {0}
      BY <1>2, <1>3, <1>4 DEF TypeOK, Rows, Row
    <2>2. wrote'[t][c] = [rows[c] EXCEPT !.root = p, !.version = rows[c].version + 1]
      BY <1>1, <1>2, <1>4 DEF TypeOK
    <2>3. wrote'[t][c] \in Row
      <3>1. p \in Page \cup {NoPage}
        BY <1>2
      <3>2. QED
        BY <2>1, <2>2, <3>1, MarkedRowIsRow
    <2>4. /\ wrote'[t][c].root = p /\ wrote'[t][c].version = rows[c].version + 1
          /\ wrote'[t][c].title = rows[c].title /\ wrote'[t][c].type = rows[c].type
          /\ wrote'[t][c].parent = rows[c].parent /\ wrote'[t][c].by = rows[c].by
      BY <2>1, <2>2 DEF Row
    <2>5. QED
      <3>1. wrote'[t][c] # NoRow /\ wrote'[t][c].version # 1
        BY <2>1, <2>3, <2>4, NoRowAssumption
      <3>2. rows' = rows /\ req' = req
        BY <1>1
      <3>3. QED
        BY <1>2, <2>1, <2>4, <3>1, <3>2 DEF Kept
  <1>5. \A c \in Page : c \notin D => wrote'[t][c] = wrote[t][c]
    BY <1>1, <1>2 DEF TypeOK
  <1>6. /\ rows' = rows /\ req' = req /\ memo' = memo /\ advisory' = advisory
        /\ wrote'[t][p] = NoRow /\ pc[t] \notin {"idle", "commit"}
    BY <1>1, <1>2, <1>3, <1>5
  <1>7. \A c \in Page : \/ wrote'[t][c] = wrote[t][c]
                        \/ wrote'[t][c] # NoRow /\ wrote'[t][c].version # 1 /\ Kept(t, c)'
    BY <1>4, <1>5
  <1>8. QED
    BY <1>2, <1>6, <1>7, RewriteKeepsOwnRows

\* restore_descendants
LEMMA ReviveDownKeepsOwnRows ==
    ASSUME RowsInv, NEW t \in Tx, ReviveDown(t)
    PROVE  OwnRows(t)'
  <1> DEFINE p == req[t].page
             D == {d \in memo[t].down : rows[d].root = p}
  <1>1. /\ pc[t] = "reviveDown" /\ Goto(t, "write")
        /\ wrote' = [wrote EXCEPT ![t] =
                        [d \in Page |->
                            IF d \in memo[t].down /\ rows[d].root = p
                            THEN [View(t)[d] EXCEPT !.root = NoPage, !.version = @ + 1]
                            ELSE @[d]]]
        /\ UNCHANGED <<rows, history, req, cur, memo, forUpdate, keyShare, advisory, started>>
    BY DEF ReviveDown, At, locks
  <1>2. OwnRows(t) /\ OwnInv(t) /\ TypeOK /\ p \in Page /\ req[t].op = "restore" /\ pc'[t] = "write"
    BY <1>1, OpenRequest DEF RowsInv, LockInv, CanBeAt, Request, TypeOK, Goto
  <1>3. /\ p \notin D /\ wrote[t][p] = NoRow
        /\ \A c \in D : rows[c] # NoRow
    BY <1>1, <1>2 DEF OwnRows, Remembers, OwnInv, Seen, Writes
  <1>4. ASSUME NEW c \in Page, c \in D
        PROVE  wrote'[t][c] # NoRow /\ wrote'[t][c].version # 1 /\ Kept(t, c)'
    <2> DEFINE r == View(t)[c]
    <2>1. rows[c] \in Row /\ rows[c] # NoRow /\ rows[c].version \in Nat \ {0}
      BY <1>2, <1>3, <1>4 DEF TypeOK, Rows, Row
    <2>2. wrote[t][c] # NoRow => Kept(t, c) /\ wrote[t][c].version = rows[c].version
      BY <1>1, <1>2, <1>3, <1>4 DEF OwnRows, Writes
    <2>3. /\ r \in Row /\ r.version = rows[c].version /\ r.title = rows[c].title
          /\ r.type = rows[c].type /\ r.parent = rows[c].parent /\ r.by = rows[c].by
      BY <1>2, <2>1, <2>2 DEF View, Kept, TypeOK, Rows
    <2>4. wrote'[t][c] = [r EXCEPT !.root = NoPage, !.version = r.version + 1]
      BY <1>1, <1>2, <1>4 DEF TypeOK
    <2> HIDE DEF r
    <2>5. wrote'[t][c] \in Row
      <3>1. NoPage \in Page \cup {NoPage}
        OBVIOUS
      <3>2. QED
        BY <2>3, <2>4, <3>1, MarkedRowIsRow
    <2>6. /\ wrote'[t][c].root = NoPage /\ wrote'[t][c].version = r.version + 1
          /\ wrote'[t][c].title = r.title /\ wrote'[t][c].type = r.type
          /\ wrote'[t][c].parent = r.parent /\ wrote'[t][c].by = r.by
      BY <2>3, <2>4 DEF Row
    <2>7. QED
      <3>1. wrote'[t][c] # NoRow /\ wrote'[t][c].version # 1
        BY <2>1, <2>3, <2>5, <2>6, NoRowAssumption
      <3>2. rows' = rows /\ req' = req
        BY <1>1
      <3>3. QED
        BY <1>2, <2>1, <2>3, <2>6, <3>1, <3>2 DEF Kept
  <1>5. \A c \in Page : c \notin D => wrote'[t][c] = wrote[t][c]
    BY <1>1, <1>2 DEF TypeOK
  <1>6. /\ rows' = rows /\ req' = req /\ memo' = memo /\ advisory' = advisory
        /\ wrote'[t][p] = NoRow /\ pc[t] \notin {"idle", "commit"}
    BY <1>1, <1>2, <1>3, <1>5
  <1>7. \A c \in Page : \/ wrote'[t][c] = wrote[t][c]
                        \/ wrote'[t][c] # NoRow /\ wrote'[t][c].version # 1 /\ Kept(t, c)'
    BY <1>4, <1>5
  <1>8. QED
    BY <1>2, <1>6, <1>7, RewriteKeepsOwnRows

\* The statement that writes the page itself, the last one.
LEMMA LastKeepsOwnRows ==
    ASSUME RowsInv, NEW t \in Tx, pc[t] \in {"insert", "write"}, pc'[t] = "commit",
           rows' = rows, req'[t] = req[t], memo'[t] = memo[t], advisory'[t] = advisory[t],
           \A c \in Page : c # req[t].page => wrote'[t][c] = wrote[t][c],
           Final(t)'
    PROVE  OwnRows(t)'
  <1>1. OwnRows(t) /\ (pc[t] = "write" => req[t].op # "create")
    BY OpenRequest DEF RowsInv, CanBeAt
  <1>2. Remembers(t)' /\ NewKeys(t)'
    BY <1>1 DEF OwnRows, Remembers, NewKeys
  <1>3. Writes(t)'
    BY <1>1 DEF OwnRows, Writes, Reading, Kept
  <1>4. \A c \in Page : c # req[t].page => Sees(t, c)' = Sees(t, c)
    BY DEF Sees
  <1>5. Placed(t)' => Placed(t)
    BY <1>1 DEF Placed
  <1>6. Keys(t)'
    BY <1>1, <1>4, <1>5 DEF OwnRows, Keys
  <1>7. QED
    BY <1>2, <1>3, <1>6 DEF OwnRows

\* repo::insert
LEMMA InsertKeepsOwnRows ==
    ASSUME RowsInv, NEW t \in Tx, Insert(t)
    PROVE  OwnRows(t)'
  <1>1. CASE End(t)
    BY <1>1, EndKeepsOwnRows DEF RowsInv, LockInv
  <1>2. CASE ~End(t)
    <2> DEFINE p == req[t].page
               q == req[t].parent
    <2>1. /\ pc[t] = "insert" /\ Goto(t, "commit") /\ rows[p] = NoRow /\ Refer(t, q)
          /\ UNCHANGED <<rows, history, req, cur, memo, forUpdate, advisory, started>>
      BY <1>2 DEF Insert, Return, At
    <2>2. PICK title \in Title, type \in Types :
             wrote' = [wrote EXCEPT ![t][p] =
                 [parent |-> q, pos |-> memo[t].key, title |-> title, type |-> type,
                  root |-> NoPage, version |-> 1, by |-> req[t].by]]
      BY <1>2 DEF Insert, Return
    <2>3. /\ TypeOK /\ p \in Page /\ q \in Page \cup {NoPage} /\ req[t].op = "create"
      BY <2>1, OpenRequest DEF RowsInv, LockInv, CanBeAt, Request
    <2>4. /\ pc'[t] = "commit" /\ q \in keyShare'[t] \cup {NoPage}
          /\ \A c \in Page : c # p => wrote'[t][c] = wrote[t][c]
      BY <2>1, <2>2, <2>3 DEF TypeOK, Goto, Refer, Rows
    <2>5. wrote'[t][p] = [parent |-> q, pos |-> memo[t].key, title |-> title, type |-> type,
                          root |-> NoPage, version |-> 1, by |-> req[t].by]
      BY <2>2, <2>3 DEF TypeOK, Rows
    <2>6. Final(t)'
      BY <2>1, <2>3, <2>4, <2>5 DEF Final
    <2>7. QED
      BY <2>1, <2>4, <2>6, LastKeepsOwnRows
  <1>3. QED
    BY <1>1, <1>2

\* update_page
LEMMA WriteKeepsOwnRows ==
    ASSUME RowsInv, NEW t \in Tx, Write(t)
    PROVE  OwnRows(t)'
  <1>1. CASE End(t)
    BY <1>1, EndKeepsOwnRows DEF RowsInv, LockInv
  <1>2. CASE ~End(t)
    <2> DEFINE p == req[t].page
               new == NextRow(t)
               referred == IF new.parent = cur[t].parent THEN NoPage ELSE new.parent
    <2>1. /\ pc[t] = "write" /\ Goto(t, "commit") /\ Refer(t, referred)
          /\ wrote' = [wrote EXCEPT ![t][p] = [new EXCEPT !.version = rows[p].version + 1]]
          /\ UNCHANGED <<rows, history, req, cur, memo, forUpdate, advisory, started>>
      BY <1>2 DEF Write, Return, At
    <2>2. /\ TypeOK /\ OwnInv(t) /\ p \in Page /\ req[t].op # "create"
      BY <2>1, OpenRequest DEF RowsInv, LockInv, CanBeAt, Request
    <2>3. rows[p] = cur[t] /\ cur[t] \in Row /\ new \in Row
      BY <2>1, <2>2, NextRowIsRow DEF RowsInv, OwnInv, Held
    <2>4. new.parent # cur[t].parent => new.parent \in keyShare'[t] \cup {NoPage}
      BY <2>1, <2>2 DEF Refer, TypeOK
    <2> HIDE DEF new, referred
    <2>5. wrote'[t][p] = [new EXCEPT !.version = cur[t].version + 1]
      BY <2>1, <2>2, <2>3 DEF TypeOK, Rows
    <2>6. LET w == wrote'[t][p] IN
            /\ w.parent = new.parent /\ w.pos = new.pos /\ w.title = new.title
            /\ w.type = new.type /\ w.root = new.root /\ w.by = new.by
            /\ w.version = cur[t].version + 1
      BY <2>3, <2>5 DEF Row
    <2>7. /\ pc'[t] = "commit" /\ \A c \in Page : c # p => wrote'[t][c] = wrote[t][c]
      BY <2>1, <2>2 DEF TypeOK, Goto, Rows
    <2>8. NextRow(t)' = new
      BY <2>1 DEF NextRow, new
    <2>9. Final(t)'
      BY <2>1, <2>2, <2>4, <2>6, <2>8 DEF Final
    <2>10. QED
      BY <2>1, <2>7, <2>9, LastKeepsOwnRows
  <1>3. QED
    BY <1>1, <1>2
-----------------------------------------------------------------------------
(* Every step keeps the invariant. *)

\* Two transactions stay apart when one of them moves.
LEMMA ActorStaysApart ==
    ASSUME RowsInv, NEW t \in Tx, \A u \in Tx : u # t => Same(u),
           \A u \in Others(t) :
              /\ \A p \in Page : wrote'[t][p] # NoRow => wrote[t][p] # NoRow \/ wrote[u][p] = NoRow
              /\ forUpdate'[t] \cap keyShare[u] = {}
              /\ forUpdate[u] \cap keyShare'[t] = {}
              /\ advisory'[t] \cap advisory[u] = {}
    PROVE  \A u, w \in Tx : Apart(u, w)'
  <1> SUFFICES ASSUME NEW u \in Tx, NEW w \in Tx, u # w PROVE Apart(u, w)'
    BY DEF Apart
  <1>1. Apart(u, w) /\ Apart(w, u)
    BY DEF RowsInv
  <1>2. CASE u = t
    BY <1>1, <1>2 DEF Apart, Same, Others
  <1>3. CASE w = t
    BY <1>1, <1>3 DEF Apart, Same, Others
  <1>4. CASE u # t /\ w # t
    BY <1>1, <1>4 DEF Apart, Same
  <1>5. QED
    BY <1>2, <1>3, <1>4

\* No step writes a row or takes a lock that another transaction has.
LEMMA StepsStayApart ==
    ASSUME RowsInv, NEW t \in Tx, Begin(t) \/ Step(t) \/ Rollback(t)
    PROVE  \A u, w \in Tx : Apart(u, w)'
  <1> DEFINE p == req[t].page
             Stays == /\ wrote' = wrote /\ forUpdate' = forUpdate
                      /\ keyShare' = keyShare /\ advisory' = advisory
  <1>1. \A u \in Tx : u # t => Same(u)
    BY StepsAreOwn DEF RowsInv, LockInv
  <1>2. /\ TypeOK /\ OwnInv(t) /\ \A u \in Others(t) : Apart(t, u) /\ Apart(u, t) /\ Exclusive(t, u)
    BY DEF RowsInv, LockInv, Others
  <1>3. \A u \in Others(t) : /\ forUpdate[t] \cap keyShare[u] = {}
                             /\ forUpdate[u] \cap keyShare[t] = {}
                             /\ advisory[t] \cap advisory[u] = {}
    BY <1>2 DEF Apart, Others
  <1>4. CASE End(t)
    <2>1. /\ wrote'[t] = NoRows /\ forUpdate'[t] = {} /\ keyShare'[t] = {} /\ advisory'[t] = {}
      BY <1>2, <1>4 DEF TypeOK, End
    <2>2. QED
      BY <1>1, <2>1, ActorStaysApart DEF NoRows
  <1>5. CASE Stays
    BY <1>1, <1>3, <1>5, ActorStaysApart
  <1>6. CASE ~End(t) /\ ~Stays
    <2>1. CASE Begin(t) \/ Rollback(t) \/ Exists(t) \/ CheckParent(t) \/ CheckContent(t)
      BY <1>6, <2>1 DEF Begin, Rollback, Exists, CheckParent, CheckContent, Return, locks
    <2>2. CASE CheckPath(t) \/ CheckHeight(t) \/ CheckSamePlace(t) \/ CheckConflicts(t)
      BY <1>6, <2>2 DEF CheckPath, CheckHeight, CheckSamePlace, CheckConflicts, Return, locks
    <2>3. CASE FindDown(t) \/ CheckAlive(t) \/ FindTrashed(t) \/ Commit(t)
      BY <1>6, <2>3 DEF FindDown, CheckAlive, FindTrashed, Commit, locks
    <2>4. CASE Lock(t)
      <3>1. /\ CanLock(t, p) /\ forUpdate' = [forUpdate EXCEPT ![t] = {p}]
            /\ wrote' = wrote /\ keyShare' = keyShare /\ advisory' = advisory
        BY <1>6, <2>4 DEF Lock, Return
      <3>2. /\ pc[t] = "lock" /\ cur[t] = NoRow
        BY <1>2, <2>4 DEF Lock, At, OwnInv, Held
      <3>3. forUpdate'[t] = {p}
        BY <1>2, <3>1 DEF TypeOK
      <3>4. QED
        BY <1>1, <1>3, <3>1, <3>3, ActorStaysApart DEF CanLock
    <2>5. CASE Place(t)
      <3>1. /\ advisory'[t] = {memo[t].parent} /\ \A u \in Others(t) : memo[t].parent \notin advisory[u]
            /\ wrote' = wrote /\ keyShare' = keyShare /\ forUpdate' = forUpdate
        BY <1>2, <2>5 DEF Place, PlaceWhen, TypeOK
      <3>2. QED
        BY <1>1, <1>3, <3>1, ActorStaysApart
    <2>6. CASE Renumber(t)
      <3>1. /\ \A u \in Others(t), c \in Page : memo[t].keys[c] # 0 => wrote[u][c] = NoRow
            /\ keyShare' = keyShare /\ forUpdate' = forUpdate /\ advisory' = advisory
        BY <2>6 DEF Renumber, CanWrite, Written, locks
      <3>2. \A c \in Page : memo[t].keys[c] = 0 => wrote'[t][c] = wrote[t][c]
        BY <1>2, <2>6 DEF Renumber, TypeOK
      <3>3. QED
        BY <1>1, <1>3, <3>1, <3>2, ActorStaysApart
    <2>7. CASE TrashDown(t)
      <3>1. /\ \A u \in Others(t), c \in Page : c \in memo[t].down => wrote[u][c] = NoRow
            /\ keyShare' = keyShare /\ forUpdate' = forUpdate /\ advisory' = advisory
        BY <2>7 DEF TrashDown, CanWrite, Written, locks
      <3>2. \A c \in Page : c \notin memo[t].down => wrote'[t][c] = wrote[t][c]
        BY <1>2, <2>7 DEF TrashDown, TypeOK
      <3>3. QED
        BY <1>1, <1>3, <3>1, <3>2, ActorStaysApart
    <2>8. CASE ReviveDown(t)
      <3>1. /\ \A u \in Others(t), c \in Page : c \in memo[t].down => wrote[u][c] = NoRow
            /\ keyShare' = keyShare /\ forUpdate' = forUpdate /\ advisory' = advisory
        BY <2>8 DEF ReviveDown, CanWrite, Written, locks
      <3>2. \A c \in Page : c \notin memo[t].down => wrote'[t][c] = wrote[t][c]
        BY <1>2, <2>8 DEF ReviveDown, TypeOK
      <3>3. QED
        BY <1>1, <1>3, <3>1, <3>2, ActorStaysApart
    <2>9. CASE Insert(t)
      <3>1. /\ pc[t] = "insert" /\ CanRefer(t, req[t].parent) /\ Refer(t, req[t].parent)
            /\ \A u \in Others(t) : p \in Page => wrote[u][p] = NoRow
            /\ advisory' = advisory /\ forUpdate' = forUpdate
        BY <1>6, <2>9 DEF Insert, Return, At, Written
      <3>2. PICK row : wrote' = [wrote EXCEPT ![t][p] = row]
        BY <1>6, <2>9 DEF Insert, Return
      <3>3. \A c \in Page : c # p => wrote'[t][c] = wrote[t][c]
        BY <1>2, <3>2 DEF TypeOK, Rows
      <3>4. \A u \in Others(t) : forUpdate[u] \cap keyShare'[t] = {}
        BY <1>2, <1>3, <3>1 DEF CanRefer, Refer, TypeOK
      <3>5. QED
        BY <1>1, <1>3, <3>1, <3>3, <3>4, ActorStaysApart
    <2>10. CASE Write(t)
      <3> DEFINE referred == IF NextRow(t).parent = cur[t].parent THEN NoPage ELSE NextRow(t).parent
                 row == [NextRow(t) EXCEPT !.version = rows[p].version + 1]
      <3>1. /\ pc[t] = "write" /\ CanRefer(t, referred) /\ Refer(t, referred)
            /\ wrote' = [wrote EXCEPT ![t][p] = row]
            /\ advisory' = advisory /\ forUpdate' = forUpdate
        BY <1>6, <2>10 DEF Write, Return, At
      <3> HIDE DEF referred, row
      <3>2. p \in forUpdate[t] /\ p \in Page
        BY <1>2, <3>1, OpenRequest DEF RowsInv, CanBeAt, OwnInv, Held, Request
      <3>3. \A c \in Page : c # p => wrote'[t][c] = wrote[t][c]
        BY <1>2, <3>1 DEF TypeOK, Rows
      <3>4. \A u \in Others(t) : forUpdate[u] \cap keyShare'[t] = {}
        BY <1>2, <1>3, <3>1 DEF CanRefer, Refer, TypeOK
      <3>5. \A u \in Others(t) : wrote[u][p] = NoRow
        BY <1>2, <3>2 DEF Exclusive, Others
      <3>6. QED
        BY <1>1, <1>3, <3>1, <3>3, <3>4, <3>5, ActorStaysApart
    <2>11. QED
      BY <2>1, <2>2, <2>3, <2>4, <2>5, <2>6, <2>7, <2>8, <2>9, <2>10 DEF Step
  <1>7. QED
    BY <1>4, <1>5, <1>6

\* The trees a run starts from were made by creates.
LEMMA InitRowsInv == Init => RowsInv
  <1> SUFFICES ASSUME Init PROVE RowsInv
    OBVIOUS
  <1>1. LockInv
    BY InitLockInv
  <1>2. FreshDiffer
    <2> SUFFICES ASSUME NEW c \in Page, NEW d \in Page, c # d, Fresh(rows[c]), Fresh(rows[d]),
                        rows[c].parent = rows[d].parent
                 PROVE  rows[c].pos # rows[d].pos
      BY DEF FreshDiffer, Differ
    <2> DEFINE q == rows[c].parent
    <2>1. rows[c] \in Row /\ q \in Page \cup {NoPage}
      BY <1>1 DEF LockInv, TypeOK, Rows, Fresh, Row
    <2>2. c \in Created(rows, q) /\ d \in Created(rows, q)
      BY PageAssumption DEF Created, Siblings, LiveIn, Existing, Fresh, NoPage
    <2>3. CreatedApart(rows)
      BY InitialAssumption DEF Init
    <2>4. QED
      BY <2>1, <2>2, <2>3 DEF CreatedApart
  <1>3. ASSUME NEW t \in Tx
        PROVE  OwnRows(t)
    BY DEF Init, OwnRows, Remembers, Writes, Final, Keys, NewKeys, Placed, NoRows, Fresh
  <1>4. ASSUME NEW t \in Tx, NEW u \in Tx
        PROVE  Apart(t, u)
    BY DEF Init, Apart, NoRows
  <1>5. QED
    BY <1>1, <1>2, <1>3, <1>4 DEF RowsInv

LEMMA NextKeepsRowsInv == RowsInv /\ [Next]_vars => RowsInv'
  <1> SUFFICES ASSUME RowsInv, [Next]_vars PROVE RowsInv'
    OBVIOUS
  <1>1. LockInv'
    BY NextKeepsLockInv DEF RowsInv
  <1>2. CASE UNCHANGED vars
    <2>1. rows' = rows /\ \A u \in Tx : Same(u)
      BY <1>2 DEF vars, Same
    <2>2. \A u \in Tx : OwnRows(u)'
      BY <2>1, SameKeepsOwnRows DEF RowsInv
    <2>3. FreshDiffer' /\ \A u, w \in Tx : Apart(u, w)'
      BY <1>2 DEF RowsInv, FreshDiffer, Apart, vars
    <2>4. QED
      BY <1>1, <2>2, <2>3 DEF RowsInv
  <1>3. ASSUME NEW t \in Tx, Begin(t) \/ Step(t) \/ Rollback(t)
        PROVE  RowsInv'
    <2>1. \A u, w \in Tx : Apart(u, w)'
      BY <1>3, StepsStayApart
    <2>2. CASE Commit(t)
      <3>1. OwnRows(t)'
        BY <2>2, EndKeepsOwnRows DEF Commit, RowsInv, LockInv
      <3>2. \A u \in Tx : OwnRows(u)'
        BY <2>2, <3>1, CommitKeepsOthers
      <3>3. QED
        BY <1>1, <2>1, <2>2, <3>2, CommitKeepsFreshDiffer DEF RowsInv
    <2>3. CASE ~Commit(t)
      <3>1. rows' = rows
        BY <1>3, <2>3, RowsChangeAtCommit
      <3>2. OwnRows(t)'
        <4>1. CASE Begin(t)
          BY <4>1, BeginKeepsOwnRows
        <4>2. CASE Rollback(t)
          BY <4>2, EndKeepsOwnRows DEF Rollback, Return, RowsInv, LockInv
        <4>3. CASE Step(t)
          BY <2>3, <4>3, ReadsKeepOwnRows, PlaceKeepsOwnRows, RenumberKeepsOwnRows,
             InsertKeepsOwnRows, TrashDownKeepsOwnRows, ReviveDownKeepsOwnRows, WriteKeepsOwnRows
             DEF Step
        <4>4. QED
          BY <1>3, <4>1, <4>2, <4>3
      <3>3. ASSUME NEW u \in Tx, u # t
            PROVE  OwnRows(u)'
        BY <1>3, <3>1, <3>3, StepsAreOwn, SameKeepsOwnRows DEF RowsInv, LockInv
      <3>4. FreshDiffer'
        BY <3>1 DEF RowsInv, FreshDiffer
      <3>5. QED
        BY <1>1, <2>1, <3>2, <3>3, <3>4 DEF RowsInv
    <2>4. QED
      BY <2>2, <2>3
  <1>4. QED
    BY <1>2, <1>3 DEF Next
-----------------------------------------------------------------------------
(* What the locks together give. *)

\* In every state: what a handler has written, and the keys it found, stay as they were to it.
THEOREM RowsHold == Spec => []RowsInv
  BY InitRowsInv, NextKeepsRowsInv, PTL DEF Spec

\* Pages created under one parent have different keys, however creates, moves, renumberings,
\* deletes and restores interleave: place reads the children under lock_children's lock.
THEOREM CreatedPagesHaveTheirPlace == Spec => []RowsAreSound
  <1>1. RowsInv => RowsAreSound
    <2> SUFFICES ASSUME RowsInv, NEW q \in Page \cup {NoPage}, NEW c \in Created(rows, q),
                        NEW d \in Created(rows, q), c # d
                 PROVE  rows[c].pos # rows[d].pos
      BY DEF RowsAreSound, RowsInv, LockInv, DistinctKeys, CreatedApart
    <2>1. /\ c \in Page /\ Fresh(rows[c]) /\ rows[c].parent = q
          /\ d \in Page /\ Fresh(rows[d]) /\ rows[d].parent = q
      BY DEF Created, Siblings, LiveIn, Existing, Fresh
    <2>2. QED
      BY <2>1 DEF RowsInv, FreshDiffer, Differ
  <1>2. QED
    BY <1>1, RowsHold, PTL

\* What a commit makes of a row that was there.
LEMMA CommittedRow ==
    ASSUME RowsInv, NEW t \in Tx, Commit(t), NEW p \in Existing(rows)
    PROVE  LET r == rows[p]
               w == rows'[p]
               Is(op) == req[t].op = op
               own == req[t].page = p
           IN  /\ r \in Row /\ w \in Row
               /\ w.title # r.title => Is("patch") /\ own /\ req[t].title = w.title
               /\ w.type # r.type => Is("patch") /\ own /\ req[t].type = w.type
               /\ w.parent # r.parent =>
                    (Is("move") \/ Is("restore")) /\ own /\ w.parent \in keyShare[t] \cup {NoPage}
               /\ w.root # r.root => (Is("delete") /\ w.root # NoPage) \/ Is("restore")
               /\ w.by = r.by
               /\ w.version > r.version \/ w = [r EXCEPT !.pos = w.pos]
  <1> DEFINE r == rows[p]
             w == wrote[t][p]
  <1>1. /\ pc[t] = "commit" /\ OwnInv(t) /\ OwnRows(t) /\ TypeOK /\ p \in Page /\ r # NoRow
        /\ rows'[p] = IF w # NoRow THEN w ELSE r
    BY DEF Commit, At, View, RowsInv, LockInv, Existing
  <1>2. r \in Row /\ (w # NoRow => w \in Row)
    BY <1>1 DEF TypeOK, Rows
  <1>3. req[t] \in Request /\ req[t].page # NoPage
    BY <1>1, OpenRequest, PageAssumption DEF RowsInv, Request, NoPage
  <1>4. CASE w = NoRow
    BY <1>1, <1>2, <1>4 DEF Row
  <1>5. CASE w # NoRow /\ p # req[t].page
    <2>1. Kept(t, p)
      BY <1>1, <1>5 DEF OwnRows, Writes
    <2>2. CASE w.root = r.root /\ w.version = r.version
      <3>1. w = [r EXCEPT !.pos = w.pos]
        BY <1>2, <1>5, <2>1, <2>2 DEF Kept, Row
      <3>2. QED
        BY <1>1, <1>2, <1>5, <2>1, <2>2, <3>1 DEF Kept
    <2>3. CASE ~(w.root = r.root /\ w.version = r.version)
      <3>1. w.version > r.version
        BY <1>2, <1>5, <2>1, <2>3 DEF Kept, Row
      <3>2. QED
        BY <1>1, <1>2, <1>3, <1>5, <2>1, <2>3, <3>1 DEF Kept
    <2>4. QED
      BY <2>2, <2>3
  <1>6. CASE w # NoRow /\ p = req[t].page
    <2> DEFINE new == NextRow(t)
    <2>1. req[t].op # "create"
      BY <1>1, <1>6 DEF OwnRows, Final
    <2>2. /\ w.parent = new.parent /\ w.pos = new.pos /\ w.title = new.title
          /\ w.type = new.type /\ w.root = new.root /\ w.by = new.by
          /\ w.version = cur[t].version + 1
          /\ w.parent # cur[t].parent => w.parent \in keyShare[t] \cup {NoPage}
      BY <1>1, <1>6, <2>1 DEF OwnRows, Final
    <2>3. cur[t] = r
      BY <1>1, <1>6, <2>1 DEF OwnInv, Held
    <2>4. w.version > r.version
      BY <1>2, <2>2, <2>3 DEF Row
    <2>5. /\ new.title # r.title => req[t].op = "patch" /\ req[t].title = new.title
          /\ new.type # r.type => req[t].op = "patch" /\ req[t].type = new.type
          /\ new.parent # r.parent => req[t].op \in {"move", "restore"}
          /\ new.root # r.root => (req[t].op = "delete" /\ new.root # NoPage) \/ req[t].op = "restore"
          /\ new.by = r.by
      <3>1. CASE req[t].op = "move"
        BY <1>2, <2>3, <3>1 DEF NextRow, Row
      <3>2. CASE req[t].op = "patch"
        BY <1>2, <2>3, <3>2 DEF NextRow, Row
      <3>3. CASE req[t].op = "delete"
        BY <1>2, <1>3, <2>3, <3>3 DEF NextRow, Row
      <3>4. CASE req[t].op = "restore"
        BY <1>2, <2>3, <3>4 DEF NextRow, Row
      <3>5. QED
        BY <1>3, <2>1, <3>1, <3>2, <3>3, <3>4 DEF Request, AllOps
    <2> HIDE DEF new
    <2>6. QED
      BY <1>1, <1>2, <1>6, <2>2, <2>3, <2>4, <2>5
  <1>7. QED
    BY <1>4, <1>5, <1>6

\* An edit does not undo a move, a move does not undo an edit: a field of a page changes only by a
\* request for it, with a new version.
THEOREM FieldsChangeOnRequest == Spec => FieldsChangeByRequest
  <1> DEFINE A == \A p \in Existing(rows) : \E t \in Tx :
                    LET Is(op) == Commit(t) /\ req[t].op = op
                        own == req[t].page = p
                    IN  /\ rows'[p].title # rows[p].title
                             => Is("patch") /\ own /\ req[t].title = rows'[p].title
                        /\ rows'[p].type # rows[p].type
                             => Is("patch") /\ own /\ req[t].type = rows'[p].type
                        /\ rows'[p].parent # rows[p].parent => (Is("move") \/ Is("restore")) /\ own
                        /\ rows'[p].root # rows[p].root => Is("delete") \/ Is("restore")
                        /\ [rows'[p] EXCEPT !.pos = rows[p].pos] # rows[p]
                              => rows'[p].version > rows[p].version
  <1>1. RowsInv /\ [Next]_vars => [A]_vars
    <2> SUFFICES ASSUME RowsInv, NEW t \in Tx, Begin(t) \/ Step(t) \/ Rollback(t),
                        NEW p \in Existing(rows)
                 PROVE  /\ rows'[p].title # rows[p].title
                             => Commit(t) /\ req[t].op = "patch" /\ req[t].page = p /\ req[t].title = rows'[p].title
                        /\ rows'[p].type # rows[p].type
                             => Commit(t) /\ req[t].op = "patch" /\ req[t].page = p /\ req[t].type = rows'[p].type
                        /\ rows'[p].parent # rows[p].parent
                             => Commit(t) /\ req[t].op \in {"move", "restore"} /\ req[t].page = p
                        /\ rows'[p].root # rows[p].root => Commit(t) /\ req[t].op \in {"delete", "restore"}
                        /\ [rows'[p] EXCEPT !.pos = rows[p].pos] # rows[p]
                              => rows'[p].version > rows[p].version
      BY DEF Next
    <2>1. CASE Commit(t)
      <3>1. rows'[p] = [rows[p] EXCEPT !.pos = rows'[p].pos]
              => [rows'[p] EXCEPT !.pos = rows[p].pos] = rows[p]
        BY <2>1, CommittedRow DEF Row
      <3>2. QED
        BY <2>1, <3>1, CommittedRow
    <2>2. CASE ~Commit(t)
      <3>1. rows' = rows /\ rows[p] \in Row
        BY <2>2, RowsChangeAtCommit DEF RowsInv, LockInv, TypeOK, Rows, Existing
      <3>2. QED
        BY <3>1 DEF Row
    <2>3. QED
      BY <2>1, <2>2
  <1>2. QED
    BY <1>1, RowsHold, PTL DEF Spec, FieldsChangeByRequest

\* Once has_content found no live child the page gets none before the type is committed, but by a
\* restore: a child that is created or moved in waits for the lock its foreign key takes.
THEOREM TypeChangesOfEmptyPages == Spec => TypeChangesWhileEmpty
  <1> DEFINE A == \A t \in Tx : Retyping(t)' =>
                    \A c \in Siblings(rows', req'[t].page, NoPage) :
                       \/ Retyping(t) /\ c \in Siblings(rows, req[t].page, NoPage)
                       \/ \E u \in Tx : Commit(u) /\ req[u].op = "restore"
  <1>1. RowsInv /\ [Next]_vars => [A]_vars
    <2> SUFFICES ASSUME RowsInv, NEW u \in Tx, Begin(u) \/ Step(u) \/ Rollback(u),
                        NEW t \in Tx, Retyping(t)', NEW c \in Siblings(rows', req'[t].page, NoPage),
                        ~(Commit(u) /\ req[u].op = "restore")
                 PROVE  Retyping(t) /\ c \in Siblings(rows, req[t].page, NoPage)
      BY DEF Next
    <2> DEFINE p == req[t].page
    <2>1. /\ TypeOK /\ OwnInv(t) /\ OwnRows(u) /\ OwnInv(u)
          /\ pc'[t] \in {"write", "commit"} /\ req'[t].op = "patch"
          /\ req'[t].type \notin {Unset, cur'[t].type}
      BY DEF RowsInv, LockInv, Retyping
    <2>2. CASE t = u
      <3>1. ~End(t) /\ ~Begin(t)
        BY <2>1 DEF Begin, End, Goto, TypeOK
      <3>2. CASE CheckConflicts(t)
        BY <2>1, <3>1, <3>2 DEF CheckConflicts, Return, Goto, TypeOK
      <3>3. CASE CheckContent(t)
        BY <2>1, <3>1, <3>3 DEF CheckContent, Return
      <3>4. CASE Write(t)
        <4>1. pc[t] = "write" /\ rows' = rows /\ req' = req /\ cur' = cur
          BY <3>1, <3>4 DEF Write, Return, At
        <4>2. QED
          BY <2>1, <4>1 DEF Retyping
      <3>5. pc[t] # "idle" => CanBeAt(pc[t], req[t].op)
        BY OpenRequest DEF RowsInv
      <3>6. ~(Lock(t) \/ Exists(t) \/ CheckParent(t))
        BY <2>1, <3>1, <3>5 DEF Lock, Exists, CheckParent, Return, At, Goto, TypeOK, CanBeAt
      <3>7. ~(CheckPath(t) \/ CheckHeight(t) \/ CheckSamePlace(t))
        BY <2>1, <3>1, <3>5 DEF CheckPath, CheckHeight, CheckSamePlace, Return, At, Goto, TypeOK, CanBeAt
      <3>8. ~(Place(t) \/ Renumber(t) \/ Insert(t))
        BY <2>1, <3>1, <3>5 DEF Place, PlaceWhen, Renumber, Insert, Return, At, TypeOK, CanBeAt
      <3>9. ~(FindDown(t) \/ TrashDown(t) \/ CheckAlive(t) \/ FindTrashed(t) \/ ReviveDown(t))
        BY <2>1, <3>1, <3>5 DEF FindDown, TrashDown, CheckAlive, FindTrashed, ReviveDown, At, TypeOK, CanBeAt
      <3>10. QED
        BY <2>2, <3>1, <3>2, <3>3, <3>4, <3>6, <3>7, <3>8, <3>9 DEF Step, Commit, Rollback, Return
    <2>3. CASE t # u
      <3>1. Same(t)
        BY <2>1, <2>3, StepsAreOwn
      <3>2. Retyping(t) /\ req'[t] = req[t]
        BY <2>1, <3>1 DEF Retyping, Same
      <3>3. CASE ~Commit(u)
        BY <3>2, <3>3, RowsChangeAtCommit
      <3>4. CASE Commit(u)
        <4>1. /\ p \in forUpdate[t] /\ p \in Page /\ p # NoPage /\ p \notin keyShare[u]
          <5>1. p \in forUpdate[t] /\ p \in Page
            BY <2>1, <3>2 DEF OwnInv, Held, Retyping, Request
          <5>2. QED
            BY <2>3, <5>1, PageAssumption DEF RowsInv, Apart, NoPage
        <4>2. c \in Page /\ rows'[c] # NoRow /\ rows'[c].root = NoPage /\ rows'[c].parent = p
          BY <3>2 DEF Siblings, LiveIn, Existing
        <4>3. rows[c] # NoRow
          <5> SUFFICES ASSUME rows[c] = NoRow PROVE FALSE
            OBVIOUS
          <5>1. wrote[u][c] # NoRow /\ rows'[c] = wrote[u][c] /\ pc[u] = "commit"
            BY <3>4, <4>2 DEF Commit, At, View
          <5>2. c = req[u].page
            BY <2>1, <4>2, <5>1 DEF OwnRows, Writes, Kept
          <5>3. req[u].op = "create"
            BY <2>1, <5>1, <5>2, OpenRequest, NoRowAssumption DEF RowsInv, OwnInv, Held
          <5>4. QED
            BY <2>1, <4>1, <4>2, <5>1, <5>2, <5>3 DEF OwnRows, Final
        <4>4. rows[c].parent = p /\ rows[c].root = NoPage
          <5>1. c \in Existing(rows)
            BY <4>2, <4>3 DEF Existing
          <5>2. /\ rows'[c].parent # rows[c].parent => rows'[c].parent \in keyShare[u] \cup {NoPage}
                /\ rows'[c].root # rows[c].root =>
                     (req[u].op = "delete" /\ rows'[c].root # NoPage) \/ req[u].op = "restore"
            BY <3>4, <5>1, CommittedRow
          <5>3. QED
            BY <3>4, <4>1, <4>2, <5>2
        <4>5. QED
          BY <3>2, <4>2, <4>3, <4>4 DEF Siblings, LiveIn, Existing
      <3>5. QED
        BY <3>3, <3>4
    <2>4. QED
      BY <2>2, <2>3
  <1>2. QED
    BY <1>1, RowsHold, PTL DEF Spec, TypeChangesWhileEmpty
-----------------------------------------------------------------------------
(* One transaction after the other. *)

Good(q) == q = NoPage \/ q \in LiveIn(rows)

\* check_parent of a new page: a live parent, not too deep
CreateGoes(t) ==
    LET q == req[t].parent
    IN  req[t].op = "create" =>
        /\ pc[t] = "path" => q \in LiveIn(rows)
        /\ pc[t] \in {"place", "renumber", "insert", "commit"} =>
             Good(q) /\ DepthOf(ParentIn(rows), q) + 1 <= MaxDepth

\* move_page: a live page, a live parent not below it, and its subtree not too deep
MoveGoes(t) ==
    LET p == req[t].page
        q == req[t].parent
    IN  req[t].op = "move" =>
        /\ pc[t] = "lock" => memo[t].depth = 0
        /\ pc[t] \notin {"idle", "lock"} => cur[t].root = NoPage
        /\ pc[t] = "path" => q \in LiveIn(rows)
        /\ pc[t] \in {"height", "samePlace", "place", "renumber", "write", "commit"} =>
             /\ Good(q)
             /\ q # NoPage => p \notin Up(ParentIn(rows), q)
             /\ memo[t].depth = DepthOf(ParentIn(rows), q)
        /\ pc[t] \in {"samePlace", "place", "renumber", "write", "commit"} =>
             memo[t].depth + Height(ParentIn(rows), LiveIn(rows), p) <= MaxDepth

\* delete_page: a live page, with all live pages below it and no other
DeleteGoes(t) ==
    LET p == req[t].page
        under == LiveUnder(ParentIn(rows), LiveIn(rows), p)
    IN  req[t].op = "delete" =>
        /\ pc[t] \notin {"idle", "lock"} => cur[t].root = NoPage
        /\ pc[t] = "trash" => memo[t].down = under
        /\ pc[t] \in {"write", "commit"} =>
             \A d \in Page \ {p} : IF d \in under THEN wrote[t][d] # NoRow /\ wrote[t][d].root = p
                                                  ELSE wrote[t][d] = NoRow

\* restore_page: a page trashed by itself, with all that was trashed with it and no other, back at
\* its place or at the root
RestoreGoes(t) ==
    LET p == req[t].page
    IN  req[t].op = "restore" =>
        /\ pc[t] \notin {"idle", "lock"} => cur[t].root = p
        /\ pc[t] \in {"place", "renumber", "revive", "reviveDown", "write", "commit"} =>
             memo[t].parent = IF Good(cur[t].parent) THEN cur[t].parent ELSE NoPage
        /\ pc[t] = "reviveDown" =>
             memo[t].down = {d \in Existing(rows) \ {p} : rows[d].root = p}
        /\ pc[t] \in {"write", "commit"} =>
             \A d \in Existing(rows) \ {p} :
                Sees(t, d).root = IF rows[d].root = p THEN NoPage ELSE rows[d].root

Progress(t) == CreateGoes(t) /\ MoveGoes(t) /\ DeleteGoes(t) /\ RestoreGoes(t)
-----------------------------------------------------------------------------
(* Every statement leaves Progress to the next. *)

LEMMA EndKeepsProgress ==
    ASSUME TypeOK, NEW t \in Tx, End(t)
    PROVE  Progress(t)'
  <1>1. pc'[t] = "idle"
    BY DEF TypeOK, End, Goto
  <1>2. QED
    BY <1>1 DEF Progress, CreateGoes, MoveGoes, DeleteGoes, RestoreGoes

LEMMA BeginKeepsProgress ==
    ASSUME RowsInv, NEW t \in Tx, Begin(t)
    PROVE  Progress(t)'
  <1>1. PICK r : /\ memo' = [memo EXCEPT ![t].parent = r.parent]
                 /\ req' = [req EXCEPT ![t] = r]
                 /\ Goto(t, IF r.op = "create" THEN "exists" ELSE "lock")
    BY DEF Begin
  <1>2. /\ pc'[t] \in {"exists", "lock"} /\ memo'[t].depth = memo[t].depth
        /\ pc'[t] = "exists" => req'[t].op = "create"
    BY <1>1 DEF RowsInv, LockInv, TypeOK, Goto, Memo
  <1>3. memo[t].depth = 0
    BY DEF Begin, At, RowsInv, OwnRows, Remembers, EmptyMemo
  <1>4. QED
    BY <1>2, <1>3 DEF Progress, CreateGoes, MoveGoes, DeleteGoes, RestoreGoes

\* The rows stay: what was found in them is there still.
LEMMA ChecksKeepProgress ==
    ASSUME RowsInv, NEW t \in Tx, Progress(t),
           Lock(t) \/ Exists(t) \/ CheckParent(t) \/ CheckPath(t) \/ CheckHeight(t) \/ CheckSamePlace(t)
    PROVE  Progress(t)'
  <1>1. CASE End(t)
    BY <1>1, EndKeepsProgress DEF RowsInv, LockInv
  <1>2. CASE ~End(t)
    <2>1. /\ TypeOK
          /\ pc[t] # "idle" => req[t] \in Request /\ CanBeAt(pc[t], req[t].op)
      BY OpenRequest DEF RowsInv, LockInv
    <2>2. CASE Lock(t)
      <3> DEFINE p == req[t].page
                 op == req[t].op
                 s == CASE op = "move" -> IF req[t].parent = NoPage THEN "height" ELSE "parent"
                        [] op = "patch" -> "conflicts"
                        [] op = "delete" -> "down"
                        [] op = "restore" -> "alive"
      <3>1. /\ pc[t] = "lock" /\ Goto(t, s) /\ cur' = [cur EXCEPT ![t] = rows[p]]
            /\ op \in {"move", "patch", "delete"} => rows[p].root = NoPage
            /\ op = "restore" => rows[p].root = p
            /\ UNCHANGED <<rows, req, memo, wrote>>
        BY <1>2, <2>2 DEF Lock, Return, At
      <3>2. /\ pc'[t] = s /\ cur'[t] = rows[p] /\ op \in {"move", "patch", "delete", "restore"}
        BY <2>1, <3>1 DEF TypeOK, Goto, CanBeAt, Request, AllOps
      <3>3. CASE op = "move"
        <4>1. pc'[t] = (IF req[t].parent = NoPage THEN "height" ELSE "parent")
          BY <3>2, <3>3
        <4>2. QED
          BY <3>1, <3>2, <3>3, <4>1
             DEF Progress, CreateGoes, MoveGoes, DeleteGoes, RestoreGoes, Good, DepthOf
      <3>4. CASE op # "move"
        <4>1. pc'[t] \in {"conflicts", "down", "alive"}
          BY <3>2, <3>4
        <4>2. QED
          BY <3>1, <3>2, <3>4, <4>1 DEF Progress, CreateGoes, MoveGoes, DeleteGoes, RestoreGoes
      <3>5. QED
        BY <3>3, <3>4
    <2>3. CASE Exists(t)
      <3>1. /\ pc[t] = "exists" /\ pc'[t] = (IF req[t].parent = NoPage THEN "place" ELSE "parent")
            /\ UNCHANGED <<rows, req, memo, cur, wrote>>
        BY <1>2, <2>1, <2>3 DEF Exists, Return, At, Goto, TypeOK
      <3>2. req[t].op = "create"
        BY <2>1, <3>1 DEF CanBeAt
      <3>3. QED
        BY <3>1, <3>2, DepthAssumption
           DEF Progress, CreateGoes, MoveGoes, DeleteGoes, RestoreGoes, Good, DepthOf
    <2>4. CASE CheckParent(t)
      <3>1. /\ pc[t] = "parent" /\ pc'[t] = "path" /\ req[t].parent \in LiveIn(rows)
            /\ UNCHANGED <<rows, req, memo, cur, wrote>>
        BY <1>2, <2>1, <2>4 DEF CheckParent, Return, At, Goto, TypeOK
      <3>2. req[t].op \in {"create", "move"}
        BY <2>1, <3>1 DEF CanBeAt
      <3>3. QED
        BY <3>1, <3>2 DEF Progress, CreateGoes, MoveGoes, DeleteGoes, RestoreGoes
    <2>5. CASE CheckPath(t)
      <3> DEFINE q == req[t].parent
                 path == Up(ParentIn(rows), q)
                 creating == req[t].op = "create"
      <3>1. /\ pc[t] = "path" /\ Goto(t, IF creating THEN "place" ELSE "height")
            /\ ~(~creating /\ req[t].page \in path)
            /\ ~(creating /\ Cardinality(path) + 1 > MaxDepth)
            /\ memo' = [memo EXCEPT ![t].depth = Cardinality(path)]
            /\ UNCHANGED <<rows, req, cur, wrote>>
        BY <1>2, <2>5 DEF CheckPath, Return, At
      <3>2. req[t].op \in {"create", "move"} /\ Cardinality(path) \in Nat /\ MaxDepth \in Nat
        BY <2>1, <3>1, PagesCount, DepthAssumption DEF CanBeAt, Up
      <3>3. q \in LiveIn(rows) /\ q # NoPage
        BY <3>1, <3>2, PageAssumption DEF Progress, CreateGoes, MoveGoes, LiveIn, Existing, NoPage
      <3>4. DepthOf(ParentIn(rows), q) = Cardinality(path)
        BY <3>3 DEF DepthOf
      <3>5. pc'[t] = (IF creating THEN "place" ELSE "height") /\ memo'[t].depth = Cardinality(path)
        BY <2>1, <3>1 DEF TypeOK, Goto, Memo
      <3>6. creating => DepthOf(ParentIn(rows), q) + 1 <= MaxDepth
        BY <3>1, <3>2, <3>4
      <3>7. QED
        BY <3>1, <3>2, <3>3, <3>4, <3>5, <3>6
           DEF Progress, CreateGoes, MoveGoes, DeleteGoes, RestoreGoes, Good
    <2>6. CASE CheckHeight(t)
      <3> DEFINE h == Height(ParentIn(rows), LiveIn(rows), req[t].page)
      <3>1. /\ pc[t] = "height" /\ pc'[t] \in {"samePlace", "place"} /\ memo[t].depth + h <= MaxDepth
            /\ UNCHANGED <<rows, req, memo, cur, wrote>>
        BY <1>2, <2>1, <2>6 DEF CheckHeight, Return, At, Goto, TypeOK
      <3>2. req[t].op = "move"
        BY <2>1, <3>1 DEF CanBeAt
      <3>3. QED
        BY <3>1, <3>2 DEF Progress, CreateGoes, MoveGoes, DeleteGoes, RestoreGoes, Good
    <2>7. CASE CheckSamePlace(t)
      <3>1. /\ pc[t] = "samePlace" /\ pc'[t] = "place"
            /\ UNCHANGED <<rows, req, memo, cur, wrote>>
        BY <1>2, <2>1, <2>7 DEF CheckSamePlace, Return, At, Goto, TypeOK
      <3>2. req[t].op = "move"
        BY <2>1, <3>1 DEF CanBeAt
      <3>3. QED
        BY <3>1, <3>2 DEF Progress, CreateGoes, MoveGoes, DeleteGoes, RestoreGoes, Good
    <2>8. QED
      BY <2>2, <2>3, <2>4, <2>5, <2>6, <2>7
  <1>3. QED
    BY <1>1, <1>2

LEMMA PlaceKeepsProgress ==
    ASSUME RowsInv, NEW t \in Tx, Progress(t),
           Place(t) \/ Renumber(t) \/ CheckConflicts(t) \/ CheckContent(t) \/ CheckAlive(t)
    PROVE  Progress(t)'
  <1>1. CASE End(t)
    BY <1>1, EndKeepsProgress DEF RowsInv, LockInv
  <1>2. CASE ~End(t)
    <2>1. /\ TypeOK
          /\ pc[t] # "idle" => req[t] \in Request /\ CanBeAt(pc[t], req[t].op)
      BY OpenRequest DEF RowsInv, LockInv
    <2>2. CASE Place(t)
      <3>1. /\ pc[t] = "place" /\ UNCHANGED <<rows, req, cur, wrote>>
            /\ memo'[t].depth = memo[t].depth /\ memo'[t].parent = memo[t].parent
            /\ Goto(t, "renumber") \/ Goto(t, AfterPlace(t))
        BY <2>1, <2>2 DEF Place, PlaceWhen, At, TypeOK, Memo
      <3>2. req[t].op \in {"create", "move", "restore"}
        BY <2>1, <3>1 DEF CanBeAt
      <3>3. \/ pc'[t] = "renumber"
            \/ pc'[t] = "insert" /\ req[t].op = "create"
            \/ pc'[t] = "write" /\ req[t].op = "move"
            \/ pc'[t] = "revive" /\ req[t].op = "restore"
        BY <2>1, <3>1, <3>2 DEF Goto, TypeOK, AfterPlace
      <3>4. QED
        BY <3>1, <3>2, <3>3 DEF Progress, CreateGoes, MoveGoes, DeleteGoes, RestoreGoes, Good
    <2>3. CASE Renumber(t)
      <3>1. /\ pc[t] = "renumber" /\ UNCHANGED <<rows, req, cur, memo>> /\ Goto(t, AfterPlace(t))
        BY <2>3 DEF Renumber, At
      <3>2. req[t].op \in {"create", "move", "restore"}
        BY <2>1, <3>1 DEF CanBeAt
      <3>3. \/ pc'[t] = "insert" /\ req[t].op = "create"
            \/ pc'[t] = "write" /\ req[t].op = "move"
            \/ pc'[t] = "revive" /\ req[t].op = "restore"
        BY <2>1, <3>1, <3>2 DEF Goto, TypeOK, AfterPlace
      <3>4. QED
        BY <3>1, <3>2, <3>3 DEF Progress, CreateGoes, MoveGoes, DeleteGoes, RestoreGoes, Good
    <2>4. CASE CheckConflicts(t) \/ CheckContent(t)
      <3>1. /\ pc[t] \in {"conflicts", "content"} /\ req' = req
        BY <1>2, <2>4 DEF CheckConflicts, CheckContent, Return, At
      <3>2. req[t].op = "patch"
        BY <2>1, <3>1 DEF CanBeAt
      <3>3. QED
        BY <3>1, <3>2 DEF Progress, CreateGoes, MoveGoes, DeleteGoes, RestoreGoes
    <2>5. CASE CheckAlive(t)
      <3>1. /\ pc[t] = "alive" /\ pc'[t] \in {"revive", "place"} /\ UNCHANGED <<rows, req, cur, wrote>>
            /\ memo'[t].parent = IF Good(cur[t].parent) THEN cur[t].parent ELSE NoPage
        BY <2>1, <2>5 DEF CheckAlive, At, Goto, TypeOK, Memo, Good
      <3>2. req[t].op = "restore"
        BY <2>1, <3>1 DEF CanBeAt
      <3>3. QED
        BY <3>1, <3>2 DEF Progress, CreateGoes, MoveGoes, DeleteGoes, RestoreGoes, Good
    <2>6. QED
      BY <2>2, <2>3, <2>4, <2>5
  <1>3. QED
    BY <1>1, <1>2

\* trash_descendants: the pages it found are the pages it writes.
LEMMA DeleteKeepsProgress ==
    ASSUME RowsInv, NEW t \in Tx, Progress(t), FindDown(t) \/ TrashDown(t)
    PROVE  Progress(t)'
  <1> DEFINE p == req[t].page
             under == LiveUnder(ParentIn(rows), LiveIn(rows), p)
  <1>1. /\ TypeOK /\ OwnInv(t) /\ OwnRows(t)
        /\ pc[t] # "idle" => req[t] \in Request /\ CanBeAt(pc[t], req[t].op)
    BY OpenRequest DEF RowsInv, LockInv
  <1>2. CASE FindDown(t)
    <2>1. /\ pc[t] = "down" /\ pc'[t] = "trash" /\ UNCHANGED <<rows, req, cur, wrote>>
          /\ memo'[t].down = under
      BY <1>1, <1>2 DEF FindDown, At, Goto, TypeOK, Memo
    <2>2. req[t].op = "delete"
      BY <1>1, <2>1 DEF CanBeAt
    <2>3. QED
      BY <2>1, <2>2 DEF Progress, CreateGoes, MoveGoes, DeleteGoes, RestoreGoes
  <1>3. CASE TrashDown(t)
    <2>1. /\ pc[t] = "trash" /\ pc'[t] = "write" /\ UNCHANGED <<rows, req, cur, memo>>
          /\ wrote' = [wrote EXCEPT ![t] =
                          [d \in Page |-> IF d \in memo[t].down
                                          THEN [rows[d] EXCEPT !.root = p, !.version = @ + 1]
                                          ELSE @[d]]]
      BY <1>1, <1>3 DEF TrashDown, At, Goto, TypeOK
    <2>2. req[t].op = "delete" /\ p \in Page
      BY <1>1, <2>1 DEF CanBeAt, Request
    <2>3. memo[t].down = under
      BY <2>1, <2>2 DEF Progress, DeleteGoes
    <2> HIDE DEF under
    <2>4. ASSUME NEW d \in Page, d \in under
          PROVE  wrote'[t][d] # NoRow /\ wrote'[t][d].root = p
      <3>1. rows[d] \in Row
        BY <1>1, <2>3, <2>4 DEF OwnInv, Seen, TypeOK, Rows
      <3>2. wrote'[t][d] = [rows[d] EXCEPT !.root = p, !.version = rows[d].version + 1]
        BY <1>1, <2>1, <2>3, <2>4 DEF TypeOK
      <3>3. p \in Page \cup {NoPage}
        BY <2>2
      <3>4. wrote'[t][d] \in Row
        BY <3>1, <3>2, <3>3, MarkedRowIsRow
      <3>5. wrote'[t][d].root = p
        BY <3>1, <3>2 DEF Row
      <3>6. QED
        BY <3>4, <3>5, NoRowAssumption
    <2>5. \A d \in Page : d \notin under => wrote'[t][d] = NoRow
      BY <1>1, <2>1, <2>3 DEF TypeOK, OwnRows, Writes, Reading, NoRows
    <2>6. rows' = rows /\ req' = req /\ cur' = cur /\ pc'[t] = "write" /\ pc[t] = "trash"
      BY <2>1
    <2>7. QED
      BY <2>2, <2>4, <2>5, <2>6 DEF Progress, CreateGoes, MoveGoes, DeleteGoes, RestoreGoes, under
  <1>4. QED
    BY <1>2, <1>3

\* restore_descendants: the pages it found are the pages it writes.
LEMMA RestoreKeepsProgress ==
    ASSUME RowsInv, NEW t \in Tx, Progress(t), FindTrashed(t) \/ ReviveDown(t)
    PROVE  Progress(t)'
  <1> DEFINE p == req[t].page
  <1>1. /\ TypeOK /\ OwnInv(t) /\ OwnRows(t)
        /\ pc[t] # "idle" => req[t] \in Request /\ CanBeAt(pc[t], req[t].op)
    BY OpenRequest DEF RowsInv, LockInv
  <1>2. CASE FindTrashed(t)
    <2>1. /\ pc[t] = "revive" /\ pc'[t] = "reviveDown" /\ UNCHANGED <<rows, req, cur, wrote>>
          /\ memo'[t].down = {d \in Existing(rows) \ {p} : rows[d].root = p}
          /\ memo'[t].parent = memo[t].parent
      BY <1>1, <1>2 DEF FindTrashed, At, Goto, TypeOK, Memo
    <2>2. req[t].op = "restore"
      BY <1>1, <2>1 DEF CanBeAt
    <2>3. QED
      BY <2>1, <2>2 DEF Progress, CreateGoes, MoveGoes, DeleteGoes, RestoreGoes, Good
  <1>3. CASE ReviveDown(t)
    <2>1. /\ pc[t] = "reviveDown" /\ pc'[t] = "write" /\ UNCHANGED <<rows, req, cur, memo>>
          /\ wrote' = [wrote EXCEPT ![t] =
                          [d \in Page |->
                              IF d \in memo[t].down /\ rows[d].root = p
                              THEN [View(t)[d] EXCEPT !.root = NoPage, !.version = @ + 1]
                              ELSE @[d]]]
      BY <1>1, <1>3 DEF ReviveDown, At, Goto, TypeOK
    <2>2. req[t].op = "restore" /\ p \in Page
      BY <1>1, <2>1 DEF CanBeAt, Request
    <2>3. memo[t].down = {d \in Existing(rows) \ {p} : rows[d].root = p}
      BY <2>1, <2>2 DEF Progress, RestoreGoes
    <2>4. ASSUME NEW d \in Existing(rows) \ {p}, rows[d].root = p
          PROVE  wrote'[t][d] # NoRow /\ wrote'[t][d].root = NoPage
      <3>1. d \in Page /\ View(t)[d] \in Row
        BY <1>1, ViewIsRows DEF View, Existing, Rows, TypeOK
      <3>2. wrote'[t][d] = [View(t)[d] EXCEPT !.root = NoPage, !.version = View(t)[d].version + 1]
        BY <1>1, <2>1, <2>3, <2>4, <3>1 DEF TypeOK
      <3>3. NoPage \in Page \cup {NoPage}
        OBVIOUS
      <3>4. wrote'[t][d] \in Row
        BY <3>1, <3>2, <3>3, MarkedRowIsRow
      <3>5. wrote'[t][d].root = NoPage
        BY <3>1, <3>2 DEF Row
      <3>6. QED
        BY <3>4, <3>5, NoRowAssumption
    <2>5. ASSUME NEW d \in Existing(rows) \ {p}, rows[d].root # p
          PROVE  Sees(t, d)'.root = rows[d].root
      <3>1. wrote'[t][d] = wrote[t][d] /\ d \in Page
        BY <1>1, <2>1, <2>5 DEF TypeOK, Existing
      <3>2. wrote[t][d] # NoRow => Kept(t, d) /\ wrote[t][d].version = rows[d].version
        BY <1>1, <2>1, <2>5, <3>1 DEF OwnRows, Writes
      <3>3. rows[d] \in Row
        BY <1>1 DEF TypeOK, Rows, Existing
      <3>4. wrote[t][d] # NoRow => wrote[t][d].root = rows[d].root
        BY <2>2, <3>2, <3>3 DEF Kept, Row
      <3>5. rows' = rows
        BY <2>1
      <3>6. QED
        BY <3>1, <3>4, <3>5 DEF Sees
    <2>6. rows' = rows /\ req' = req /\ cur' = cur /\ memo' = memo /\ pc'[t] = "write" /\ pc[t] = "reviveDown"
      BY <2>1
    <2>7. \A d \in Existing(rows) \ {p} :
             Sees(t, d)'.root = IF rows[d].root = p THEN NoPage ELSE rows[d].root
      BY <2>4, <2>5 DEF Sees
    <2>8. QED
      BY <2>2, <2>6, <2>7 DEF Progress, CreateGoes, MoveGoes, DeleteGoes, RestoreGoes, Good
  <1>4. QED
    BY <1>2, <1>3

\* The page's own row is written last: nothing else of what was written changes.
LEMMA LastKeepsProgress ==
    ASSUME RowsInv, NEW t \in Tx, Progress(t), Insert(t) \/ Write(t)
    PROVE  Progress(t)'
  <1>1. CASE End(t)
    BY <1>1, EndKeepsProgress DEF RowsInv, LockInv
  <1>2. CASE ~End(t)
    <2> DEFINE p == req[t].page
    <2>1. /\ TypeOK
          /\ pc[t] # "idle" => req[t] \in Request /\ CanBeAt(pc[t], req[t].op)
      BY OpenRequest DEF RowsInv, LockInv
    <2>2. /\ pc[t] \in {"insert", "write"} /\ pc'[t] = "commit"
          /\ (pc[t] = "insert" <=> req[t].op = "create")
          /\ UNCHANGED <<rows, req, cur, memo>>
          /\ \A d \in Page : d # p => wrote'[t][d] = wrote[t][d]
      <3>1. CASE Insert(t)
        <4>1. pc[t] = "insert" /\ Goto(t, "commit") /\ UNCHANGED <<rows, req, cur, memo>>
          BY <1>2, <3>1 DEF Insert, Return, At
        <4>2. PICK row : wrote' = [wrote EXCEPT ![t][p] = row]
          BY <1>2, <3>1 DEF Insert, Return
        <4>3. QED
          BY <2>1, <4>1, <4>2 DEF TypeOK, Goto, Rows, CanBeAt
      <3>2. CASE Write(t)
        <4> DEFINE row == [NextRow(t) EXCEPT !.version = rows[p].version + 1]
        <4>1. /\ pc[t] = "write" /\ Goto(t, "commit") /\ UNCHANGED <<rows, req, cur, memo>>
              /\ wrote' = [wrote EXCEPT ![t][p] = row]
          BY <1>2, <3>2 DEF Write, Return, At
        <4> HIDE DEF row
        <4>2. QED
          BY <2>1, <4>1 DEF TypeOK, Goto, Rows, CanBeAt
      <3>3. QED
        BY <3>1, <3>2
    <2>3. \A d \in Page : d # p => Sees(t, d)' = Sees(t, d)
      BY <2>2 DEF Sees
    <2>4. CASE req[t].op = "create"
      BY <2>2, <2>4 DEF Progress, CreateGoes, MoveGoes, DeleteGoes, RestoreGoes, Good
    <2>5. CASE req[t].op # "create"
      BY <2>2, <2>3, <2>5 DEF Progress, CreateGoes, MoveGoes, DeleteGoes, RestoreGoes, Good, Existing
    <2>6. QED
      BY <2>4, <2>5
  <1>3. QED
    BY <1>1, <1>2

LEMMA StepsKeepProgress ==
    ASSUME RowsInv, NEW t \in Tx, Progress(t), Begin(t) \/ Step(t) \/ Rollback(t)
    PROVE  Progress(t)'
  <1>1. CASE Rollback(t) \/ Commit(t)
    BY <1>1, EndKeepsProgress DEF Rollback, Return, Commit, RowsInv, LockInv
  <1>2. QED
    BY <1>1, BeginKeepsProgress, ChecksKeepProgress, PlaceKeepsProgress, DeleteKeepsProgress,
       RestoreKeepsProgress, LastKeepsProgress DEF Step
-----------------------------------------------------------------------------
(* A commit is an operation of the tree, on the page of the request. *)

LEMMA TreeLive == Tree!Live = LiveIn(rows)
  <1>1. \A p \in Existing(rows) : Root[p] = rows[p].root
    BY DEF Existing, Root
  <1>2. QED
    BY <1>1 DEF Tree!Live, LiveIn, NoPage, Tree!NoPage

\* The two modules have the same queries.
LEMMA TreeQueries ==
    ASSUME NEW par, NEW live, NEW p
    PROVE  /\ Tree!Up(par, p) = Up(par, p)
           /\ Tree!DepthOf(par, p) = DepthOf(par, p)
           /\ Tree!LiveUnder(par, live, p) = LiveUnder(par, live, p)
           /\ Tree!Height(par, live, p) = Height(par, live, p)
  <1>1. \A q : Tree!Up(par, q) = Up(par, q)
    BY DEF Tree!Up, Up, Tree!ClosedUp, ClosedUp, NoPage, Tree!NoPage
  <1>2. \A S : Tree!Cardinality(S) = Cardinality(S)
    BY DEF Tree!Cardinality, Cardinality
  <1>3. \A q : Tree!DepthOf(par, q) = DepthOf(par, q)
    BY <1>1, <1>2 DEF Tree!DepthOf, DepthOf, NoPage, Tree!NoPage
  <1>4. Tree!LiveUnder(par, live, p) = LiveUnder(par, live, p)
    BY DEF Tree!LiveUnder, LiveUnder, Tree!ClosedDown, ClosedDown
  <1>5. Tree!Height(par, live, p) = Height(par, live, p)
    BY <1>2, <1>3, <1>4 DEF Tree!Height, Height
  <1>6. QED
    BY <1>1, <1>3, <1>4, <1>5

\* The other pages keep their parent; what is done to their deleted_root is the operation's.
LEMMA OthersAtCommit ==
    ASSUME RowsInv, NEW t \in Tx, Commit(t), NEW c \in Page, c # req[t].page
    PROVE  /\ c \in Existing(rows') <=> c \in Existing(rows)
           /\ ParentIn(rows')[c] = ParentIn(rows)[c]
           /\ Root'[c] = IF c \in Existing(rows) THEN Sees(t, c).root ELSE Root[c]
           /\ c \in Existing(rows) =>
                \/ Sees(t, c).root = rows[c].root
                \/ req[t].op \in {"delete", "restore"}
  <1>1. /\ pc[t] = "commit" /\ OwnRows(t) /\ TypeOK
        /\ rows'[c] = Sees(t, c)
    BY DEF Commit, At, View, RowsInv, LockInv, Sees
  <1>2. wrote[t][c] # NoRow => Kept(t, c)
    BY <1>1 DEF OwnRows, Writes
  <1>3. CASE wrote[t][c] = NoRow
    BY <1>1, <1>3 DEF Sees, Existing, ParentIn, Root
  <1>4. CASE wrote[t][c] # NoRow
    BY <1>1, <1>2, <1>4 DEF Sees, Kept, Existing, ParentIn, Root
  <1>5. QED
    BY <1>3, <1>4

\* The page itself: the row it committed
LEMMA OwnAtCommit ==
    ASSUME RowsInv, NEW t \in Tx, Commit(t)
    PROVE  LET p == req[t].page
               w == wrote[t][p]
           IN  /\ p \in Page /\ req[t] \in Request /\ p \in Existing(rows')
               /\ ParentIn(rows')[p] = w.parent /\ Root'[p] = w.root
               /\ req[t].op # "create" =>
                    /\ p \in Existing(rows) /\ cur[t] = rows[p] /\ rows[p] \in Row
                    /\ w.parent = NextRow(t).parent /\ w.root = NextRow(t).root
  <1> DEFINE p == req[t].page
             w == wrote[t][p]
  <1>1. /\ pc[t] = "commit" /\ OwnInv(t) /\ OwnRows(t) /\ TypeOK
    BY DEF Commit, At, RowsInv, LockInv
  <1>2. req[t] \in Request /\ p \in Page
    BY <1>1, OpenRequest DEF RowsInv, Request
  <1>3. w # NoRow
    BY <1>1 DEF OwnInv, Ready
  <1>4. rows'[p] = w
    BY <1>2, <1>3 DEF Commit, View
  <1>5. p \in Existing(rows') /\ ParentIn(rows')[p] = w.parent /\ Root'[p] = w.root
    BY <1>2, <1>3, <1>4 DEF Existing, ParentIn, Root
  <1>6. ASSUME req[t].op # "create"
        PROVE  /\ p \in Existing(rows) /\ cur[t] = rows[p] /\ rows[p] \in Row
               /\ w.parent = NextRow(t).parent /\ w.root = NextRow(t).root
    <2>1. cur[t] # NoRow /\ cur[t] = rows[p]
      BY <1>1, <1>6 DEF OwnInv, Held
    <2>2. rows[p] \in Row
      BY <1>1, <1>2, <2>1 DEF TypeOK, Rows
    <2>3. w.parent = NextRow(t).parent /\ w.root = NextRow(t).root
      BY <1>1, <1>6 DEF OwnRows, Final
    <2>4. QED
      BY <1>2, <2>1, <2>2, <2>3 DEF Existing
  <1>7. QED
    BY <1>2, <1>5, <1>6

LEMMA CommitIsOperation ==
    ASSUME RowsInv, NEW t \in Tx, Progress(t), Commit(t)
    PROVE  LET p == req[t].page
               q == req[t].parent
           IN  /\ p \in Page /\ q \in Page \cup {NoPage}
               /\ \/ Tree!Create(p, q)
                  \/ Tree!Move(p, q)
                  \/ Tree!Delete(p)
                  \/ Tree!Restore(p)
                  \/ UNCHANGED <<Existing(rows), ParentIn(rows), Root>>
  <1> DEFINE p == req[t].page
             q == req[t].parent
             w == wrote[t][p]
             par == ParentIn(rows)
             new == NextRow(t)
             E == Existing(rows)
  <1>1. /\ pc[t] = "commit" /\ OwnRows(t) /\ TypeOK
        /\ p \in Page /\ req[t] \in Request /\ q \in Page \cup {NoPage}
        /\ req[t].op \in AllOps
    BY OwnAtCommit DEF Commit, At, RowsInv, LockInv, Request
  <1>2. /\ p \in Existing(rows') /\ ParentIn(rows')[p] = w.parent /\ Root'[p] = w.root
        /\ req[t].op # "create" =>
             p \in E /\ cur[t] = rows[p] /\ rows[p] \in Row /\ w.parent = new.parent /\ w.root = new.root
    BY OwnAtCommit
  <1>3. \A c \in Page : c # p =>
           /\ c \in Existing(rows') <=> c \in E
           /\ ParentIn(rows')[c] = par[c]
           /\ Root'[c] = IF c \in E THEN Sees(t, c).root ELSE Root[c]
           /\ c \in E => Sees(t, c).root = rows[c].root \/ req[t].op \in {"delete", "restore"}
    BY OthersAtCommit
  <1>4. \A c \in Page : Root[c] = (IF c \in E THEN rows[c].root ELSE NoPage)
                        /\ par[c] = (IF c \in E THEN rows[c].parent ELSE NoPage)
    BY DEF Root, ParentIn, Existing
  <1>5. Existing(rows') = E \cup {p}
    BY <1>1, <1>2, <1>3 DEF Existing
  <1>6. ASSUME req[t].op \notin {"delete", "restore"}, w.root = Root[p]
        PROVE  Root' = Root
    <2>1. \A c \in Page : Root'[c] = Root[c]
      BY <1>2, <1>3, <1>4, <1>6
    <2>2. QED
      BY <2>1 DEF Root
  <1>7. par' = [par EXCEPT ![p] = w.parent]
    BY <1>1, <1>2, <1>3 DEF ParentIn
  <1>8. Tree!Live = LiveIn(rows) /\ (Tree!GoesUnder(q) <=> Good(q))
    BY TreeLive DEF Tree!GoesUnder, Good, NoPage, Tree!NoPage
  <1>9. CASE req[t].op = "create"
    <2>1. w.parent = q /\ w.root = NoPage /\ p \notin E
      BY <1>1, <1>9 DEF OwnRows, Final, Existing
    <2>2. Good(q) /\ DepthOf(par, q) + 1 <= MaxDepth
      BY <1>1, <1>9 DEF Progress, CreateGoes
    <2>3. Root' = Root
      BY <1>1, <1>4, <1>6, <1>9, <2>1
    <2>4. Tree!Create(p, q)
      BY <1>5, <1>7, <1>8, <2>1, <2>2, <2>3, TreeQueries DEF Tree!Create, NoPage, Tree!NoPage
    <2>5. QED
      BY <1>1, <2>4
  <1>10. CASE req[t].op = "move"
    <2>1. w.parent = q /\ w.root = rows[p].root
      BY <1>2, <1>10 DEF NextRow, Row
    <2>2. /\ cur[t].root = NoPage /\ Good(q) /\ (q # NoPage => p \notin Up(par, q))
          /\ DepthOf(par, q) + Height(par, LiveIn(rows), p) <= MaxDepth
      BY <1>1, <1>10 DEF Progress, MoveGoes
    <2>3. p \in LiveIn(rows)
      BY <1>2, <1>10, <2>2 DEF LiveIn
    <2>4. Root' = Root /\ Existing(rows') = E
      BY <1>1, <1>2, <1>4, <1>5, <1>6, <1>10, <2>1
    <2>5. Tree!Move(p, q)
      BY <1>7, <1>8, <2>1, <2>2, <2>3, <2>4, TreeQueries DEF Tree!Move, NoPage, Tree!NoPage
    <2>6. QED
      BY <1>1, <2>5
  <1>11. CASE req[t].op = "delete"
    <2> DEFINE under == LiveUnder(par, LiveIn(rows), p)
    <2>1. w.parent = rows[p].parent /\ w.root = p
      BY <1>2, <1>11 DEF NextRow, Row
    <2>2. /\ cur[t].root = NoPage
          /\ \A d \in Page \ {p} : IF d \in under THEN wrote[t][d] # NoRow /\ wrote[t][d].root = p
                                                  ELSE wrote[t][d] = NoRow
      BY <1>1, <1>11 DEF Progress, DeleteGoes
    <2>3. p \in LiveIn(rows)
      BY <1>2, <1>11, <2>2 DEF LiveIn
    <2>4. par' = par /\ Existing(rows') = E
      <3>1. p \in E
        BY <1>2, <1>11
      <3>2. p \in Page /\ par[p] = rows[p].parent
        BY <1>1, <1>4, <3>1
      <3>3. w.parent = par[p]
        BY <2>1, <3>2
      <3>4. [par EXCEPT ![p] = par[p]] = par
        BY DEF ParentIn
      <3>5. QED
        BY <1>5, <1>7, <3>1, <3>3, <3>4
    <2>5. \A d \in Page : Root'[d] = IF d \in under \cup {p} THEN p ELSE Root[d]
      <3>1. ASSUME NEW d \in Page, d # p, d \in under
            PROVE  Root'[d] = p
        <4>1. wrote[t][d] # NoRow /\ wrote[t][d].root = p
          BY <2>2, <3>1
        <4>2. d \in E
          BY <1>1, <3>1, <4>1 DEF OwnRows, Writes, Kept, Existing
        <4>3. QED
          BY <1>3, <3>1, <4>1, <4>2 DEF Sees
      <3>2. ASSUME NEW d \in Page, d # p, d \notin under
            PROVE  Root'[d] = Root[d]
        BY <1>3, <1>4, <2>2, <3>2 DEF Sees
      <3>3. QED
        BY <1>2, <2>1, <3>1, <3>2
    <2>6. Root' = [d \in Page |-> IF d \in under \cup {p} THEN p ELSE Root[d]]
      BY <2>5 DEF Root
    <2>7. Tree!Delete(p)
      BY <1>8, <2>3, <2>4, <2>6, TreeQueries DEF Tree!Delete, NoPage, Tree!NoPage
    <2>8. QED
      BY <1>1, <2>7
  <1>12. CASE req[t].op = "restore"
    <2>1. /\ cur[t].root = p
          /\ memo[t].parent = IF Good(cur[t].parent) THEN cur[t].parent ELSE NoPage
          /\ \A d \in E \ {p} : Sees(t, d).root = IF rows[d].root = p THEN NoPage ELSE rows[d].root
      BY <1>1, <1>12 DEF Progress, RestoreGoes
    <2>2. w.parent = memo[t].parent /\ w.root = NoPage
      BY <1>2, <1>12 DEF NextRow, Row
    <2>3. Root[p] = p /\ par[p] = cur[t].parent /\ p # NoPage
      BY <1>1, <1>2, <1>4, <1>12, <2>1, PageAssumption DEF NoPage
    <2>4. Existing(rows') = E
      BY <1>2, <1>5, <1>12
    <2>5. \A d \in Page : Root'[d] = IF Root[d] = p THEN NoPage ELSE Root[d]
      BY <1>2, <1>3, <1>4, <2>1, <2>2, <2>3
    <2>6. Root' = [d \in Page |-> IF Root[d] = p THEN NoPage ELSE Root[d]]
      BY <2>5 DEF Root
    <2>7. par' = IF Good(par[p]) THEN par ELSE [par EXCEPT ![p] = NoPage]
      <3>1. DOMAIN par = Page /\ par = [d \in Page |-> par[d]]
        BY DEF ParentIn
      <3>2. w.parent = IF Good(par[p]) THEN par[p] ELSE NoPage
        BY <2>1, <2>2, <2>3
      <3>3. CASE Good(par[p])
        <4>1. par' = [par EXCEPT ![p] = par[p]]
          BY <1>7, <3>2, <3>3
        <4>2. [par EXCEPT ![p] = par[p]] = par
          BY <3>1
        <4>3. QED
          BY <3>3, <4>1, <4>2
      <3>4. CASE ~Good(par[p])
        BY <1>7, <3>2, <3>4
      <3>5. QED
        BY <3>3, <3>4
    <2>8. Tree!GoesUnder(par[p]) <=> Good(par[p])
      BY TreeLive DEF Tree!GoesUnder, Good, NoPage, Tree!NoPage
    <2>9. Tree!Restore(p)
      BY <1>1, <1>2, <1>12, <2>3, <2>4, <2>6, <2>7, <2>8 DEF Tree!Restore, NoPage, Tree!NoPage
    <2>10. QED
      BY <1>1, <2>9
  <1>13. CASE req[t].op = "patch"
    <2>1. w.parent = rows[p].parent /\ w.root = rows[p].root
      BY <1>2, <1>13 DEF NextRow, Row
    <2>2. Root' = Root /\ Existing(rows') = E
      BY <1>1, <1>2, <1>4, <1>5, <1>6, <1>13, <2>1
    <2>3. par' = par
      BY <1>1, <1>2, <1>4, <1>7, <1>13, <2>1 DEF ParentIn
    <2>4. QED
      BY <1>1, <2>2, <2>3
  <1>14. QED
    BY <1>1, <1>9, <1>10, <1>11, <1>12, <1>13 DEF AllOps
-----------------------------------------------------------------------------
TreeVars == <<Existing(rows), ParentIn(rows), Root>>

LEMMA StepIsOperation ==
    ASSUME RowsInv, NEW t \in Tx, Progress(t), Begin(t) \/ Step(t) \/ Rollback(t)
    PROVE  Tree!Next \/ UNCHANGED TreeVars
  <1>1. CASE Commit(t)
    BY <1>1, CommitIsOperation DEF Tree!Next, NoPage, Tree!NoPage, TreeVars
  <1>2. CASE ~Commit(t)
    <2>1. rows' = rows
      BY <1>2, RowsChangeAtCommit
    <2>2. QED
      BY <2>1 DEF Existing, ParentIn, Root, TreeVars
  <1>3. QED
    BY <1>1, <1>2

\* Handlers that run one after the other, in a workspace that starts empty, are the atomic
\* operations of PageTree: every statement of every one of them is a Create, Move, Delete or
\* Restore of the tree, or nothing.  (Overlapping, they are not: two moves can make a cycle.)
THEOREM SerialTransactionsAreTheTree ==
    ASSUME NEW t, Tx = {t}, InitialRows = {NoRows}
    PROVE  Spec => ImplementsTree
  <1>1. Init => Tree!Init
    <2> SUFFICES ASSUME Init PROVE Tree!Init
      OBVIOUS
    <2>1. rows = NoRows
      BY DEF Init
    <2>2. QED
      BY <2>1 DEF Tree!Init, Existing, ParentIn, Root, NoRows, NoPage, Tree!NoPage
  <1>2. Init => Progress(t)
    BY DEF Init, Progress, CreateGoes, MoveGoes, DeleteGoes, RestoreGoes
  <1>3. Progress(t) /\ RowsInv /\ [Next]_vars => Progress(t)'
    <2> SUFFICES ASSUME Progress(t), RowsInv, [Next]_vars PROVE Progress(t)'
      OBVIOUS
    <2>1. CASE Next
      BY <2>1, StepsKeepProgress DEF Next
    <2>2. CASE UNCHANGED vars
      BY <2>2 DEF vars, Progress, CreateGoes, MoveGoes, DeleteGoes, RestoreGoes, Good, Sees
    <2>3. QED
      BY <2>1, <2>2
  <1>4. Progress(t) /\ RowsInv /\ [Next]_vars => [Tree!Next]_TreeVars
    <2> SUFFICES ASSUME Progress(t), RowsInv, [Next]_vars PROVE Tree!Next \/ UNCHANGED TreeVars
      OBVIOUS
    <2>1. CASE Next
      BY <2>1, StepIsOperation DEF Next
    <2>2. CASE UNCHANGED vars
      BY <2>2 DEF vars, TreeVars, Existing, ParentIn, Root
    <2>3. QED
      BY <2>1, <2>2
  <1>5. TreeVars = Tree!vars
    BY DEF TreeVars, Tree!vars
  <1>6. QED
    BY <1>1, <1>2, <1>3, <1>4, RowsHold, PTL DEF Spec, ImplementsTree, Tree!Spec, TreeVars, Tree!vars
=============================================================================
