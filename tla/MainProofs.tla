---------------------------- MODULE MainProofs ----------------------------
(***************************************************************************)
(* Theorems about the two parts of main_service that share no table.       *)
(*                                                                         *)
(* PageTree keeps a forest and a trash that can be emptied, whatever the   *)
(* number of pages.  TreeInv is inductive: acyclicity needs the types and  *)
(* RowsOnly (a new page is nobody's parent), LiveUnderLive needs           *)
(* TrashedWithParent (a restored page's parent comes back with it), and    *)
(* that needs TrashIsRestorable (no page carries the id of a live page as  *)
(* its deleted_root).                                                      *)
(*                                                                         *)
(* WorkspaceTransactions, for any number of requests at once: addresses    *)
(* open one workspace, a locked row is current, and a change overwrites    *)
(* nothing unseen.  The inductive invariant says what each handler has     *)
(* established where it is (Sound), that two of them hold neither one row  *)
(* nor one slug (Apart), and what the tables keep.                         *)
(***************************************************************************)
EXTENDS WorkspaceTransactions, PageTree, PageForestProofs, TLAPS
-----------------------------------------------------------------------------
(* The inductive invariant. *)

\* The empty workspace: no rows, no parents, nothing in the trash.
LEMMA InitTreeInv == Init => TreeInv
  BY PageAssumption
     DEF Init, TreeInv, RowTypes, RowsOnly, Acyclic, LiveUnderLive, TrashedWithParent,
         TrashIsRestorable, Live, NoPage

\* A path to the root stays among the pages with a row.
LEMMA UpHasRows ==
    ASSUME TreeInv, NEW q \in pages
    PROVE  Up(parent, q) \subseteq pages
  <1>1. parent \in ParentFunctions /\ pages \in SUBSET Page
    BY DEF TreeInv, RowTypes, ParentFunctions
  <1>2. ClosedUp(parent, pages)
    BY <1>1 DEF TreeInv, RowsOnly, ClosedUp
  <1>3. QED
    BY <1>1, <1>2, UpIsLeast

\* A new page keeps the forest: it is nobody's parent yet.
LEMMA CreateKeepsTreeInv ==
    ASSUME TreeInv, NEW p \in Page, NEW q \in Page \cup {NoPage}, Create(p, q)
    PROVE  TreeInv'
  <1> USE DEF TreeInv, RowTypes
  <1>1. parent \in ParentFunctions /\ AcyclicParents(parent) /\ q # p /\ p \notin pages
    BY PageAssumption DEF ParentFunctions, Acyclic, AcyclicParents, Create, GoesUnder, Live, NoPage
  <1>2. Acyclic'
    <2>1. CASE q = NoPage
      BY <1>1, <2>1, CutKeepsAcyclic DEF Create, Acyclic, AcyclicParents
    <2>2. CASE q \in Page
      <3>1. q \in pages
        BY <2>2, PageAssumption DEF Create, GoesUnder, Live, NoPage
      <3>2. p \notin Up(parent, q)
        BY <1>1, <3>1, UpHasRows
      <3>3. QED
        BY <1>1, <2>2, <3>2, ReparentKeepsAcyclic DEF Create, Acyclic, AcyclicParents
    <2>3. QED
      BY <2>1, <2>2
  <1>3. RowTypes' /\ RowsOnly'
    BY DEF Create, RowsOnly, GoesUnder, Live
  <1>4. LiveUnderLive'
    BY DEF Create, RowsOnly, GoesUnder, Live, LiveUnderLive
  <1>5. TrashedWithParent' /\ TrashIsRestorable'
    BY DEF Create, RowsOnly, GoesUnder, Live, TrashedWithParent, TrashIsRestorable
  <1>6. QED
    BY <1>2, <1>3, <1>4, <1>5

\* A move keeps the forest: the check of the path is what it takes.
LEMMA MoveKeepsTreeInv ==
    ASSUME TreeInv, NEW p \in Page, NEW q \in Page \cup {NoPage}, Move(p, q)
    PROVE  TreeInv'
  <1> USE DEF TreeInv, RowTypes
  <1>1. parent \in ParentFunctions /\ AcyclicParents(parent)
    BY DEF ParentFunctions, Acyclic, AcyclicParents
  <1>2. Acyclic'
    <2>1. CASE q = NoPage
      BY <1>1, <2>1, CutKeepsAcyclic DEF Move, Acyclic, AcyclicParents
    <2>2. CASE q \in Page
      BY <1>1, <2>2, PageAssumption, ReparentKeepsAcyclic
         DEF Move, Acyclic, AcyclicParents, NoPage
    <2>3. QED
      BY <2>1, <2>2
  <1>3. RowTypes' /\ RowsOnly'
    BY DEF Move, RowsOnly, GoesUnder, Live
  <1>4. LiveUnderLive'
    BY DEF Move, GoesUnder, Live, LiveUnderLive
  <1>5. TrashedWithParent' /\ TrashIsRestorable'
    BY DEF Move, Live, TrashedWithParent, TrashIsRestorable
  <1>6. QED
    BY <1>2, <1>3, <1>4, <1>5

\* A delete takes a whole live subtree: no live page is left under a trashed one.
LEMMA DeleteKeepsTreeInv ==
    ASSUME TreeInv, NEW p \in Page, Delete(p)
    PROVE  TreeInv'
  <1> USE DEF TreeInv, RowTypes
  <1> DEFINE U == LiveUnder(parent, Live, p)
  <1>1. parent \in ParentFunctions /\ Live \in SUBSET Page /\ p \in Live
    BY DEF ParentFunctions, Live, Delete
  <1>2. \A d \in U : d \in Live /\ parent[d] \in U \cup {p}
    BY <1>1, LiveUnderHasParent
  <1>3. \A d \in Live : parent[d] \in U \cup {p} => d \in U
    BY <1>1, LiveUnderIsClosed DEF ClosedDown
  <1> HIDE DEF U
  <1>4. /\ root' = [d \in Page |-> IF d \in U \cup {p} THEN p ELSE root[d]]
        /\ pages' = pages /\ parent' = parent
    BY DEF Delete, U
  <1>5. p # NoPage /\ p \in pages /\ root[p] = NoPage
    BY PageAssumption, <1>1 DEF Live, NoPage
  <1>6. RowTypes' /\ RowsOnly' /\ Acyclic'
    BY <1>2, <1>4, <1>5 DEF RowsOnly, Acyclic, Live
  <1>7. LiveUnderLive'
    <2> SUFFICES ASSUME NEW d \in Live', parent[d] # NoPage
                 PROVE  parent[d] \in Live'
      BY <1>4 DEF LiveUnderLive
    <2>1. d \in Live /\ d \notin U \cup {p}
      BY <1>4, <1>5 DEF Live
    <2>2. parent[d] \in Live /\ parent[d] \notin U \cup {p}
      BY <1>3, <2>1 DEF LiveUnderLive
    <2>3. QED
      BY <1>4, <2>2 DEF Live
  <1>8. TrashedWithParent'
    <2> SUFFICES ASSUME NEW d \in pages, root'[d] \notin {NoPage, d}
                 PROVE  parent[d] # NoPage /\ root'[parent[d]] = root'[d]
      BY <1>4 DEF TrashedWithParent
    <2>1. CASE d \in U
      <3>1. parent[d] \in Page
        BY <1>1, <1>2, <2>1 DEF Live
      <3>2. QED
        BY <1>2, <1>4, <2>1, <3>1, PageAssumption DEF NoPage
    <2>2. CASE d \notin U
      <3>1. root'[d] = root[d] /\ d # p
        BY <1>4, <2>2
      <3>2. parent[d] # NoPage /\ root[parent[d]] = root[d] /\ parent[d] \in Page
        BY <3>1 DEF TrashedWithParent
      <3>3. parent[d] \notin U \cup {p}
        BY <1>2, <1>5, <3>1, <3>2 DEF Live
      <3>4. QED
        BY <1>4, <3>1, <3>2, <3>3
    <2>3. QED
      BY <2>1, <2>2
  <1>9. TrashIsRestorable'
    <2> SUFFICES ASSUME NEW d \in Page, root'[d] # NoPage
                 PROVE  root'[d] \in pages /\ root'[root'[d]] = root'[d]
      BY <1>4 DEF TrashIsRestorable
    <2>1. CASE d \in U \cup {p}
      BY <1>4, <1>5, <2>1
    <2>2. CASE d \notin U \cup {p}
      <3>1. root'[d] = root[d] /\ root[d] \in pages /\ root[root[d]] = root[d]
        BY <1>4, <2>2 DEF TrashIsRestorable
      <3>2. root[d] \notin U \cup {p}
        BY <1>2, <1>4, <1>5, <2>2, <3>1 DEF Live
      <3>3. QED
        BY <1>4, <3>1, <3>2
    <2>3. QED
      BY <2>1, <2>2
  <1>10. QED
    BY <1>6, <1>7, <1>8, <1>9

\* A restore brings back the whole of one delete, under a live parent or at the root.
LEMMA RestoreKeepsTreeInv ==
    ASSUME TreeInv, NEW p \in Page, Restore(p)
    PROVE  TreeInv'
  <1> USE DEF TreeInv, RowTypes
  <1>1. parent \in ParentFunctions /\ AcyclicParents(parent) /\ p # NoPage
    BY PageAssumption DEF ParentFunctions, Acyclic, AcyclicParents, NoPage
  <1>2. /\ p \in pages /\ root[p] = p /\ pages' = pages
        /\ root' = [d \in Page |-> IF root[d] = p THEN NoPage ELSE root[d]]
        /\ \/ GoesUnder(parent[p]) /\ parent' = parent
           \/ ~ GoesUnder(parent[p]) /\ parent' = [parent EXCEPT ![p] = NoPage]
    BY DEF Restore
  <1>3. Acyclic'
    BY <1>1, <1>2, CutKeepsAcyclic DEF Acyclic, AcyclicParents
  <1>4. RowTypes' /\ RowsOnly'
    BY <1>2 DEF RowsOnly
  <1>5. parent' \in [Page -> Page \cup {NoPage}] /\ \A d \in Page \ {p} : parent'[d] = parent[d]
    BY <1>2
  <1>6. LiveUnderLive'
    <2> SUFFICES ASSUME NEW d \in pages, root'[d] = NoPage, parent'[d] # NoPage
                 PROVE  parent'[d] \in pages /\ root'[parent'[d]] = NoPage
      BY <1>2 DEF LiveUnderLive, Live
    <2>1. CASE d = p
      BY <1>2, <2>1 DEF GoesUnder, Live
    <2>2. CASE d # p /\ root[d] = p
      <3>1. parent[d] # NoPage /\ root[parent[d]] = p
        BY <1>1, <2>2 DEF TrashedWithParent
      <3>2. QED
        BY <1>2, <1>5, <2>2, <3>1 DEF RowsOnly
    <2>3. CASE d # p /\ root[d] # p
      <3>1. d \in Live
        BY <1>2, <2>3 DEF Live
      <3>2. QED
        BY <1>2, <1>5, <2>3, <3>1 DEF LiveUnderLive, Live
    <2>4. QED
      BY <2>1, <2>2, <2>3
  <1>7. TrashedWithParent'
    <2> SUFFICES ASSUME NEW d \in pages, root'[d] \notin {NoPage, d}
                 PROVE  parent'[d] # NoPage /\ root'[parent'[d]] = root'[d]
      BY <1>2 DEF TrashedWithParent
    <2>1. root'[d] = root[d] /\ root[d] # p /\ d # p
      BY <1>2
    <2>2. parent[d] # NoPage /\ root[parent[d]] = root[d]
      BY <2>1 DEF TrashedWithParent
    <2>3. QED
      BY <1>2, <1>5, <2>1, <2>2
  <1>8. TrashIsRestorable'
    BY <1>2 DEF TrashIsRestorable
  <1>9. QED
    BY <1>3, <1>4, <1>6, <1>7, <1>8

\* Every handler keeps the whole invariant.
LEMMA NextKeepsTreeInv == TreeInv /\ [Next]_vars => TreeInv'
  <1> SUFFICES ASSUME TreeInv, [Next]_vars
               PROVE  TreeInv'
    OBVIOUS
  <1>1. CASE Next
    BY <1>1, CreateKeepsTreeInv, MoveKeepsTreeInv, DeleteKeepsTreeInv, RestoreKeepsTreeInv DEF Next
  <1>2. CASE UNCHANGED vars
    BY <1>2 DEF vars, TreeInv, RowTypes, RowsOnly, Acyclic, LiveUnderLive, TrashedWithParent,
                TrashIsRestorable, Live
  <1>3. QED
    BY <1>1, <1>2

\* All the tree promises, for any number of pages and any depth limit.
THEOREM TreeInvariant == Spec => []TreeInv
  BY InitTreeInv, NextKeepsTreeInv, PTL DEF Spec
\* No page becomes its own ancestor.
THEOREM TreeIsAForest == Spec => [](TypeOK /\ Acyclic)
  <1>1. TreeInv => TypeOK /\ Acyclic
    BY DEF TreeInv, TypeOK
  <1>2. QED
    BY <1>1, TreeInvariant, PTL

\* No live page hangs under a trashed one, and each trashed page hangs on one restorable page.
THEOREM TrashIsWhole == Spec => [](LiveUnderLive /\ TrashedWithParent /\ TrashIsRestorable)
  <1>1. TreeInv => LiveUnderLive /\ TrashedWithParent /\ TrashIsRestorable
    BY DEF TreeInv
  <1>2. QED
    BY <1>1, TreeInvariant, PTL

\* What a delete took stays exactly that until its restore: only LiveUnderHasParent (a delete takes
\* live pages alone) and a deleted page's own id as the mark of its delete are behind it.
THEOREM RestoreIsExact == Spec => RestoreTakesBackTheDelete
  <1> DEFINE Took(r) == root[r] = r /\ root'[r] = r
                       => {d \in Page : root'[d] = r} = {d \in Page : root[d] = r}
  <1>1. ASSUME TreeInv, NEW r \in Page, NEW p \in Page, Delete(p)
        PROVE  Took(r)
    <2> DEFINE U == LiveUnder(parent, Live, p)
    <2>1. parent \in ParentFunctions /\ Live \in SUBSET Page /\ p \in Live
      BY <1>1 DEF TreeInv, RowTypes, ParentFunctions, Live, Delete
    <2>2. \A d \in U \cup {p} : root[d] = NoPage
      <3>1. \A d \in U : d \in Live
        BY <2>1, LiveUnderHasParent
      <3> HIDE DEF U
      <3> QED
        BY <2>1, <3>1 DEF Live
    <2> HIDE DEF U
    <2>3. root' = [d \in Page |-> IF d \in U \cup {p} THEN p ELSE root[d]]
      BY <1>1 DEF Delete, U
    <2>4. r # NoPage
      BY PageAssumption DEF NoPage
    <2>5. QED
      BY <2>2, <2>3, <2>4
  <1>2. ASSUME TreeInv, NEW r \in Page, NEW p \in Page, Restore(p)
        PROVE  Took(r)
    <2>1. root' = [d \in Page |-> IF root[d] = p THEN NoPage ELSE root[d]] /\ r # NoPage
      BY <1>2, PageAssumption DEF Restore, NoPage
    <2>2. QED
      BY <2>1
  <1>3. TreeInv /\ [Next]_vars => [\A r \in Page : Took(r)]_vars
    BY <1>1, <1>2 DEF Next, Create, Move
  <1>4. QED
    BY <1>3, TreeInvariant, PTL DEF Spec, RestoreTakesBackTheDelete

-----------------------------------------------------------------------------
Holding == {"conflicts", "taken", "own", "write", "commit"}
Creating == {"validate", "personal", "similar", "insert"}

\* Where the handler of t can be, and what it has.
Control(t) ==
    /\ pc[t] = "idle" <=> req[t] = NoRow
    /\ cur[t] # NoRow <=> pc[t] \in Holding
    /\ wrote[t] # NoRow <=> pc[t] = "commit"
    /\ pc[t] \in Creating => req[t].op \in {"create", "personal"}
    /\ pc[t] = "insert" => req[t].slug # Unset
    /\ pc[t] \in {"load", "lock"} \cup Holding => req[t].op \in {"patch", "delete", "restore"}
    /\ pc[t] \in {"conflicts", "taken", "own"} => req[t].op = "patch"

\* What t knows of the row it changes: it is there, and a personal one is not deleted.
Aimed(t) ==
    /\ pc[t] \in {"load", "lock"} \cup Holding => rows[req[t].workspace] # NoRow
    /\ pc[t] \in {"lock"} \cup Holding /\ req[t].op # "patch"
          => rows[req[t].workspace].personal = Nobody

\* The row t has locked is the one in the table, and the checks on it still say what they said.
Current(t) ==
    cur[t] # NoRow =>
        /\ rows[req[t].workspace] = cur[t]
        /\ req[t].op = "delete" => cur[t].name = req[t].name /\ ~cur[t].deleted
        /\ req[t].op = "restore" => cur[t].deleted
        /\ pc[t] # "conflicts" /\ req[t].op = "patch" =>
              Unseen(req[t]) = {} /\ Applied(req[t], cur[t]) # cur[t]

\* What t has written: its request made of the locked row, under a slug nobody else has.
Written(t) ==
    wrote[t] # NoRow =>
        /\ wrote[t] = [Applied(req[t], cur[t]) EXCEPT !.version = @ + 1]
        /\ \A w \in Existing(rows) \ {req[t].workspace} : rows[w].slug # wrote[t].slug

Sound(t) == Control(t) /\ Aimed(t) /\ Current(t) /\ Written(t)

\* Two handlers lock different rows and write different slugs.
Apart(t, u) ==
    /\ cur[t] # NoRow /\ cur[u] # NoRow => req[t].workspace # req[u].workspace
    /\ wrote[t] # NoRow /\ wrote[u] # NoRow => wrote[t].slug # wrote[u].slug

\* Redirects and changes are of workspaces there are.
Known ==
    /\ \A s \in Slug : aliasOf[s] # Nobody => rows[aliasOf[s]] # NoRow
    /\ \A h \in history : rows[h.workspace] # NoRow

Tables == Known /\ OneEach /\ OneWayIn /\ OnePrefix

IInv ==
    /\ WorkspacesTyped
    /\ \A t \in Tx : Sound(t)
    /\ \A t, u \in Tx : t # u => Apart(t, u)
    /\ Tables
-----------------------------------------------------------------------------
(* What a request makes of a row. *)

\* A request changes the fields it names and no others.
LEMMA AppliedIsARow ==
    ASSUME NEW r \in Request, NEW row \in Row
    PROVE  /\ Applied(r, row) \in Row
           /\ [Applied(r, row) EXCEPT !.version = @ + 1] \in Row
           /\ Applied(r, row).version = row.version
           /\ Applied(r, row).personal = row.personal
           /\ r.op # "patch" => Applied(r, row).slug = row.slug
           /\ r.op # "delete" /\ Applied(r, row).deleted => row.deleted
<1>1. /\ SetOr(r.name, row.name) \in Name
      /\ SetOr(r.slug, row.slug) \in Slug
      /\ SetOr(r.prefix, row.prefix) \in Prefix
  BY DEF SetOr, Request, Row
<1>2. Applied(r, row) \in Row
  BY <1>1 DEF Applied, Row
<1>3. [Applied(r, row) EXCEPT !.version = @ + 1] \in Row
  BY <1>2 DEF Row
<1>4. /\ Applied(r, row).version = row.version
      /\ Applied(r, row).personal = row.personal
      /\ r.op # "patch" => Applied(r, row).slug = row.slug
      /\ r.op # "delete" /\ Applied(r, row).deleted => row.deleted
  BY DEF Applied, Row
<1> QED
  BY <1>2, <1>3, <1>4
-----------------------------------------------------------------------------
(* Steps that change no table and one handler alone. *)

LEMMA LocalStep ==
    ASSUME IInv, WorkspacesTyped', UNCHANGED tables, NEW t \in Tx,
           \A u \in Tx \ {t} : /\ req'[u] = req[u] /\ pc'[u] = pc[u]
                               /\ cur'[u] = cur[u] /\ wrote'[u] = wrote[u],
           Sound(t)',
           \A u \in Tx \ {t} : Apart(t, u)'
    PROVE  IInv'
<1>1. ASSUME NEW u \in Tx PROVE Sound(u)'
  <2>1. CASE u = t
    BY <2>1
  <2>2. CASE u # t
    BY <2>2 DEF IInv, Sound, Control, Aimed, Current, Written, Unseen, Existing, tables
  <2> QED
    BY <2>1, <2>2
<1>2. ASSUME NEW u \in Tx, NEW v \in Tx, u # v PROVE Apart(u, v)'
  <2>1. CASE u = t
    BY <1>2, <2>1
  <2>2. CASE v = t
    BY <1>2, <2>2 DEF Apart
  <2>3. CASE u # t /\ v # t
    BY <1>2, <2>3 DEF IInv, Apart
  <2> QED
    BY <2>1, <2>2, <2>3
<1>3. Tables'
  BY DEF IInv, Tables, Known, OneEach, OneWayIn, OnePrefix, Existing, Renamed, tables
<1> QED
  BY <1>1, <1>2, <1>3 DEF IInv

\* A handler that ends leaves what the others have.
LEMMA ReturnKeeps == ASSUME IInv, NEW t \in Tx, Return(t) PROVE IInv'
<1> USE DEF Return, End, Goto
<1>1. WorkspacesTyped'
  BY DEF IInv, WorkspacesTyped, Steps, tables
<1>2. /\ pc'[t] = "idle" /\ req'[t] = NoRow /\ cur'[t] = NoRow /\ wrote'[t] = NoRow
      /\ \A u \in Tx \ {t} : /\ req'[u] = req[u] /\ pc'[u] = pc[u]
                             /\ cur'[u] = cur[u] /\ wrote'[u] = wrote[u]
  BY DEF IInv, WorkspacesTyped
<1>3. Sound(t)'
  BY <1>2 DEF Sound, Control, Aimed, Current, Written, Holding, Creating
<1>4. \A u \in Tx \ {t} : Apart(t, u)'
  BY <1>2 DEF Apart
<1> QED
  BY <1>1, <1>2, <1>3, <1>4, LocalStep

\* A handler that goes on and keeps what it has keeps the invariant when it knows what the next
\* statement needs.
LEMMA GoKeeps ==
    ASSUME IInv, NEW t \in Tx, NEW step \in Steps \ {"idle"}, Goto(t, step),
           UNCHANGED <<tables, cur, wrote, tries, started>>,
           NEW r \in Request, req' = [req EXCEPT ![t] = r], pc[t] # "idle",
           r.op = req[t].op, r.workspace = req[t].workspace, cur[t] # NoRow => r = req[t],
           Sound(t)'
    PROVE  IInv'
<1> USE DEF Goto
<1>1. WorkspacesTyped'
  BY DEF IInv, WorkspacesTyped, tables
<1>2. \A u \in Tx \ {t} : /\ req'[u] = req[u] /\ pc'[u] = pc[u]
                          /\ cur'[u] = cur[u] /\ wrote'[u] = wrote[u]
  BY DEF IInv, WorkspacesTyped
<1>3. \A u \in Tx \ {t} : Apart(t, u)'
  BY <1>2 DEF IInv, WorkspacesTyped, Apart
<1> QED
  BY <1>1, <1>2, <1>3, LocalStep
-----------------------------------------------------------------------------
(* One lemma for each action. *)

\* What IInv says of one handler.
LEMMA HandlerFacts ==
    ASSUME IInv, NEW t \in Tx, pc[t] # "idle"
    PROVE  /\ Control(t) /\ Aimed(t) /\ Current(t) /\ Written(t)
           /\ req[t] \in Request
           /\ pc[t] \in Steps
           /\ cur[t] \in Row \cup {NoRow}
           /\ wrote[t] \in Row \cup {NoRow}
  BY DEF IInv, Sound, WorkspacesTyped, Control

LEMMA InitHolds == WorkspacesInit => IInv
<1> SUFFICES ASSUME WorkspacesInit PROVE IInv
  OBVIOUS
<1> USE DEF WorkspacesInit
<1>1. rows \in Rows
  BY InitialAssumption
<1>2. WorkspacesTyped
  BY <1>1, BoundAssumption DEF WorkspacesTyped, Steps, PrefixesOf
<1>3. \A t \in Tx : Sound(t)
  BY DEF Sound, Control, Aimed, Current, Written, Holding, Creating
<1>4. \A t, u \in Tx : t # u => Apart(t, u)
  BY DEF Apart
<1>5. Known /\ OneEach /\ OneWayIn
  BY <1>1, InitialAssumption, NullAssumption DEF Known, OneEach, OneWayIn, Renamed, Existing, Rows, Row
<1>6. OnePrefix
  BY <1>1 DEF OnePrefix, PrefixesOf, Existing
<1> QED
  BY <1>2, <1>3, <1>4, <1>5, <1>6 DEF IInv, Tables

LEMMA BeginKeeps == ASSUME IInv, NEW t \in Tx, Begin(t) PROVE IInv'
<1> USE DEF Begin, At, Goto
<1>0. PICK r \in [op : Ops, workspace : Workspace, user : User, base : 0 .. MaxRequests + 1,
                  name : Name \cup {Unset}, slug : Slug \cup {Unset}, prefix : Prefix \cup {Unset}] :
          /\ req' = [req EXCEPT ![t] = r]
          /\ pc' = [pc EXCEPT ![t] = FirstStep[r.op]]
          /\ r.op \in {"patch", "delete", "restore"} =>
                rows[r.workspace] # NoRow /\ r.base <= rows[r.workspace].version + 1
  BY Zenon
<1>1. /\ r \in Request
      /\ req' = [req EXCEPT ![t] = r]
      /\ pc' = [pc EXCEPT ![t] = FirstStep[r.op]]
      /\ r.op \in {"patch", "delete", "restore"} => rows[r.workspace] # NoRow
  <2>1. 0 .. MaxRequests + 1 \subseteq Nat
    BY BoundAssumption
  <2>2. r \in Request
    BY <2>1 DEF Request
  <2> QED
    BY <1>0, <2>2
<1>2. FirstStep[r.op] = IF r.op = "create" THEN "validate"
                        ELSE IF r.op = "personal" THEN "personal" ELSE "load"
  BY DEF FirstStep, Request, Ops
<1>3. WorkspacesTyped'
  BY <1>1, <1>2 DEF IInv, WorkspacesTyped, Steps, tables
<1>4. /\ pc[t] = "idle" /\ cur[t] = NoRow /\ wrote[t] = NoRow
      /\ pc'[t] = FirstStep[r.op] /\ req'[t] = r
      /\ \A u \in Tx \ {t} : req'[u] = req[u] /\ pc'[u] = pc[u] /\ cur'[u] = cur[u] /\ wrote'[u] = wrote[u]
  BY <1>1 DEF IInv, WorkspacesTyped, Sound, Control, Holding
<1>5. Sound(t)'
  BY <1>1, <1>2, <1>4, NullAssumption
     DEF Sound, Control, Aimed, Current, Written, Holding, Creating, tables, Request, Ops
<1>6. \A u \in Tx \ {t} : Apart(t, u)'
  BY <1>4 DEF Apart
<1> QED
  BY <1>3, <1>4, <1>5, <1>6, LocalStep

LEMMA ExpireKeeps == ASSUME IInv, NEW s \in Slug, Expire(s) PROVE IInv'
<1> USE DEF Expire
<1>1. WorkspacesTyped'
  BY DEF IInv, WorkspacesTyped
<1>2. \A t \in Tx : Sound(t)'
  BY DEF IInv, Sound, Control, Aimed, Current, Written, Unseen, Existing
<1>3. \A t, u \in Tx : t # u => Apart(t, u)'
  BY DEF IInv, Apart
<1>4. Tables'
  BY DEF IInv, Tables, Known, OneEach, OneWayIn, OnePrefix, Existing, Renamed
<1> QED
  BY <1>1, <1>2, <1>3, <1>4 DEF IInv

\* A handler that goes on with its request as it was.
LEMMA GoOnKeeps ==
    ASSUME IInv, NEW t \in Tx, NEW step \in Steps \ {"idle"}, Goto(t, step), pc[t] # "idle",
           UNCHANGED <<tables, req, cur, wrote, tries, started>>, Sound(t)'
    PROVE  IInv'
<1>1. req[t] \in Request /\ req' = [req EXCEPT ![t] = req[t]]
  BY HandlerFacts DEF IInv, WorkspacesTyped
<1> QED
  BY <1>1, GoKeeps

LEMMA ValidateKeeps == ASSUME IInv, NEW t \in Tx, Validate(t) PROVE IInv'
<1> DEFINE step == IF req[t].slug = Unset THEN "similar" ELSE "insert"
<1>1. CASE Return(t)
  BY <1>1, ReturnKeeps
<1>2. CASE Goto(t, step) /\ UNCHANGED <<tables, req, cur, wrote, tries, started>>
  <2>1. pc[t] = "validate" /\ pc'[t] = step
    BY <1>2 DEF Validate, At, Goto, IInv, WorkspacesTyped
  <2>2. Sound(t)'
    BY <1>2, <2>1, HandlerFacts DEF Sound, Control, Aimed, Current, Written, Holding, Creating
  <2> QED
    BY <1>2, <2>1, <2>2, GoOnKeeps DEF Steps
<1> QED
  BY <1>1, <1>2 DEF Validate

LEMMA FindPersonalKeeps == ASSUME IInv, NEW t \in Tx, FindPersonal(t) PROVE IInv'
<1>1. CASE Return(t)
  BY <1>1, ReturnKeeps
<1>2. CASE Goto(t, "similar") /\ UNCHANGED <<tables, req, cur, wrote, tries, started>>
  <2>1. pc[t] = "personal" /\ pc'[t] = "similar"
    BY <1>2 DEF FindPersonal, At, Goto, IInv, WorkspacesTyped
  <2>2. Sound(t)'
    BY <1>2, <2>1, HandlerFacts DEF Sound, Control, Aimed, Current, Written, Holding, Creating
  <2> QED
    BY <1>2, <2>1, <2>2, GoOnKeeps DEF Steps
<1> QED
  BY <1>1, <1>2 DEF FindPersonal

LEMMA ChooseSlugKeeps == ASSUME IInv, NEW t \in Tx, ChooseSlug(t) PROVE IInv'
<1>1. PICK s \in Slug : req' = [req EXCEPT ![t].slug = s]
  BY DEF ChooseSlug
<1>2. /\ pc[t] = "similar" /\ Goto(t, "insert") /\ pc'[t] = "insert"
      /\ UNCHANGED <<tables, cur, wrote, tries, started>>
  BY DEF ChooseSlug, At, Goto, IInv, WorkspacesTyped
<1> DEFINE r == [req[t] EXCEPT !.slug = s]
<1>3. r \in Request /\ r.op = req[t].op /\ r.workspace = req[t].workspace /\ r.slug = s
  BY <1>2, HandlerFacts DEF Request
<1>4. req' = [req EXCEPT ![t] = r] /\ req'[t] = r
  BY <1>1 DEF IInv, WorkspacesTyped
<1>5. cur[t] = NoRow /\ wrote[t] = NoRow
  BY <1>2, HandlerFacts DEF Control, Holding
<1> HIDE DEF r
<1>6. Sound(t)'
  <2>1. Control(t)'
    BY <1>2, <1>3, <1>4, <1>5, HandlerFacts, NullAssumption DEF Control, Holding, Creating
  <2>2. Aimed(t)' /\ Current(t)' /\ Written(t)'
    BY <1>2, <1>5 DEF Aimed, Current, Written, Holding
  <2> QED
    BY <2>1, <2>2 DEF Sound
<1> QED
  BY <1>2, <1>3, <1>4, <1>5, <1>6, GoKeeps DEF Steps

LEMMA LoadKeeps == ASSUME IInv, NEW t \in Tx, Load(t) PROVE IInv'
<1>1. CASE Return(t)
  BY <1>1, ReturnKeeps
<1>2. CASE ~Return(t)
  <2>1. /\ pc[t] = "load" /\ Goto(t, "lock") /\ pc'[t] = "lock"
        /\ UNCHANGED <<tables, req, cur, wrote, tries, started>>
        /\ req[t].op # "patch" => rows[req[t].workspace].personal = Nobody
    BY <1>2 DEF Load, At, Goto, IInv, WorkspacesTyped
  <2>2. Sound(t)'
    BY <2>1, HandlerFacts DEF Sound, Control, Aimed, Current, Written, Holding, Creating, tables
  <2> QED
    BY <2>1, <2>2, GoOnKeeps DEF Steps
<1> QED
  BY <1>1, <1>2

LEMMA LockKeeps == ASSUME IInv, NEW t \in Tx, Lock(t) PROVE IInv'
<1> DEFINE w == req[t].workspace
<1>1. CASE Return(t)
  BY <1>1, ReturnKeeps
<1>2. CASE ~Return(t)
  <2>1. /\ pc[t] = "lock"
        /\ Locked(w) = {}
        /\ ~Refused(req[t], rows[w])
        /\ cur' = [cur EXCEPT ![t] = rows[w]]
        /\ Goto(t, IF req[t].op = "patch" THEN "conflicts" ELSE "write")
        /\ UNCHANGED <<tables, req, wrote, tries, started>>
    BY <1>2 DEF Lock, LockWhen, At
  <2>2. /\ req[t] \in Request /\ rows[w] # NoRow /\ rows[w] \in Row
        /\ req[t].op \in {"patch", "delete", "restore"}
        /\ wrote[t] = NoRow
    BY <2>1, HandlerFacts DEF Aimed, Control, IInv, WorkspacesTyped, Rows, Request
  <2>3. /\ pc'[t] = (IF req[t].op = "patch" THEN "conflicts" ELSE "write")
        /\ cur'[t] = rows[w]
        /\ \A u \in Tx \ {t} : pc'[u] = pc[u] /\ cur'[u] = cur[u]
    BY <2>1 DEF Goto, IInv, WorkspacesTyped
  <2>4. WorkspacesTyped'
    BY <2>1, <2>2 DEF IInv, WorkspacesTyped, Goto, Steps, tables
  <2>5. Sound(t)'
    <3>1. Control(t)'
      BY <2>1, <2>2, <2>3, HandlerFacts DEF Control, Holding, Creating
    <3>2. Aimed(t)'
      BY <2>1, <2>2, <2>3, HandlerFacts DEF Aimed, Holding, tables
    <3>3. Current(t)'
      BY <2>1, <2>2, <2>3 DEF Current, Refused, tables
    <3>4. Written(t)'
      BY <2>1, <2>2 DEF Written
    <3> QED
      BY <3>1, <3>2, <3>3, <3>4 DEF Sound
  <2>6. \A u \in Tx \ {t} : Apart(t, u)'
    BY <2>1, <2>2, <2>3 DEF Apart, Locked
  <2> QED
    BY <2>1, <2>3, <2>4, <2>5, <2>6, LocalStep
<1> QED
  BY <1>1, <1>2

LEMMA CheckConflictsKeeps == ASSUME IInv, NEW t \in Tx, CheckConflicts(t) PROVE IInv'
<1> DEFINE step == IF SetOr(req[t].slug, cur[t].slug) # cur[t].slug THEN "taken" ELSE "write"
<1>1. CASE Return(t)
  BY <1>1, ReturnKeeps
<1>2. CASE ~Return(t)
  <2>1. /\ pc[t] = "conflicts" /\ Goto(t, step)
        /\ Unseen(req[t]) = {} /\ Applied(req[t], cur[t]) # cur[t]
        /\ UNCHANGED <<tables, req, cur, wrote, tries, started>>
    BY <1>2 DEF CheckConflicts, CheckConflictsWhen, At
  <2>2. pc'[t] = step
    BY <2>1 DEF Goto, IInv, WorkspacesTyped
  <2> DEFINE seen == Unseen(req[t]) = {}
  <2>3. seen' /\ seen
    BY <2>1 DEF Unseen, tables
  <2>4. Sound(t)'
    <3>1. Control(t)' /\ Aimed(t)' /\ Written(t)'
      BY <2>1, <2>2, HandlerFacts DEF Control, Aimed, Written, Holding, Creating, Existing, tables
    <3>2. Current(t)'
      BY <2>1, <2>2, <2>3, HandlerFacts DEF Current, tables
    <3> QED
      BY <3>1, <3>2 DEF Sound
  <2> QED
    BY <2>1, <2>4, GoOnKeeps DEF Steps
<1> QED
  BY <1>1, <1>2

\* A step between two statements of a patch that has looked for conflicts.
LEMMA OnToTheWrite ==
    ASSUME IInv, NEW t \in Tx, NEW step \in {"own", "write"}, Goto(t, step), pc[t] \in {"taken", "own"},
           UNCHANGED <<tables, req, cur, wrote, tries, started>>
    PROVE  IInv'
<1>1. pc'[t] = step
  BY DEF Goto, IInv, WorkspacesTyped
<1>2. Sound(t)'
  <2>1. Control(t)' /\ Aimed(t)' /\ Written(t)'
    BY <1>1, HandlerFacts DEF Control, Aimed, Written, Holding, Creating, Existing, tables
  <2>2. Current(t)'
    BY <1>1, HandlerFacts DEF Current, Unseen, tables
  <2> QED
    BY <2>1, <2>2 DEF Sound
<1> QED
  BY <1>2, GoOnKeeps DEF Steps

LEMMA CheckTakenKeeps == ASSUME IInv, NEW t \in Tx, CheckTaken(t) PROVE IInv'
  BY OnToTheWrite DEF CheckTaken, At

LEMMA CheckOwnKeeps == ASSUME IInv, NEW t \in Tx, CheckOwn(t) PROVE IInv'
<1>1. CASE Return(t)
  BY <1>1, ReturnKeeps
<1>2. CASE ~Return(t)
  BY <1>2, OnToTheWrite DEF CheckOwn, At
<1> QED
  BY <1>1, <1>2

LEMMA WriteKeeps == ASSUME IInv, NEW t \in Tx, Write(t) PROVE IInv'
<1> DEFINE w == req[t].workspace
           new == [Applied(req[t], cur[t]) EXCEPT !.version = @ + 1]
<1>1. CASE Return(t)
  BY <1>1, ReturnKeeps
<1>2. CASE ~Return(t)
  <2>1. /\ pc[t] = "write" /\ Goto(t, "commit")
        /\ wrote' = [wrote EXCEPT ![t] = new]
        /\ new.slug # cur[t].slug => Settled(t, new.slug) /\ HasSlug(new.slug) = {}
        /\ UNCHANGED <<tables, req, cur, tries, started>>
    BY <1>2 DEF Write, At
  <2>2. /\ req[t] \in Request /\ cur[t] \in Row /\ cur[t] # NoRow /\ rows[w] = cur[t] /\ w \in Existing(rows)
    BY <2>1, HandlerFacts DEF Control, Current, Holding, Request, Existing
  <2>3. new \in Row /\ new # NoRow
    BY <2>2, AppliedIsARow, NullAssumption
  <2> HIDE DEF new
  <2>4. /\ pc'[t] = "commit" /\ wrote'[t] = new
        /\ \A u \in Tx \ {t} : pc'[u] = pc[u] /\ wrote'[u] = wrote[u]
    BY <2>1 DEF Goto, IInv, WorkspacesTyped
  <2>5. WorkspacesTyped'
    BY <2>1, <2>3 DEF IInv, WorkspacesTyped, Goto, Steps, tables
  <2>6. \A x \in Existing(rows) \ {w} : rows[x].slug # new.slug
    <3>1. CASE new.slug # cur[t].slug
      BY <2>1, <3>1 DEF HasSlug
    <3>2. CASE new.slug = cur[t].slug
      BY <2>2, <3>2 DEF IInv, Tables, OneEach
    <3> QED
      BY <3>1, <3>2
  <2>7. Sound(t)'
    <3>1. Control(t)' /\ Aimed(t)'
      BY <2>1, <2>2, <2>3, <2>4, HandlerFacts DEF Control, Aimed, Holding, Creating, tables
    <3>2. Current(t)'
      BY <2>1, <2>4, HandlerFacts DEF Current, Unseen, tables
    <3>3. Written(t)'
      BY <2>1, <2>4, <2>6 DEF Written, Existing, tables, new
    <3> QED
      BY <3>1, <3>2, <3>3 DEF Sound
  <2>8. ASSUME NEW u \in Tx \ {t} PROVE Apart(t, u)'
    <3>1. cur[u] # NoRow => w # req[u].workspace
      BY <2>2 DEF IInv, Apart
    <3>2. wrote[u] # NoRow => wrote[u].slug # new.slug
      <4>1. CASE new.slug # cur[t].slug
        BY <2>1, <4>1 DEF Settled, Others
      <4>2. CASE new.slug = cur[t].slug
        <5>1. wrote[u] # NoRow => cur[u] # NoRow /\ Written(u)
          BY DEF IInv, Sound, Control, Holding
        <5> QED
          BY <2>2, <3>1, <4>2, <5>1 DEF Written
      <4> QED
        BY <4>1, <4>2
    <3> QED
      BY <2>1, <2>4, <3>1, <3>2 DEF Apart
  <2> QED
    BY <2>1, <2>4, <2>5, <2>7, <2>8, LocalStep
<1> QED
  BY <1>1, <1>2

\* A workspace that goes in takes no row another handler works on, and no slug.
LEMMA InsertedKeeps ==
    ASSUME IInv, NEW t \in Tx, At(t, "insert"), Inserted(t),
           rows[req[t].workspace] = NoRow, Settled(t, req[t].slug), HasSlug(req[t].slug) = {},
           ~HasPersonal(req[t])
    PROVE  IInv'
<1> DEFINE w == req[t].workspace
           s == req[t].slug
<1>1. PICK row \in NewRows(req[t]) : /\ rows' = [rows EXCEPT ![w] = row]
                                     /\ prefixes' = [prefixes EXCEPT ![w] = PrefixesOf(row)]
  BY DEF Inserted
<1>2. /\ pc[t] = "insert" /\ w \in Workspace /\ s \in Slug
      /\ req[t].op \in {"create", "personal"} /\ req[t].user \in User
  BY HandlerFacts DEF At, Control, Creating, Request
<1>3. /\ row \in Row /\ row # NoRow /\ row.slug = s /\ ~row.deleted
      /\ row.personal = OwnerOf(req[t])
  <2>1. OwnerOf(req[t]) \in User \cup {Nobody}
    BY <1>2 DEF OwnerOf
  <2>2. row \in [name : Name, slug : {s}, prefix : Prefix, deleted : {FALSE}, version : {1},
                 personal : {OwnerOf(req[t])}]
    BY <1>1 DEF NewRows
  <2>3. /\ row.name \in Name /\ row.slug = s /\ row.prefix \in Prefix /\ row.deleted = FALSE
        /\ row.version = 1 /\ row.personal = OwnerOf(req[t])
        /\ row = [name |-> row.name, slug |-> row.slug, prefix |-> row.prefix,
                  deleted |-> row.deleted, version |-> row.version, personal |-> row.personal]
    BY <2>2
  <2>4. row \in Row
    <3>1. row.deleted \in BOOLEAN
      BY <2>3
    <3>2. row.version \in Nat \ {0} /\ row.slug \in Slug /\ row.personal \in User \cup {Nobody}
      BY <1>2, <2>1, <2>3
    <3> HIDE DEF s
    <3> QED
      BY <2>3, <3>1, <3>2, Zenon DEF Row
  <2> QED
    BY <2>3, <2>4, NullAssumption
<1>4. /\ rows'[w] = row /\ rows[w] = NoRow
      /\ \A x \in Workspace \ {w} : rows'[x] = rows[x] /\ prefixes'[x] = prefixes[x]
      /\ prefixes'[w] = PrefixesOf(row)
      /\ UNCHANGED <<aliasOf, expired, history, started>>
  BY <1>1, <1>2 DEF IInv, WorkspacesTyped, Rows, Inserted
<1>5. /\ pc'[t] = "idle" /\ req'[t] = NoRow /\ cur'[t] = NoRow /\ wrote'[t] = NoRow
      /\ \A u \in Tx \ {t} : /\ req'[u] = req[u] /\ pc'[u] = pc[u]
                             /\ cur'[u] = cur[u] /\ wrote'[u] = wrote[u]
  BY DEF Inserted, End, Goto, IInv, WorkspacesTyped
<1>6. WorkspacesTyped'
  BY <1>1, <1>2, <1>3 DEF IInv, WorkspacesTyped, Rows, Inserted, End, Goto, Steps, PrefixesOf
<1>7. Existing(rows') = Existing(rows) \cup {w}
  BY <1>2, <1>3, <1>4 DEF Existing
<1>8. ASSUME NEW u \in Tx PROVE Sound(u)'
  <2>1. CASE u = t
    BY <1>5, <2>1 DEF Sound, Control, Aimed, Current, Written, Holding, Creating
  <2>2. CASE u # t
    <3>1. Control(u)'
      BY <1>5, <2>2 DEF IInv, Sound, Control
    <3>2. pc[u] \in {"load", "lock"} \cup Holding => req[u].workspace \in Workspace \ {w}
      BY <1>4, HandlerFacts DEF Aimed, Request, Holding
    <3>3. Aimed(u)'
      BY <1>4, <1>5, <2>2, <3>2 DEF IInv, Sound, Aimed
    <3>4. Current(u)'
      BY <1>4, <1>5, <2>2, <3>2 DEF IInv, Sound, Control, Current, Unseen
    <3>5. Written(u)'
      <4> SUFFICES ASSUME wrote[u] # NoRow PROVE Written(u)'
        BY <1>5, <2>2 DEF Written
      <4>1. /\ Written(u) /\ wrote[u].slug # s
        BY <2>2 DEF IInv, Sound, Settled, Others
      <4>2. \A x \in Existing(rows) \ {req[u].workspace} : rows'[x].slug # wrote[u].slug
        BY <1>4, <4>1 DEF Written, Existing
      <4> QED
        BY <1>3, <1>4, <1>5, <1>7, <2>2, <4>1, <4>2 DEF Written
    <3> QED
      BY <3>1, <3>3, <3>4, <3>5 DEF Sound
  <2> QED
    BY <2>1, <2>2
<1>9. ASSUME NEW u \in Tx, NEW v \in Tx, u # v PROVE Apart(u, v)'
  BY <1>5, <1>9 DEF IInv, Apart
<1>10. Known'
  <2>1. ASSUME NEW x \in Workspace, rows[x] # NoRow PROVE rows'[x] # NoRow
    BY <1>3, <1>4, <2>1
  <2>2. aliasOf \in [Slug -> Workspace \cup {Nobody}] /\ history \in SUBSET Change
    BY DEF IInv, WorkspacesTyped
  <2> QED
    BY <1>4, <2>1, <2>2 DEF IInv, Tables, Known, Change
<1>11. OneEach'
  <2>1. ASSUME NEW x \in Existing(rows) PROVE x # w /\ rows'[x] = rows[x] /\ rows[x].slug # s
    BY <1>4 DEF Existing, HasSlug
  <2>2. ASSUME NEW x \in Existing(rows), row.personal # Nobody PROVE rows[x].personal # row.personal
    BY <1>2, <1>3, <2>2 DEF HasPersonal, OwnerOf
  <2> QED
    BY <1>3, <1>4, <1>7, <2>1, <2>2 DEF IInv, Tables, OneEach
<1>12. OneWayIn'
  <2>1. /\ ~Renamed(w)
        /\ \A x \in Workspace : Renamed(x)' = Renamed(x)
    BY <1>4 DEF IInv, Tables, Known, Renamed
  <2>2. aliasOf[s] # w
    BY <1>2, <1>4, NullAssumption DEF IInv, Tables, Known
  <2>3. \A x \in Existing(rows) : x \in Workspace \ {w} /\ rows'[x] = rows[x]
    BY <1>4 DEF Existing
  <2> QED
    BY <1>2, <1>3, <1>4, <1>7, <2>1, <2>2, <2>3 DEF IInv, Tables, OneWayIn
<1>13. OnePrefix'
  <2>1. \A p \in Prefix : prefixes'[w][p] = "open" <=> rows'[w].prefix = p
    BY <1>3, <1>4 DEF PrefixesOf
  <2>2. \A x \in Existing(rows) : x \in Workspace \ {w}
    BY <1>4 DEF Existing
  <2> QED
    BY <1>4, <1>7, <2>1, <2>2 DEF IInv, Tables, OnePrefix
<1> QED
  BY <1>6, <1>8, <1>9, <1>10, <1>11, <1>12, <1>13 DEF IInv, Tables

LEMMA InsertKeeps == ASSUME IInv, NEW t \in Tx, Insert(t) PROVE IInv'
<1>1. CASE Return(t)
  BY <1>1, ReturnKeeps
<1>2. CASE SlugWasTaken(t) /\ ~Return(t)
  <2>1. /\ pc[t] = "insert" /\ Goto(t, "similar") /\ tries' = [tries EXCEPT ![t] = @ + 1]
        /\ UNCHANGED <<tables, req, cur, wrote, started>>
    BY <1>2 DEF Insert, SlugWasTaken, At
  <2>2. WorkspacesTyped'
    BY <2>1 DEF IInv, WorkspacesTyped, Goto, Steps, tables
  <2>3. pc'[t] = "similar" /\ \A u \in Tx \ {t} : pc'[u] = pc[u]
    BY <2>1 DEF Goto, IInv, WorkspacesTyped
  <2>4. Sound(t)'
    BY <2>1, <2>3, HandlerFacts DEF Sound, Control, Aimed, Current, Written, Holding, Creating
  <2>5. \A u \in Tx \ {t} : Apart(t, u)'
    BY <2>1 DEF IInv, Apart
  <2> QED
    BY <2>1, <2>2, <2>3, <2>4, <2>5, LocalStep
<1>3. CASE Inserted(t) /\ rows[req[t].workspace] = NoRow /\ HasSlug(req[t].slug) = {}
           /\ ~HasPersonal(req[t])
  BY <1>3, InsertedKeeps DEF Insert
<1> QED
  BY <1>1, <1>2, <1>3 DEF Insert

\* What a commit writes, and what the others keep.
Committed(t, w, new) ==
    /\ w \in Existing(rows) /\ rows[w] = cur[t] /\ cur[t] \in Row /\ cur[t] # NoRow
    /\ new \in Row /\ new # NoRow /\ req[t] \in Request
    /\ req[t].op \in {"patch", "delete", "restore"}
    /\ new = [Applied(req[t], cur[t]) EXCEPT !.version = @ + 1]
    /\ new.version = cur[t].version + 1 /\ new.personal = cur[t].personal
    /\ rows' = [rows EXCEPT ![w] = new] /\ rows'[w] = new
    /\ \A x \in Workspace \ {w} : rows'[x] = rows[x]
    /\ Existing(rows') = Existing(rows)
    /\ \A x \in Existing(rows) \ {w} : rows[x].slug # new.slug /\ rows[x].slug # cur[t].slug
    /\ history' = history \cup {[workspace |-> w, version |-> new.version,
                                 fields |-> Diff(cur[t], new)]}
    /\ pc'[t] = "idle" /\ req'[t] = NoRow /\ cur'[t] = NoRow /\ wrote'[t] = NoRow
    /\ \A u \in Tx \ {t} : /\ req'[u] = req[u] /\ pc'[u] = pc[u]
                           /\ cur'[u] = cur[u] /\ wrote'[u] = wrote[u]
    /\ WorkspacesTyped'

LEMMA CommitFacts ==
    ASSUME IInv, NEW t \in Tx, Commit(t), NEW w, w = req[t].workspace, NEW new, new = wrote[t]
    PROVE  Committed(t, w, new)
<1>1. pc[t] = "commit"
  BY DEF Commit, At
<1>2. /\ w \in Existing(rows) /\ rows[w] = cur[t] /\ cur[t] \in Row /\ cur[t] # NoRow
      /\ new \in Row /\ new # NoRow /\ req[t] \in Request
      /\ req[t].op \in {"patch", "delete", "restore"}
  BY <1>1, HandlerFacts DEF Control, Current, Holding, Request, Existing
<1>3. new = [Applied(req[t], cur[t]) EXCEPT !.version = @ + 1]
  BY <1>2, HandlerFacts, <1>1 DEF Written
<1>4. new.version = cur[t].version + 1 /\ new.personal = cur[t].personal
  BY <1>2, <1>3, AppliedIsARow DEF Row
<1>5. /\ rows' = [rows EXCEPT ![w] = new] /\ rows'[w] = new
      /\ \A x \in Workspace \ {w} : rows'[x] = rows[x]
  BY <1>2 DEF Commit, IInv, WorkspacesTyped, Rows, Existing
<1>6. Existing(rows') = Existing(rows)
  BY <1>2, <1>5 DEF Existing
<1>7. \A x \in Existing(rows) \ {w} : rows[x].slug # new.slug /\ rows[x].slug # cur[t].slug
  <2>1. \A x \in Existing(rows) \ {w} : rows[x].slug # new.slug
    BY <1>1, <1>2, HandlerFacts DEF Written
  <2>2. \A x \in Existing(rows) \ {w} : rows[x].slug # cur[t].slug
    BY <1>2 DEF IInv, Tables, OneEach
  <2> QED
    BY <2>1, <2>2
<1>8. history' = history \cup {[workspace |-> w, version |-> new.version, fields |-> Diff(cur[t], new)]}
  BY DEF Commit
<1>9. /\ pc'[t] = "idle" /\ req'[t] = NoRow /\ cur'[t] = NoRow /\ wrote'[t] = NoRow
      /\ \A u \in Tx \ {t} : /\ req'[u] = req[u] /\ pc'[u] = pc[u]
                             /\ cur'[u] = cur[u] /\ wrote'[u] = wrote[u]
  BY DEF Commit, End, Goto, IInv, WorkspacesTyped
<1>10. WorkspacesTyped'
  <2>1. rows' \in Rows /\ started' \in Nat
    BY <1>2, <1>5 DEF IInv, WorkspacesTyped, Rows, Commit
  <2>2. cur[t].slug \in Slug /\ new.slug \in Slug /\ w \in Workspace /\ new.version \in Nat
    BY <1>2 DEF Row, Existing
  <2>3. aliasOf' \in [Slug -> Workspace \cup {Nobody}] /\ expired' \in SUBSET Slug
    BY <2>2 DEF Commit, move_slug, IInv, WorkspacesTyped
  <2>4. prefixes' \in [Workspace -> [Prefix -> {"none", "open", "closed"}]]
    <3>1. switch_task_prefix(w, cur[t].prefix, new.prefix)
      BY DEF Commit
    <3> QED
      BY <2>2, <3>1 DEF switch_task_prefix, IInv, WorkspacesTyped
  <2>5. history' \in SUBSET Change
    <3>1. Diff(cur[t], new) \subseteq Fields
      BY DEF Diff
    <3> QED
      BY <1>8, <2>2, <3>1 DEF IInv, WorkspacesTyped, Change
  <2>6. /\ req' \in [Tx -> Request \cup {NoRow}] /\ pc' \in [Tx -> Steps]
        /\ cur' \in [Tx -> Row \cup {NoRow}] /\ wrote' \in [Tx -> Row \cup {NoRow}]
        /\ tries' \in [Tx -> Nat]
    BY DEF Commit, End, Goto, IInv, WorkspacesTyped, Steps
  <2> QED
    BY <2>1, <2>3, <2>4, <2>5, <2>6 DEF WorkspacesTyped
<1> QED
  BY <1>2, <1>3, <1>4, <1>5, <1>6, <1>7, <1>8, <1>9, <1>10 DEF Committed

LEMMA CommitKeeps == ASSUME IInv, NEW t \in Tx, Commit(t) PROVE IInv'
<1>0. PICK w, new : w = req[t].workspace /\ new = wrote[t]
  OBVIOUS
<1>1. Committed(t, w, new)
  BY <1>0, CommitFacts
<1> USE DEF Committed
<1>2. pc[t] = "commit" /\ w \in Workspace
  BY <1>1 DEF Commit, At, Existing
<1>3. ASSUME NEW u \in Tx PROVE Sound(u)'
  <2>1. CASE u = t
    BY <1>1, <2>1 DEF Sound, Control, Aimed, Current, Written, Holding, Creating
  <2>2. CASE u # t
    <3>1. /\ Control(u) /\ Aimed(u) /\ Current(u) /\ Written(u) /\ Apart(t, u)
      BY <2>2 DEF IInv, Sound
    <3>2. Control(u)'
      BY <1>1, <2>2, <3>1 DEF Control
    <3>3. rows'[req[u].workspace] # NoRow \/ pc[u] \notin {"load", "lock"} \cup Holding
      BY <1>1, <3>1, HandlerFacts DEF Aimed, Request, Holding
    <3>4. Aimed(u)'
      <4>1. ASSUME pc[u] \in {"lock"} \cup Holding, req[u].op # "patch"
            PROVE  rows'[req[u].workspace].personal = Nobody
        <5>1. /\ req[u].workspace \in Workspace
              /\ rows[req[u].workspace].personal = Nobody
          BY <3>1, <4>1, HandlerFacts DEF Aimed, Request, Holding
        <5>2. CASE req[u].workspace = w
          BY <1>1, <5>1, <5>2
        <5>3. CASE req[u].workspace # w
          BY <1>1, <5>1, <5>3
        <5> QED
          BY <5>2, <5>3
      <4> QED
        BY <1>1, <2>2, <3>3, <4>1 DEF Aimed
    <3>5. Current(u)'
      <4> SUFFICES ASSUME cur[u] # NoRow PROVE Current(u)'
        BY <1>1, <2>2 DEF Current
      <4>1. req[u].workspace \in Workspace \ {w} /\ req[u] \in Request
        BY <1>0, <1>1, <3>1, HandlerFacts DEF Apart, Control, Request, Holding
      <4>2. \A h \in history' : h.workspace = req[u].workspace => h \in history
        BY <1>1, <4>1
      <4>3. Unseen(req[u]) = {} => Unseen(req[u])' = {}
        BY <1>1, <2>2, <4>2 DEF Unseen
      <4> QED
        BY <1>1, <2>2, <3>1, <4>1, <4>3 DEF Current
    <3>6. Written(u)'
      <4> SUFFICES ASSUME wrote[u] # NoRow PROVE Written(u)'
        BY <1>1, <2>2 DEF Written
      <4>1. new.slug # wrote[u].slug
        BY <1>0, <1>1, <3>1 DEF Apart
      <4>2. \A x \in Existing(rows) \ {req[u].workspace} : rows'[x].slug # wrote[u].slug
        BY <1>1, <3>1, <4>1 DEF Written, Existing
      <4> QED
        BY <1>1, <2>2, <3>1, <4>2 DEF Written
    <3> QED
      BY <3>2, <3>4, <3>5, <3>6 DEF Sound
  <2> QED
    BY <2>1, <2>2
<1>4. ASSUME NEW u \in Tx, NEW v \in Tx, u # v PROVE Apart(u, v)'
  BY <1>1, <1>4 DEF IInv, Apart
<1>5. Known'
  <2>1. \A x \in Workspace : rows[x] # NoRow => rows'[x] # NoRow
    BY <1>1
  <2>2. cur[t].slug \in Slug /\ new.slug \in Slug
    BY <1>1 DEF Row
  <2>3. \A s \in Slug : aliasOf'[s] \in {aliasOf[s], Nobody, w}
    BY <1>0, <1>1, <2>2 DEF Commit, move_slug, IInv, WorkspacesTyped
  <2>4. /\ aliasOf \in [Slug -> Workspace \cup {Nobody}]
        /\ \A h \in history : h.workspace \in Workspace
    BY DEF IInv, WorkspacesTyped, Change
  <2>5. rows[w] # NoRow
    BY <1>1 DEF Existing
  <2>6. Known
    BY DEF IInv, Tables
  <2>7. \A h \in history' : h \in history \/ h.workspace = w
    BY <1>1
  <2> HIDE DEF Committed
  <2>8. \A s \in Slug : aliasOf'[s] # Nobody => rows'[aliasOf'[s]] # NoRow
    BY <1>2, <2>1, <2>3, <2>4, <2>5, <2>6 DEF Known
  <2>9. \A h \in history' : rows'[h.workspace] # NoRow
    BY <1>2, <2>1, <2>4, <2>5, <2>6, <2>7 DEF Known
  <2> QED
    BY <2>8, <2>9 DEF Known
<1>6. OneEach'
  <2>1. new.personal # Nobody => ~new.deleted
    <3>1. CASE req[t].op = "patch"
      <4>1. /\ req[t] \in Request /\ cur[t] \in Row /\ rows[w] = cur[t] /\ w \in Existing(rows)
            /\ new = [Applied(req[t], cur[t]) EXCEPT !.version = Applied(req[t], cur[t]).version + 1]
        BY <1>1
      <4> HIDE DEF Committed
      <4>2. Applied(req[t], cur[t]).deleted = cur[t].deleted
        BY <3>1, <4>1 DEF Applied, Row
      <4>3. Applied(req[t], cur[t]) \in Row /\ Applied(req[t], cur[t]).personal = cur[t].personal
        BY <4>1, AppliedIsARow
      <4>4. new.deleted = cur[t].deleted /\ new.personal = cur[t].personal
        BY <4>1, <4>2, <4>3 DEF Row
      <4>5. OneEach
        BY DEF IInv, Tables
      <4> QED
        BY <4>1, <4>4, <4>5 DEF OneEach
    <3>2. CASE req[t].op # "patch"
      BY <1>0, <1>1, <1>2, <3>2, HandlerFacts DEF Aimed, Holding
    <3> QED
      BY <3>1, <3>2
  <2>2. ASSUME NEW v \in Existing(rows), NEW x \in Existing(rows)
        PROVE  /\ rows'[v].slug = rows'[x].slug => v = x
               /\ rows'[v].personal = rows[v].personal
               /\ rows'[v].personal # Nobody => ~rows'[v].deleted
    <3>1. v \in Workspace /\ x \in Workspace
      BY DEF Existing
    <3>2. rows'[v].slug = rows'[x].slug => v = x
      BY <1>1, <3>1 DEF IInv, Tables, OneEach
    <3>3. rows'[v].personal = rows[v].personal
      BY <1>1, <3>1
    <3>4. rows'[v].personal # Nobody => ~rows'[v].deleted
      BY <1>1, <2>1, <3>1 DEF IInv, Tables, OneEach
    <3> QED
      BY <3>2, <3>3, <3>4
  <2> QED
    BY <1>1, <2>2 DEF IInv, Tables, OneEach
<1>7. OneWayIn'
  <2>1. cur[t].slug \in Slug /\ new.slug \in Slug
    BY <1>1 DEF Row
  <2>2. move_slug(w, cur[t].slug, new.slug)
    BY <1>0 DEF Commit
  <2>3. ASSUME NEW x \in Existing(rows), x # w
        PROVE  /\ Renamed(x)' => aliasOf'[rows'[x].slug] = Nobody
               /\ aliasOf'[rows'[x].slug] # x
    <3>1. rows'[x] = rows[x] /\ rows[x].slug \notin {cur[t].slug, new.slug} /\ rows[x].slug \in Slug
      BY <1>1, <2>3 DEF Existing, IInv, WorkspacesTyped, Rows, Row
    <3>2. aliasOf'[rows[x].slug] = aliasOf[rows[x].slug]
      BY <2>1, <2>2, <3>1 DEF move_slug, IInv, WorkspacesTyped
    <3>3. Renamed(x)' => Renamed(x)
      BY <1>1, <2>3 DEF Renamed
    <3> QED
      BY <3>1, <3>2, <3>3 DEF IInv, Tables, OneWayIn
  <2>4. /\ (\E h \in history' : h.workspace = w /\ "slug" \in h.fields) => aliasOf'[new.slug] = Nobody
        /\ aliasOf'[new.slug] # w
    <3>1. CASE new.slug = cur[t].slug
      <4>1. aliasOf' = aliasOf /\ "slug" \notin Diff(cur[t], new)
        BY <2>2, <3>1 DEF move_slug, Diff
      <4> QED
        BY <1>1, <3>1, <4>1 DEF IInv, Tables, OneWayIn, Renamed
    <3>2. CASE new.slug # cur[t].slug
      <4>1. aliasOf'[new.slug] = Nobody
        BY <2>1, <2>2, <3>2 DEF move_slug, IInv, WorkspacesTyped
      <4> QED
        BY <1>2, <4>1, NullAssumption
    <3> QED
      BY <3>1, <3>2
  <2>5. ASSUME NEW x \in Existing(rows)
        PROVE  /\ Renamed(x)' => aliasOf'[rows'[x].slug] = Nobody
               /\ aliasOf'[rows'[x].slug] # x
    <3>1. rows'[w] = new
      BY <1>1
    <3>2. CASE x = w
      BY <2>4, <3>1, <3>2 DEF Renamed
    <3>3. CASE x # w
      BY <2>3, <3>3
    <3> QED
      BY <3>2, <3>3
  <2>6. Existing(rows') = Existing(rows)
    BY <1>1
  <2> HIDE DEF Committed
  <2> QED
    BY <2>5, <2>6 DEF OneWayIn
<1>8. OnePrefix'
  <2>1. switch_task_prefix(w, cur[t].prefix, new.prefix)
    BY <1>0 DEF Commit
  <2>2. \A x \in Existing(rows) \ {w} : prefixes'[x] = prefixes[x] /\ rows'[x] = rows[x]
    BY <1>1, <2>1 DEF switch_task_prefix, IInv, WorkspacesTyped, Existing
  <2>3. \A p \in Prefix : prefixes'[w][p] = "open" <=> new.prefix = p
    <3>1. CASE new.prefix = cur[t].prefix
      BY <1>1, <2>1, <3>1 DEF switch_task_prefix, IInv, Tables, OnePrefix
    <3>2. CASE new.prefix # cur[t].prefix
      BY <1>1, <1>2, <2>1, <3>2 DEF switch_task_prefix, IInv, WorkspacesTyped
    <3> QED
      BY <3>1, <3>2
  <2>4. \A p \in Prefix : prefixes'[w][p] = "open" <=> rows'[w].prefix = p
    <3>1. rows'[w] = new
      BY <1>1
    <3> HIDE DEF Committed
    <3> QED
      BY <2>3, <3>1
  <2>5. \A x \in Existing(rows) \ {w} : \A p \in Prefix : prefixes'[x][p] = "open" <=> rows'[x].prefix = p
    BY <2>2 DEF IInv, Tables, OnePrefix
  <2> QED
    BY <1>1, <2>4, <2>5 DEF OnePrefix
<1> QED
  BY <1>1, <1>3, <1>4, <1>5, <1>6, <1>7, <1>8 DEF IInv, Tables
-----------------------------------------------------------------------------
(* The theorems. *)

LEMMA StepKeeps == IInv /\ [WorkspacesNext]_workspacesVars => IInv'
<1> SUFFICES ASSUME IInv, [WorkspacesNext]_workspacesVars PROVE IInv'
  OBVIOUS
<1>1. ASSUME NEW t \in Tx, Begin(t) PROVE IInv'
  BY <1>1, BeginKeeps
<1>2. ASSUME NEW t \in Tx, Rollback(t) PROVE IInv'
  BY <1>2, ReturnKeeps DEF Rollback
<1>3. ASSUME NEW t \in Tx, Step(t) PROVE IInv'
  BY <1>3, ValidateKeeps, FindPersonalKeeps, ChooseSlugKeeps, InsertKeeps, LoadKeeps, LockKeeps,
     CheckConflictsKeeps, CheckTakenKeeps, CheckOwnKeeps, WriteKeeps, CommitKeeps DEF Step
<1>4. ASSUME NEW s \in Slug, Expire(s) PROVE IInv'
  BY <1>4, ExpireKeeps
<1>5. CASE UNCHANGED workspacesVars
  BY <1>5 DEF workspacesVars, IInv, WorkspacesTyped, Sound, Control, Aimed, Current, Written, Apart,
     Tables, Known, OneEach, OneWayIn, OnePrefix, Existing, Renamed, Unseen
<1> QED
  BY <1>1, <1>2, <1>3, <1>4, <1>5 DEF WorkspacesNext

\* However creates, renames, deletes and restores interleave, and wherever they end: an address
\* opens one workspace, a slug taken by a rename is nobody's redirect, a personal workspace is the
\* user's only one and live, one prefix is open, and a locked row is the one in the table.
THEOREM AddressesHold == WorkspacesSpec => []AddressesAgree
<1>1. IInv => AddressesAgree
  BY DEF IInv, AddressesAgree, Tables, Sound, Current, LockedIsCurrent
<1> QED
  BY InitHolds, StepKeeps, <1>1, PTL DEF WorkspacesSpec

\* What a change of w was asked for: the body of SettingsAreSeen.
Seen(t, w) ==
    LET r == req[t] IN
    /\ At(t, "commit") /\ r.workspace = w
    /\ rows'[w].version = rows[w].version + 1
    /\ r.op = "patch" => /\ Unseen(r) = {}
                         /\ Diff(rows[w], rows'[w]) \subseteq Sent(r)
    /\ r.op = "delete" => rows[w].name = r.name /\ ~rows[w].deleted
    /\ r.op # "patch" => Diff(rows[w], rows'[w]) = {"deletedAt"}

\* A request changes the fields it sent; a delete or a restore the time of deletion alone.
LEMMA WhatChanges ==
    ASSUME NEW r \in Request, NEW row \in Row, NEW new,
           new = [Applied(r, row) EXCEPT !.version = @ + 1],
           r.op \in {"patch", "delete", "restore"},
           r.op = "delete" => ~row.deleted, r.op = "restore" => row.deleted
    PROVE  /\ r.op = "patch" => Diff(row, new) \subseteq Sent(r)
           /\ r.op # "patch" => Diff(row, new) = {"deletedAt"}
<1>1. Applied(r, row) \in Row /\ row.deleted \in BOOLEAN
  BY AppliedIsARow DEF Row
<1>2. /\ new.name = Applied(r, row).name /\ new.slug = Applied(r, row).slug
      /\ new.prefix = Applied(r, row).prefix /\ new.deleted = Applied(r, row).deleted
  BY <1>1 DEF Row
<1>3. CASE r.op = "patch"
  <2>1. /\ new.name = SetOr(r.name, row.name) /\ new.slug = SetOr(r.slug, row.slug)
        /\ new.prefix = SetOr(r.prefix, row.prefix) /\ new.deleted = row.deleted
    BY <1>2, <1>3 DEF Applied, Row
  <2> QED
    BY <1>3, <2>1 DEF Diff, Sent, SetOr
<1>4. CASE r.op \in {"delete", "restore"}
  <2>1. /\ new.name = row.name /\ new.slug = row.slug /\ new.prefix = row.prefix
        /\ new.deleted = (r.op = "delete")
    BY <1>2, <1>4 DEF Applied, Row
  <2>2. new.deleted # row.deleted
    BY <1>4, <2>1
  <2> QED
    BY <1>4, <2>1, <2>2 DEF Diff, Fields
<1> QED
  BY <1>3, <1>4

LEMMA CommitIsSeen ==
    ASSUME IInv, NEW t \in Tx, Commit(t), NEW x \in Existing(rows), rows'[x] # rows[x]
    PROVE  Seen(t, x)
<1>0. PICK w, new : w = req[t].workspace /\ new = wrote[t]
  OBVIOUS
<1>1. Committed(t, w, new)
  BY <1>0, CommitFacts
<1>2. x = w /\ rows[x] = cur[t] /\ rows'[x] = new /\ pc[t] = "commit"
  BY <1>1 DEF Committed, Existing, Commit, At
<1>3. /\ req[t].op = "delete" => cur[t].name = req[t].name /\ ~cur[t].deleted
      /\ req[t].op = "restore" => cur[t].deleted
      /\ req[t].op = "patch" => Unseen(req[t]) = {}
  BY <1>1, <1>2, HandlerFacts DEF Current, Committed
<1>4. /\ req[t].op = "patch" => Diff(cur[t], new) \subseteq Sent(req[t])
      /\ req[t].op # "patch" => Diff(cur[t], new) = {"deletedAt"}
  BY <1>1, <1>3, WhatChanges DEF Committed
<1>5. new.version = cur[t].version + 1
  BY <1>1 DEF Committed
<1> QED
  BY <1>0, <1>2, <1>3, <1>4, <1>5 DEF Seen, At

\* Every other step leaves the rows there are.
LEMMA OthersChangeNoRow ==
    ASSUME IInv, WorkspacesNext, ~ \E t \in Tx : Commit(t), NEW x \in Existing(rows)
    PROVE  rows'[x] = rows[x]
<1>1. ASSUME NEW t \in Tx, Insert(t) PROVE rows'[x] = rows[x]
  <2>1. CASE UNCHANGED rows
    BY <2>1
  <2>2. CASE Inserted(t) /\ rows[req[t].workspace] = NoRow
    <3>1. x # req[t].workspace /\ x \in Workspace
      BY <2>2 DEF Existing
    <3> QED
      BY <2>2, <3>1 DEF Inserted, IInv, WorkspacesTyped, Rows
  <2> QED
    BY <1>1, <2>1, <2>2 DEF Insert, SlugWasTaken, Return, tables
<1>2. ASSUME NEW t \in Tx, Begin(t) \/ Rollback(t) PROVE rows'[x] = rows[x]
  BY <1>2 DEF Begin, Rollback, Return, tables
<1>3. ASSUME NEW t \in Tx, Step(t) PROVE rows'[x] = rows[x]
  BY <1>1, <1>3 DEF Step, Validate, FindPersonal, ChooseSlug, Load, Lock, LockWhen, CheckConflicts,
     CheckConflictsWhen, CheckTaken, CheckOwn, Write, Return, tables
<1>4. ASSUME NEW s \in Slug, Expire(s) PROVE rows'[x] = rows[x]
  BY <1>4 DEF Expire
<1> QED
  BY <1>2, <1>3, <1>4 DEF WorkspacesNext

\* A patch that commits overwrites no field its author had not seen and writes no other, and a
\* workspace is deleted under the name that was confirmed, whatever ran meanwhile.
THEOREM ChangesAreSeen == WorkspacesSpec => SettingsAreSeen
<1>1. ASSUME IInv, WorkspacesNext, NEW w \in Existing(rows), rows'[w] # rows[w]
      PROVE  \E t \in Tx : Seen(t, w)
  <2>1. PICK t \in Tx : Commit(t)
    BY <1>1, OthersChangeNoRow
  <2> QED
    BY <1>1, <2>1, CommitIsSeen
<1>2. IInv /\ [WorkspacesNext]_workspacesVars =>
        [\A w \in Existing(rows) : rows'[w] # rows[w] => \E t \in Tx : Seen(t, w)]_workspacesVars
  BY <1>1
<1>3. WorkspacesSpec => []IInv
  BY InitHolds, StepKeeps, PTL DEF WorkspacesSpec
<1> QED
  BY <1>2, <1>3, PTL DEF WorkspacesSpec, SettingsAreSeen, Seen
=============================================================================
