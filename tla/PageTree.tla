------------------------------ MODULE PageTree ------------------------------
(***************************************************************************)
(* What the page tree of a workspace promises (apps/main_service/src/pages,*)
(* docs/pages-backend.md section 2): create, move, delete and restore, each *)
(* one transaction that runs alone.  PageTransactions has the same         *)
(* handlers statement by statement and is shown to implement this module   *)
(* when transactions do not overlap.                                       *)
(*                                                                         *)
(* Only the shape of the tree is here: who is whose parent and what is in  *)
(* the trash.  Places among siblings, titles, types and versions belong to *)
(* PageTransactions.                                                       *)
(***************************************************************************)
EXTENDS PageForest

VARIABLES
    pages,      \* the ids that have a row
    parent,     \* pages.parent_id
    root        \* pages.deleted_root; NoPage exactly while deleted_at is NULL

vars == <<pages, parent, root>>

Live == {p \in pages : root[p] = NoPage}

Init ==
    /\ pages = {}
    /\ parent = [p \in Page |-> NoPage]
    /\ root = [p \in Page |-> NoPage]

\* check_parent: the new parent is live, in the same workspace.
GoesUnder(q) == q = NoPage \/ q \in Live

Create(p, q) ==
    /\ p \notin pages
    /\ GoesUnder(q)
    /\ DepthOf(parent, q) + 1 <= MaxDepth
    /\ pages' = pages \cup {p}
    /\ parent' = [parent EXCEPT ![p] = q]
    /\ UNCHANGED root

\* check_parent without the look at the path (PAGE_CYCLE)
MoveAnywhere(p, q) ==
    /\ p \in Live
    /\ GoesUnder(q)
    /\ DepthOf(parent, q) + Height(parent, Live, p) <= MaxDepth
    /\ parent' = [parent EXCEPT ![p] = q]
    /\ UNCHANGED <<pages, root>>

Move(p, q) ==
    /\ p \in Live
    /\ GoesUnder(q)
    /\ q # NoPage => p \notin Up(parent, q)
    /\ DepthOf(parent, q) + Height(parent, Live, p) <= MaxDepth
    /\ parent' = [parent EXCEPT ![p] = q]
    /\ UNCHANGED <<pages, root>>

\* delete_page without `deleted_at.is_some()`: deletes a page in the trash once more
DeleteTrashed(p) ==
    /\ p \in pages
    /\ root' = [d \in Page |->
                  IF d \in LiveUnder(parent, Live, p) \cup {p} THEN p ELSE root[d]]
    /\ UNCHANGED <<pages, parent>>

Delete(p) ==
    /\ p \in Live
    /\ root' = [d \in Page |->
                  IF d \in LiveUnder(parent, Live, p) \cup {p} THEN p ELSE root[d]]
    /\ UNCHANGED <<pages, parent>>

\* restore without `parent_alive`: always back at the old place
RestoreInPlace(p) ==
    /\ p \in pages
    /\ root[p] = p
    /\ root' = [d \in Page |-> IF root[d] = p THEN NoPage ELSE root[d]]
    /\ UNCHANGED <<pages, parent>>

Restore(p) ==
    /\ p \in pages
    /\ root[p] = p
    /\ root' = [d \in Page |-> IF root[d] = p THEN NoPage ELSE root[d]]
    /\ parent' = IF GoesUnder(parent[p]) THEN parent ELSE [parent EXCEPT ![p] = NoPage]
    /\ UNCHANGED pages

Next ==
    \E p \in Page :
        \/ \E q \in Page \cup {NoPage} : Create(p, q) \/ Move(p, q)
        \/ Delete(p)
        \/ Restore(p)

Spec == Init /\ [][Next]_vars
-----------------------------------------------------------------------------
RowTypes ==
    /\ pages \in SUBSET Page
    /\ parent \in [Page -> Page \cup {NoPage}]
    /\ root \in [Page -> Page \cup {NoPage}]

\* A page without a row has no parent and no deleted_root, and a parent is a page with a row.
RowsOnly ==
    /\ \A p \in Page \ pages : parent[p] = NoPage /\ root[p] = NoPage
    /\ \A p \in Page : parent[p] # NoPage => parent[p] \in pages

\* Types: parents and deleted_root are ids or NULL, and a parent is a row (the foreign key of
\* pages.parent_id, which check_parent makes an answer instead of an error).
TypeOK == RowTypes /\ RowsOnly

\* No page is its own ancestor, live or in the trash ("not under itself"): a cycle would cut a
\* subtree off the root, and path_to_root would never end on it.  Moves check it; a restore
\* brings pages back on paths that moved meanwhile and does not.
Acyclic == \A p \in Page : parent[p] # NoPage => p \notin Up(parent, parent[p])

\* The pages of the tree a user sees hang together: a live page's parent is live.  Deletes of a
\* part of a trashed part, and restores in any order, must keep it.
LiveUnderLive == \A p \in Live : parent[p] # NoPage => parent[p] \in Live

\* A page trashed with an ancestor hangs on a page trashed by the same delete, up to the page the
\* delete was made on: restore brings back one connected subtree.
TrashedWithParent ==
    \A p \in pages : root[p] \notin {NoPage, p} => parent[p] # NoPage /\ root[parent[p]] = root[p]

\* deleted_root of any trashed page names a page that can be restored: the 409 of restore sends
\* the user there, and restore of that page works.
TrashIsRestorable == \A p \in Page : root[p] # NoPage => root[p] \in pages /\ root[root[p]] = root[p]

\* The tree and its trash hold together: all of the above at once, which every operation keeps.
TreeInv == RowTypes /\ RowsOnly /\ Acyclic /\ LiveUnderLive /\ TrashedWithParent /\ TrashIsRestorable

\* Between a delete and its restore nothing changes what the delete took: no other delete or
\* restore adds a page to it or takes one away.
RestoreTakesBackTheDelete ==
    [][\A r \in Page : root[r] = r /\ root'[r] = r
          => {d \in Page : root'[d] = r} = {d \in Page : root[d] = r}]_vars

=============================================================================
