----------------------------- MODULE PageForest -----------------------------
(***************************************************************************)
(* The two recursive queries of apps/main_service/src/pages/repo.rs, as    *)
(* operators on a parent function: the way up to the root and the live     *)
(* pages under a page.  Each WITH RECURSIVE ... UNION ALL is the least set *)
(* closed under its recursive part, and is written as one: the             *)
(* intersection of every set that contains the first term and is closed.   *)
(*                                                                         *)
(* Page ids are UUIDv7s, which Postgres orders: here they are numbers.     *)
(* NoPage stands for a NULL parent_id (a page at the root of the           *)
(* workspace) and for a NULL deleted_root (a live page).                   *)
(***************************************************************************)
EXTENDS Naturals, FiniteSets

CONSTANTS
    Page,       \* the ids a page can have
    MaxDepth    \* service::MAX_DEPTH, 12 in the code

ASSUME PageAssumption == Page \subseteq Nat \ {0}
ASSUME DepthAssumption == MaxDepth \in Nat \ {0}

NoPage == 0

\* Every parent of a member is a member: a level of `up` adds nothing.
ClosedUp(par, S) == \A a \in S : par[a] # NoPage => par[a] \in S

\* path_to_root(q): q and its ancestors.
Up(par, q) ==
    {a \in Page : \A S \in SUBSET Page : q \in S /\ ClosedUp(par, S) => a \in S}

\* Every live child of p or of a member is a member: a level of `down` adds nothing.
ClosedDown(par, live, p, S) == \A c \in live : par[c] \in S \cup {p} => c \in S

\* The `down` of trash_descendants and of subtree_height: the live pages under p.
LiveUnder(par, live, p) ==
    {d \in Page : \A S \in SUBSET Page : ClosedDown(par, live, p, S) => d \in S}

\* What check_parent returns as the depth of q; a page at the root is at depth 1.
DepthOf(par, q) == IF q = NoPage THEN 0 ELSE Cardinality(Up(par, q))

\* subtree_height(p): the levels of p's live subtree, 1 for a page without live children.
Height(par, live, p) ==
    CHOOSE h \in 1 .. Cardinality(Page) :
        /\ \E d \in LiveUnder(par, live, p) \cup {p} : h = DepthOf(par, d) - DepthOf(par, p) + 1
        /\ \A d \in LiveUnder(par, live, p) \cup {p} : DepthOf(par, d) - DepthOf(par, p) + 1 <= h
=============================================================================
