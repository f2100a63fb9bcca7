-------------------------- MODULE PageForestProofs --------------------------
(***************************************************************************)
(* What the recursive queries of pages/repo.rs return, for any parents:    *)
(* facts about Up and LiveUnder, and how one new parent changes the paths. *)
(***************************************************************************)
EXTENDS PageForest, TLAPS

ParentFunctions == [Page -> Page \cup {NoPage}]
-----------------------------------------------------------------------------
(* The path to the root. *)

\* The path to the root starts at the page itself.
LEMMA UpHasSelf ==
    ASSUME NEW par \in ParentFunctions, NEW q \in Page
    PROVE  q \in Up(par, q)
  BY DEF Up

\* The path to the root goes on to the parent of every page on it.
LEMMA UpIsClosed ==
    ASSUME NEW par \in ParentFunctions, NEW q \in Page
    PROVE  ClosedUp(par, Up(par, q))
  <1> SUFFICES ASSUME NEW a \in Up(par, q), par[a] # NoPage
               PROVE  par[a] \in Up(par, q)
    BY DEF ClosedUp
  <1>1. a \in Page /\ par[a] \in Page
    BY DEF Up, ParentFunctions
  <1>2. ASSUME NEW S \in SUBSET Page, q \in S, ClosedUp(par, S)
        PROVE  par[a] \in S
    <2>1. a \in S
      BY <1>2 DEF Up
    <2>2. QED
      BY <1>2, <2>1 DEF ClosedUp
  <1>3. QED
    BY <1>1, <1>2 DEF Up

\* The path to the root has nothing but what the recursive query reaches.
LEMMA UpIsLeast ==
    ASSUME NEW par \in ParentFunctions, NEW q \in Page,
           NEW S \in SUBSET Page, q \in S, ClosedUp(par, S)
    PROVE  Up(par, q) \subseteq S
  BY DEF Up

\* An ancestor's path is a part of the page's path.
LEMMA UpIsTransitive ==
    ASSUME NEW par \in ParentFunctions, NEW q \in Page, NEW a \in Up(par, q)
    PROVE  Up(par, a) \subseteq Up(par, q)
  <1>1. a \in Page /\ Up(par, q) \in SUBSET Page
    BY DEF Up
  <1>2. QED
    BY <1>1, UpIsClosed, UpIsLeast

AcyclicParents(par) == \A p \in Page : par[p] # NoPage => p \notin Up(par, par[p])

\* Putting m under q, when m is not on q's path, makes no cycle: this is what the PAGE_CYCLE check
\* of check_parent is worth when nothing else changes meanwhile.
LEMMA ReparentKeepsAcyclic ==
    ASSUME NEW par \in ParentFunctions, AcyclicParents(par),
           NEW m \in Page, NEW q \in Page, m \notin Up(par, q)
    PROVE  AcyclicParents([par EXCEPT ![m] = q])
  <1> DEFINE new == [par EXCEPT ![m] = q]
  <1>1. new \in ParentFunctions
    BY DEF ParentFunctions
  <1>2. SUFFICES ASSUME NEW p \in Page, new[p] # NoPage, p \in Up(new, new[p])
                 PROVE  FALSE
    BY DEF AcyclicParents
  <1>3. ASSUME NEW x \in Page, m \notin Up(par, x)
        PROVE  Up(new, x) \subseteq Up(par, x)
    <2>1. Up(par, x) \in SUBSET Page /\ x \in Up(par, x)
      BY UpHasSelf DEF Up
    <2>2. ClosedUp(new, Up(par, x))
      BY <1>3, UpIsClosed, <2>1 DEF ClosedUp, ParentFunctions
    <2>3. QED
      BY <1>1, <2>1, <2>2, UpIsLeast
  <1>4. ASSUME NEW x \in Page
        PROVE  Up(new, x) \subseteq Up(par, x) \cup Up(par, q)
    <2> DEFINE S == Up(par, x) \cup Up(par, q)
    <2>1. S \in SUBSET Page /\ x \in S /\ q \in S
      BY UpHasSelf DEF Up
    <2>2. ClosedUp(par, Up(par, x)) /\ ClosedUp(par, Up(par, q))
      BY UpIsClosed
    <2>3. ClosedUp(new, S)
      BY <2>1, <2>2 DEF ClosedUp, ParentFunctions
    <2> HIDE DEF S
    <2>4. Up(new, x) \subseteq S
      BY <1>1, <2>1, <2>3, UpIsLeast
    <2>5. QED
      BY <2>4 DEF S
  <1>5. CASE p = m
    <2>1. new[p] = q
      BY <1>5 DEF ParentFunctions
    <2>2. QED
      BY <1>2, <1>3, <1>5, <2>1
  <1>6. CASE p # m
    <2>1. new[p] = par[p] /\ par[p] \in Page
      BY <1>2, <1>6 DEF ParentFunctions
    <2>2. p \notin Up(par, par[p])
      BY <2>1, <1>2, PageAssumption DEF AcyclicParents, NoPage
    <2>3. m \in Up(par, par[p])
      BY <1>2, <1>3, <2>1, <2>2
    <2>4. p \in Up(par, q)
      BY <1>2, <1>4, <2>1, <2>2
    <2>5. par[p] \in Up(par, q)
      BY <2>1, <2>4, UpIsClosed, PageAssumption DEF ClosedUp, NoPage
    <2>6. m \in Up(par, q)
      BY <2>3, <2>5, UpIsTransitive
    <2>7. QED
      BY <2>6
  <1>7. QED
    BY <1>5, <1>6

\* Putting a page at the root makes no cycle.
LEMMA CutKeepsAcyclic ==
    ASSUME NEW par \in ParentFunctions, AcyclicParents(par), NEW m \in Page
    PROVE  AcyclicParents([par EXCEPT ![m] = NoPage])
  <1> DEFINE new == [par EXCEPT ![m] = NoPage]
  <1>1. new \in ParentFunctions
    BY DEF ParentFunctions
  <1>2. ASSUME NEW x \in Page
        PROVE  Up(new, x) \subseteq Up(par, x)
    <2>1. Up(par, x) \in SUBSET Page /\ x \in Up(par, x)
      BY UpHasSelf DEF Up
    <2>2. ClosedUp(new, Up(par, x))
      BY <2>1, UpIsClosed DEF ClosedUp, ParentFunctions
    <2>3. QED
      BY <1>1, <2>1, <2>2, UpIsLeast
  <1>3. ASSUME NEW p \in Page, new[p] # NoPage
        PROVE  p \notin Up(new, new[p])
    <2>1. new[p] = par[p] /\ par[p] \in Page
      BY <1>3 DEF ParentFunctions
    <2>2. QED
      BY <1>2, <1>3, <2>1 DEF AcyclicParents
  <1>4. QED
    BY <1>3 DEF AcyclicParents
-----------------------------------------------------------------------------
(* The live pages under a page. *)

\* A live child of p, or of a page under p, is under p.
LEMMA LiveUnderIsClosed ==
    ASSUME NEW par \in ParentFunctions, NEW live \in SUBSET Page, NEW p \in Page
    PROVE  ClosedDown(par, live, p, LiveUnder(par, live, p))
  <1> SUFFICES ASSUME NEW c \in live, par[c] \in LiveUnder(par, live, p) \cup {p}
               PROVE  c \in LiveUnder(par, live, p)
    BY DEF ClosedDown
  <1>1. ASSUME NEW S \in SUBSET Page, ClosedDown(par, live, p, S)
        PROVE  c \in S
    <2>1. par[c] \in S \cup {p}
      BY <1>1 DEF LiveUnder
    <2>2. QED
      BY <1>1, <2>1 DEF ClosedDown
  <1>2. QED
    BY <1>1 DEF LiveUnder

\* A page under p is live, and its parent is p or under p.
LEMMA LiveUnderHasParent ==
    ASSUME NEW par \in ParentFunctions, NEW live \in SUBSET Page, NEW p \in Page,
           NEW d \in LiveUnder(par, live, p)
    PROVE  d \in live /\ par[d] \in LiveUnder(par, live, p) \cup {p}
  <1> DEFINE U == LiveUnder(par, live, p)
             S == {c \in live : par[c] \in U \cup {p}}
  <1>1. S \in SUBSET Page
    OBVIOUS
  <1>2. S \subseteq U
    BY LiveUnderIsClosed DEF ClosedDown
  <1>3. ClosedDown(par, live, p, S)
    BY <1>2 DEF ClosedDown
  <1>4. d \in S
    BY <1>1, <1>3 DEF LiveUnder
  <1>5. QED
    BY <1>4
=============================================================================
