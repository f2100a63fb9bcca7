----------------------------- MODULE Workspaces -----------------------------
(***************************************************************************)
(* Which workspace an address opens: the list of the user's workspaces and *)
(* the slugs asked for one by one (shared/workspaces), the layout that     *)
(* opens, renames or leaves an address (widgets/Layout/Layout.tsx), and    *)
(* "/" (app/WorkspaceEntry.tsx).  Requests read the server when they are   *)
(* sent or when they answer; a query is fetched anew whenever a component  *)
(* that uses it mounts.                                                    *)
(***************************************************************************)
EXTENDS Integers, Sequences

CONSTANTS Spaces,       \* the workspaces, in the list's order
          Personal,     \* the user's own
          Slugs, InitSlugs, InitMine,
          NoSpace,
          MaxTurns      \* bound on what others do to the workspaces, and on failures

VARIABLES
  slugOf, formerOf, mine, deleted,      \* the server's
  list,         \* the cached list: [slugs, deleted], or <<>>; slugs of the listed ones only
  listError, listCall,                  \* the request: what it read when it was sent
  resolved, resolveError, resolveCall,  \* per slug its workspace and its error; the request
  listIsNewer,  \* per slug: the list has been fetched since it was resolved
  at,           \* the address: [slug, rest], or <<>> for "/"
  lastId,       \* remembered between visits
  goneSince,    \* history, per slug: it named no workspace of the user since its answer was asked for
  turns

server == <<slugOf, formerOf, mine, deleted>>
queries == <<list, listError, listCall, resolved, resolveError, resolveCall, listIsNewer, goneSince>>
spaceVars == <<server, queries, at, lastId, turns>>

SpaceSet == {Spaces[i] : i \in DOMAIN Spaces}
Rests == {"inbox", "page"}

\* The routes below a workspace: its start page and anything unknown lead to its Inbox.
Routed(rest) == IF rest \in Rests THEN rest ELSE "inbox"
Address(slug, rest) == <<[slug |-> slug, rest |-> Routed(rest)]>>
Turn == turns < MaxTurns /\ turns' = turns + 1

\* What the server answers.
ListNow == [slugs |-> [w \in mine |-> slugOf[w]], deleted |-> deleted \cap mine]
Named(s) == {w \in mine : slugOf[w] = s \/ formerOf[s] = w}
ResolveNow(s) == IF Named(s) = {} THEN NoSpace ELSE CHOOSE w \in Named(s) : TRUE
AllGone == {s \in Slugs : Named(s) = {}}

ServerInit == slugOf = InitSlugs /\ formerOf = [s \in Slugs |-> NoSpace] /\ mine = InitMine /\ deleted = {}
WorkspacesQuery == list = <<>> /\ listError = FALSE /\ listCall = <<[read |-> ListNow, gone |-> AllGone]>>
ResolveSlugQuery ==
  /\ resolved = [s \in Slugs |-> NoSpace] /\ resolveError = [s \in Slugs |-> "none"] /\ resolveCall = <<>>
  /\ listIsNewer = [s \in Slugs |-> FALSE]
ReadLastWorkspaceId == lastId = NoSpace
SpaceInit ==
  /\ ServerInit /\ WorkspacesQuery /\ ResolveSlugQuery /\ ReadLastWorkspaceId
  /\ at = <<>> /\ goneSince = [s \in Slugs |-> TRUE] /\ turns = 0

-----------------------------------------------------------------------------
(* What a slug opens.                                                      *)

Listed(l) == IF l = <<>> THEN {} ELSE DOMAIN l[1].slugs
FromList(l, s) == {w \in Listed(l) : l[1].slugs[w] = s}
ById(l, s) == IF resolved[s] \in Listed(l) THEN {resolved[s]} ELSE {}
Opened(s) == IF FromList(list, s) # {} THEN FromList(list, s) ELSE ById(list, s)

StatusHasty(s) ==       \* mutant: a resolved one the list does not have yet is missing
  IF Opened(s) # {} THEN "found"
  ELSE IF resolved[s] # NoSpace THEN "missing"
  ELSE IF listError THEN "error"
  ELSE IF resolveError[s] # "none" THEN (IF resolveError[s] = "notFound" THEN "missing" ELSE "error")
  ELSE "pending"

Status(s) ==
  IF Opened(s) # {} THEN "found"
  ELSE IF resolved[s] # NoSpace /\ listIsNewer[s] THEN "missing"
  ELSE IF listError THEN "error"
  ELSE IF resolveError[s] # "none" THEN (IF resolveError[s] = "notFound" THEN "missing" ELSE "error")
  ELSE "pending"

\* The effect that leaves a missing workspace runs before another answer comes.
Leaves == at # <<>> /\ Status(at[1].slug) = "missing"

-----------------------------------------------------------------------------
(* The requests.                                                           *)

SendList == <<[read |-> ListNow, gone |-> AllGone]>>
SendResolve(s) == <<[slug |-> s, read |-> ResolveNow(s), gone |-> Named(s) = {}]>>

\* A query without data that is fetched, again too, is pending and has no error (external: the
\* query library's fetch); with data it keeps its error until an answer.
ListErrorIn(call) == listError /\ (list # <<>> \/ call = <<>>)
ResolveErrorIn(call) ==
  IF call = <<>> \/ resolved[call[1].slug] # NoSpace THEN resolveError
  ELSE [resolveError EXCEPT ![call[1].slug] = "none"]

\* A slug is asked for once the list is there and does not know it; an address left gives it up.
Asks(a, l) == a # <<>> /\ l # <<>> /\ FromList(l, a[1].slug) = {}
NextResolve(a, l) ==
  IF a = <<>> THEN <<>>
  ELSE IF Asks(a, l) /\ (at = <<>> \/ at[1].slug # a[1].slug \/ ~Asks(at, list)) THEN SendResolve(a[1].slug)
  ELSE IF resolveCall # <<>> /\ resolveCall[1].slug = a[1].slug THEN resolveCall
  ELSE <<>>

\* The list is behind a slug that was resolved: it is fetched again, whatever is in flight.
Behind(a, l) == a # <<>> /\ resolved[a[1].slug] # NoSpace /\ ById(l, a[1].slug) = {}

ListAnswers(read) ==
  /\ ~Leaves /\ listCall # <<>> /\ list' = <<read>> /\ listError' = FALSE
  /\ listIsNewer' = [s \in Slugs |-> TRUE]
  /\ resolveCall' = NextResolve(at, <<read>>)
  /\ resolveError' = ResolveErrorIn(resolveCall')
  /\ listCall' = IF Behind(at, <<read>>) /\ ~Behind(at, list) THEN SendList ELSE <<>>
  /\ UNCHANGED <<server, resolved, at, lastId, goneSince, turns>>

ListFails ==
  /\ Turn /\ listCall # <<>> /\ listCall' = <<>> /\ listError' = TRUE
  /\ UNCHANGED <<server, list, resolved, resolveError, resolveCall, listIsNewer, at, lastId, goneSince>>

ResolveAnswers(w) ==
  /\ ~Leaves /\ resolveCall # <<>>
  /\ LET s == resolveCall[1].slug
     IN  /\ resolveCall' = <<>>
         /\ goneSince' = [goneSince EXCEPT ![s] =
              resolveCall[1].gone \/ (listCall # <<>> /\ s \in listCall[1].gone)]
         /\ IF w = NoSpace
            THEN /\ resolveError' = [resolveError EXCEPT ![s] = "notFound"]
                 /\ UNCHANGED <<resolved, listIsNewer, listCall>>
            ELSE /\ resolved' = [resolved EXCEPT ![s] = w]
                 /\ resolveError' = [resolveError EXCEPT ![s] = "none"]
                 /\ listIsNewer' = [listIsNewer EXCEPT ![s] = FALSE]
                 /\ listCall' = IF w \notin Listed(list) /\ w # resolved[s] THEN SendList ELSE listCall
  /\ UNCHANGED <<server, list, listError, at, lastId, turns>>

ResolveFails ==
  /\ Turn /\ resolveCall # <<>> /\ resolveCall' = <<>>
  /\ resolveError' = [resolveError EXCEPT ![resolveCall[1].slug] = "failed"]
  /\ UNCHANGED <<server, list, listError, listCall, resolved, listIsNewer, at, lastId, goneSince>>

\* A signal about the workspaces: the list is fetched anew; its first fetch goes on as it is.
Invalidated ==
  /\ list # <<>> \/ listCall = <<>>
  /\ listCall' = SendList /\ listCall' # listCall
  /\ listError' = ListErrorIn(listCall')
  /\ UNCHANGED <<server, list, resolved, resolveError, resolveCall, listIsNewer, at, lastId, goneSince, turns>>

-----------------------------------------------------------------------------
(* The address.                                                            *)

\* Another component mounts for another kind of address, and refetches the list.
GoTo(a) ==
  /\ at' = a /\ resolveCall' = NextResolve(a, list)
  /\ listCall' = IF Behind(a, list) /\ a # at THEN SendList
                 ELSE IF (a = <<>>) # (at = <<>>) /\ listCall = <<>> THEN SendList ELSE listCall
  /\ resolveError' = ResolveErrorIn(resolveCall') /\ listError' = ListErrorIn(listCall')
  /\ UNCHANGED <<server, list, resolved, listIsNewer, goneSince>>

Visit(s, rest) ==
  /\ at # Address(s, rest) /\ GoTo(Address(s, rest))
  /\ UNCHANGED <<lastId, turns>>

\* The menu's choice among the listed ones that are not deleted.
OpenWorkspace(w) ==
  /\ at # <<>> /\ w \in Listed(list) /\ w \notin list[1].deleted
  /\ GoTo(Address(list[1].slugs[w], "inbox")) /\ at' # at
  /\ UNCHANGED <<lastId, turns>>

\* The layout's effects: the canonical slug, the last workspace, off from a missing one.
Canonical(s) == CHOOSE w \in Opened(s) : TRUE
ReplaceSlug ==
  /\ at # <<>> /\ Status(at[1].slug) = "found"
  /\ LET slug == list[1].slugs[Canonical(at[1].slug)]
     IN  slug # at[1].slug /\ GoTo(<<[at[1] EXCEPT !.slug = slug]>>)
  /\ UNCHANGED <<lastId, turns>>

Remember ==
  /\ at # <<>> /\ Status(at[1].slug) = "found" /\ lastId # Canonical(at[1].slug)
  /\ lastId' = Canonical(at[1].slug)
  /\ UNCHANGED <<server, queries, at, turns>>

LeaveMissing ==
  /\ Leaves /\ GoTo(<<>>)
  /\ UNCHANGED <<lastId, turns>>

\* "/": the last one, else the personal one, else the first; never a deleted one.
Pick(last) ==
  LET live == SelectSeq(Spaces, LAMBDA w : w \in Listed(list) /\ w \notin list[1].deleted)
      has(w) == \E i \in DOMAIN live : live[i] = w
  IN  IF has(last) THEN last ELSE IF has(Personal) THEN Personal
      ELSE IF live = <<>> THEN NoSpace ELSE live[1]

Enter ==
  /\ at = <<>> /\ ~listError /\ list # <<>> /\ Pick(lastId) # NoSpace
  /\ GoTo(Address(list[1].slugs[Pick(lastId)], "inbox"))
  /\ UNCHANGED <<lastId, turns>>

\* What stands in the page's place, in the layout or on "/".
Shown ==
  IF at = <<>> THEN (IF listError THEN "error" ELSE IF list = <<>> THEN "nothing"
                     ELSE IF Pick(lastId) = NoSpace THEN "no workspace" ELSE "off to one")
  ELSE IF Status(at[1].slug) = "found" THEN "the page"
  ELSE IF Status(at[1].slug) = "error" THEN "error" ELSE "nothing"

Retry ==
  /\ Shown = "error"
  /\ IF listError THEN listCall' = SendList /\ UNCHANGED resolveCall
     ELSE resolveCall' = SendResolve(at[1].slug) /\ UNCHANGED listCall
  /\ resolveError' = ResolveErrorIn(resolveCall') /\ listError' = ListErrorIn(listCall')
  /\ UNCHANGED <<server, list, resolved, listIsNewer, goneSince, at, lastId, turns>>

-----------------------------------------------------------------------------
(* Others, on the server: renames, members, deletes (external).            *)

GoneAfter(slugs, former, members) ==
  {s \in Slugs : {w \in members : slugs[w] = s \/ former[s] = w} = {}}

ServerBecomes(slugs, former, members, dead) ==
  /\ Turn /\ slugOf' = slugs /\ formerOf' = former /\ mine' = members /\ deleted' = dead
  /\ LET gone == GoneAfter(slugs, former, members)
     IN  /\ goneSince' = [s \in Slugs |-> goneSince[s] \/ s \in gone]
         /\ resolveCall' = IF resolveCall = <<>> THEN <<>>
              ELSE <<[resolveCall[1] EXCEPT !.gone = @ \/ resolveCall[1].slug \in gone]>>
         /\ listCall' = IF listCall = <<>> THEN <<>> ELSE <<[listCall[1] EXCEPT !.gone = @ \cup gone]>>
  /\ UNCHANGED <<list, listError, resolved, resolveError, listIsNewer, at, lastId>>

Rename(w, s) ==
  /\ \A v \in SpaceSet : slugOf[v] # s /\ formerOf[s] = NoSpace
  /\ ServerBecomes([slugOf EXCEPT ![w] = s], [formerOf EXCEPT ![slugOf[w]] = w], mine, deleted)
Membership(w) ==
  ServerBecomes(slugOf, formerOf, IF w \in mine THEN mine \ {w} ELSE mine \cup {w}, deleted)
Delete(w) == w \notin deleted /\ ServerBecomes(slugOf, formerOf, mine, deleted \cup {w})

SpaceNext ==
  \/ listCall # <<>> /\ \E read \in {listCall[1].read, ListNow} : ListAnswers(read)
  \/ resolveCall # <<>> /\ \E w \in {resolveCall[1].read, ResolveNow(resolveCall[1].slug)} : ResolveAnswers(w)
  \/ ListFails \/ ResolveFails \/ Invalidated \/ ReplaceSlug \/ Remember \/ LeaveMissing \/ Enter \/ Retry
  \/ \E s \in Slugs, rest \in Rests \cup {"unknown"} : Visit(s, rest)
  \/ \E w \in SpaceSet : OpenWorkspace(w) \/ Membership(w) \/ Delete(w) \/ \E s \in Slugs : Rename(w, s)

-----------------------------------------------------------------------------
(* What an address keeps.                                                  *)

\* A workspace is said to be missing only if its slug really named none of the user's at some time
\* since the answers it is said from were asked for.
MissingIsTrue == at # <<>> /\ Status(at[1].slug) = "missing" => goneSince[at[1].slug]

\* Whatever waits, waits for a request in flight, and the layout shows nothing only then or on its
\* way to another address; an address is always one of the routes.
NeverStuck ==
  /\ Shown = "nothing" => listCall # <<>> \/ resolveCall # <<>> \/ Leaves
  /\ at # <<>> => at[1].rest \in Rests
  /\ at # <<>> /\ Status(at[1].slug) = "pending" => listCall # <<>> \/ resolveCall # <<>>
  /\ at = <<>> /\ list = <<>> /\ ~listError => listCall # <<>>
  /\ resolveCall # <<>> => at # <<>> /\ resolveCall[1].slug = at[1].slug

\* An old slug gives way to the workspace's own once, and the same workspace stays open.
CanonicalAtOnce ==
  at # <<>> /\ at' # <<>> /\ Status(at[1].slug) = "found" /\ list' = list
    /\ at'[1].slug = list[1].slugs[Canonical(at[1].slug)]
    => FromList(list, at'[1].slug) = {Canonical(at[1].slug)}
=============================================================================
