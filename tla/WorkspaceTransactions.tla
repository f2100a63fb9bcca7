------------------------ MODULE WorkspaceTransactions ------------------------
(***************************************************************************)
(* The handlers of apps/main_service/src/workspaces that write: create,    *)
(* the personal workspace, patch, delete and restore, statement by         *)
(* statement.  A patch, a delete and a restore are READ COMMITTED          *)
(* transactions after a layer that looked at the workspace without a lock; *)
(* a create is single statements on the pool.                              *)
(*                                                                         *)
(* A row that another transaction has locked is waited for, and so is a    *)
(* slug one has written, or written over, and not committed: the unique    *)
(* index decides when it ends.  Any request may end at any step.           *)
(*                                                                         *)
(* The slugs are the numbered ones of one name (base, base-2, base-3 ...), *)
(* which is where they meet.  Whoever sends a request has the right to it; *)
(* icons are fields like the name; the 30 days of a restore do not pass.   *)
(***************************************************************************)
EXTENDS Naturals, FiniteSets

CONSTANTS
    Tx,             \* requests that can run at once
    Workspace, User, Name, Prefix,
    Slug,           \* the slugs of one name, as their numbers
    InitialRows,    \* what a run starts from
    Bodies,         \* what patches send
    Attempts,       \* PERSONAL_ATTEMPTS, 3 in the code
    MaxRequests,    \* bound: requests of a run
    NoRow, Nobody, Unset    \* no row; no user or workspace; a field that is not sent

Ops == {"create", "personal", "patch", "delete", "restore"}
Fields == {"name", "slug", "taskPrefix", "deletedAt"}
Row == [name : Name, slug : Slug, prefix : Prefix, deleted : BOOLEAN, version : Nat \ {0},
        personal : User \cup {Nobody}]
Rows == [Workspace -> Row \cup {NoRow}]
Change == [workspace : Workspace, version : Nat, fields : SUBSET Fields]
Request == [op : Ops, workspace : Workspace, user : User, base : Nat, name : Name \cup {Unset},
            slug : Slug \cup {Unset}, prefix : Prefix \cup {Unset}]
Body == [name : Name \cup {Unset}, slug : Slug \cup {Unset}, prefix : Prefix \cup {Unset}]
Steps == {"idle", "load", "lock", "conflicts", "taken", "own", "write", "commit",
          "validate", "personal", "similar", "insert"}

Existing(v) == {w \in Workspace : v[w] # NoRow}

ASSUME NullAssumption ==
    /\ NoRow \notin Row /\ NoRow \notin Request
    /\ Nobody \notin User \cup Workspace
    /\ Unset \notin Name \cup Slug \cup Prefix
ASSUME SlugAssumption == Slug \subseteq Nat
ASSUME BoundAssumption == MaxRequests \in Nat /\ Attempts \in Nat
ASSUME InitialAssumption ==
    \A v \in InitialRows :
        /\ v \in Rows
        /\ \A w \in Existing(v) : v[w].personal = Nobody
        /\ \A w, x \in Existing(v) : v[w].slug = v[x].slug => w = x

VARIABLES
    rows,       \* workspaces, as committed
    aliasOf,    \* workspace_slug_aliases: whose old slug it is
    expired,    \* the aliases past their 90 days
    prefixes,   \* workspace_prefixes: never had, the current one, a former one
    history,    \* field_changes of workspaces: one record a version
    req, pc,    \* each handler's request and the statement it is at
    cur,        \* the row lock_workspace returned (`current`); it is locked from then on
    wrote,      \* the row a transaction has written and not committed
    tries,      \* which try of a personal workspace it is
    started     \* how many requests have come

workspacesVars == <<rows, aliasOf, expired, prefixes, history, req, pc, cur, wrote, tries, started>>
tables == <<rows, aliasOf, expired, prefixes, history>>
-----------------------------------------------------------------------------
(* Slugs. *)

At(t, step) == pc[t] = step
Goto(t, step) == pc' = [pc EXCEPT ![t] = step]
Others(t) == Tx \ {t}

HasSlug(s) == {w \in Existing(rows) : rows[w].slug = s}
LiveAlias(s) == aliasOf[s] # Nobody /\ s \notin expired
is_slug_taken(s) == HasSlug(s) # {} \/ LiveAlias(s)
is_own_slug(w, s) == rows[w].slug = s \/ (LiveAlias(s) /\ aliasOf[s] = w)
similar_slugs == {s \in Slug : HasSlug(s) # {} \/ aliasOf[s] # Nobody}

\* find_available_slug: the first one nobody has or had.
IsAvailable(s) == s \in Slug \ similar_slugs /\ \A x \in Slug \ similar_slugs : s <= x

\* The unique index does not wait for anyone about s: nobody has written it, or over it.
Settled(t, s) ==
    \A u \in Others(t) : wrote[u] # NoRow => s \notin {wrote[u].slug, rows[req[u].workspace].slug}
-----------------------------------------------------------------------------
(* Requests. *)

PrefixesOf(row) == [p \in Prefix |-> IF row # NoRow /\ row.prefix = p THEN "open" ELSE "none"]

WorkspacesInit ==
    /\ rows \in InitialRows
    /\ aliasOf = [s \in Slug |-> Nobody]
    /\ expired = {}
    /\ prefixes = [w \in Workspace |-> PrefixesOf(rows[w])]
    /\ history = {}
    /\ req = [t \in Tx |-> NoRow]
    /\ pc = [t \in Tx |-> "idle"]
    /\ cur = [t \in Tx |-> NoRow]
    /\ wrote = [t \in Tx |-> NoRow]
    /\ tries = [t \in Tx |-> 0]
    /\ started = 0

End(t) ==
    /\ Goto(t, "idle")
    /\ req' = [req EXCEPT ![t] = NoRow]
    /\ cur' = [cur EXCEPT ![t] = NoRow]
    /\ wrote' = [wrote EXCEPT ![t] = NoRow]
    /\ tries' = [tries EXCEPT ![t] = 0]

\* An early return or an error drops the transaction, which rolls it back.
Return(t) == End(t) /\ UNCHANGED <<tables, started>>
Rollback(t) == pc[t] # "idle" /\ Return(t)

FirstStep == [create |-> "validate", personal |-> "personal", patch |-> "load",
              delete |-> "load", restore |-> "load"]

\* A request comes.  The id of a create is new, or that of a request sent before; a personal
\* workspace gets a new one; a version was seen, or is one from the future.
Begin(t) ==
    /\ At(t, "idle")
    /\ started < MaxRequests
    /\ started' = started + 1
    /\ \E r \in [op : Ops, workspace : Workspace, user : User, base : 0 .. MaxRequests + 1,
                 name : Name \cup {Unset}, slug : Slug \cup {Unset}, prefix : Prefix \cup {Unset}] :
        /\ r.op = "patch" =>
              [name |-> r.name, slug |-> r.slug, prefix |-> r.prefix] \in Bodies /\ r.base > 0
        /\ r.op = "delete" <=> r.name # Unset /\ r.op # "patch"
        /\ r.op \notin {"create", "patch"} => r.slug = Unset
        /\ r.op # "patch" => r.prefix = Unset /\ r.base = 0
        /\ r.op \in {"patch", "delete", "restore"} =>
              rows[r.workspace] # NoRow /\ r.base <= rows[r.workspace].version + 1
        /\ r.op = "personal" => /\ rows[r.workspace] = NoRow
                                /\ \A u \in Tx : req[u] # NoRow => req[u].workspace # r.workspace
        /\ r.op = "create" => \A u \in Tx : req[u] # NoRow /\ req[u].op = "personal"
                                              => req[u].workspace # r.workspace
        /\ req' = [req EXCEPT ![t] = r]
        /\ Goto(t, FirstStep[r.op])
    /\ UNCHANGED <<tables, cur, wrote, tries>>

\* An alias is 90 days old.  CURRENT_TIMESTAMP is the start of a transaction: to one that runs
\* it is not yet.
Expire(s) ==
    /\ LiveAlias(s)
    /\ \A t \in Tx : cur[t] = NoRow
    /\ expired' = expired \cup {s}
    /\ UNCHANGED <<rows, aliasOf, prefixes, history, req, pc, cur, wrote, tries, started>>
-----------------------------------------------------------------------------
(* Creating. *)

\* validate_create_workspace_fields: a slug that is sent is looked up
Validate(t) ==
    /\ At(t, "validate")
    /\ IF req[t].slug # Unset /\ is_slug_taken(req[t].slug)
       THEN Return(t)
       ELSE /\ Goto(t, IF req[t].slug = Unset THEN "similar" ELSE "insert")
            /\ UNCHANGED <<tables, req, cur, wrote, tries, started>>

\* ensure_personal_workspace: the one there is
FindPersonal(t) ==
    /\ At(t, "personal")
    /\ IF \E w \in Existing(rows) : rows[w].personal = req[t].user
       THEN Return(t)
       ELSE /\ Goto(t, "similar")
            /\ UNCHANGED <<tables, req, cur, wrote, tries, started>>

\* find_similar_slugs and find_available_slug
ChooseSlug(t) ==
    /\ At(t, "similar")
    /\ \E s \in Slug : IsAvailable(s) /\ req' = [req EXCEPT ![t].slug = s]
    /\ Goto(t, "insert")
    /\ UNCHANGED <<tables, cur, wrote, tries, started>>

OwnerOf(r) == IF r.op = "personal" THEN r.user ELSE Nobody
HasPersonal(r) == r.op = "personal" /\ \E w \in Existing(rows) : rows[w].personal = r.user

\* The row of init_workspace, with its prefix.
NewRows(r) == [name : Name, slug : {r.slug}, prefix : Prefix, deleted : {FALSE},
               version : {1}, personal : {OwnerOf(r)}]

\* init_workspace's INSERT goes in.
Inserted(t) ==
    LET w == req[t].workspace
    IN  /\ \E row \in NewRows(req[t]) :
              /\ rows' = [rows EXCEPT ![w] = row]
              /\ prefixes' = [prefixes EXCEPT ![w] = PrefixesOf(row)]
        /\ End(t)
        /\ UNCHANGED <<aliasOf, expired, history, started>>

\* A taken slug: 409, or another try for the personal workspace.
SlugWasTaken(t) ==
    IF req[t].op = "create" \/ tries[t] + 1 = Attempts
    THEN Return(t)
    ELSE /\ tries' = [tries EXCEPT ![t] = @ + 1]
         /\ Goto(t, "similar")
         /\ UNCHANGED <<tables, req, cur, wrote, started>>

\* the personal workspace without its unique index
InsertTwice(t) ==
    /\ At(t, "insert")
    /\ Settled(t, req[t].slug)
    /\ IF rows[req[t].workspace] # NoRow THEN Return(t)
       ELSE IF HasSlug(req[t].slug) # {} THEN SlugWasTaken(t)
       ELSE Inserted(t)

\* init_workspace: the id exists already (ON CONFLICT DO NOTHING), the slug is taken, the user has
\* a personal workspace by now (get_personal_workspace finds it), or it goes in.
Insert(t) ==
    /\ At(t, "insert")
    /\ rows[req[t].workspace] = NoRow => Settled(t, req[t].slug)
    /\ IF rows[req[t].workspace] # NoRow THEN Return(t)
       ELSE IF HasSlug(req[t].slug) # {} THEN SlugWasTaken(t)
       ELSE IF HasPersonal(req[t]) THEN Return(t)
       ELSE Inserted(t)
-----------------------------------------------------------------------------
(* Changing. *)

\* load_context, before the transaction: a deleted workspace is 404 to a patch; a personal one is
\* not deleted nor restored.
Load(t) ==
    LET row == rows[req[t].workspace]
    IN  /\ At(t, "load")
        /\ IF \/ req[t].op = "patch" /\ row.deleted
              \/ req[t].op # "patch" /\ row.personal # Nobody
           THEN Return(t)
           ELSE /\ Goto(t, "lock")
                /\ UNCHANGED <<tables, req, cur, wrote, tries, started>>

Locked(w) == {t \in Tx : cur[t] # NoRow /\ req[t].workspace = w}

\* the early returns on `current`: a version from the future; another name than the one confirmed,
\* or deleted already; restored already
Refused(r, row) ==
    \/ r.op = "patch" /\ r.base > row.version
    \/ r.op = "delete" /\ (r.name # row.name \/ row.deleted)
    \/ r.op = "restore" /\ ~row.deleted

LockWhen(t, free) ==
    LET row == rows[req[t].workspace]
    IN  /\ At(t, "lock")
        /\ free
        /\ IF Refused(req[t], row)
           THEN Return(t)
           ELSE /\ cur' = [cur EXCEPT ![t] = row]
                /\ Goto(t, IF req[t].op = "patch" THEN "conflicts" ELSE "write")
                /\ UNCHANGED <<tables, req, wrote, tries, started>>

\* lock_workspace without FOR UPDATE
LockNothing(t) == LockWhen(t, TRUE)

Lock(t) == LockWhen(t, Locked(req[t].workspace) = {})

Sent(r) == {f \in Fields : \/ f = "name" /\ r.name # Unset
                           \/ f = "slug" /\ r.slug # Unset
                           \/ f = "taskPrefix" /\ r.prefix # Unset}

SetOr(value, now) == IF value = Unset THEN now ELSE value

\* The WorkspaceState a request makes of `current`.
Applied(r, row) ==
    CASE r.op = "patch" -> [row EXCEPT !.name = SetOr(r.name, @), !.slug = SetOr(r.slug, @),
                                       !.prefix = SetOr(r.prefix, @)]
      [] r.op = "delete" -> [row EXCEPT !.deleted = TRUE]
      [] OTHER -> [row EXCEPT !.deleted = FALSE]

\* The changes `conflicts` finds: of a field sent, after the version the edit was made on.
Unseen(r) == {h \in history : /\ h.workspace = r.workspace /\ h.version > r.base
                              /\ h.fields \cap Sent(r) # {}}

CheckConflictsWhen(t, found) ==
    /\ At(t, "conflicts")
    /\ IF found \/ Applied(req[t], cur[t]) = cur[t]
       THEN Return(t)
       ELSE /\ Goto(t, IF SetOr(req[t].slug, cur[t].slug) # cur[t].slug THEN "taken" ELSE "write")
            /\ UNCHANGED <<tables, req, cur, wrote, tries, started>>

\* conflicts not looked up
IgnoreConflicts(t) == CheckConflictsWhen(t, FALSE)

\* A field sent was changed since (409), or everything sent is as it is.
CheckConflicts(t) == CheckConflictsWhen(t, Unseen(req[t]) # {})

\* update_workspace: is_slug_taken, then is_own_slug
CheckTaken(t) ==
    /\ At(t, "taken")
    /\ Goto(t, IF is_slug_taken(req[t].slug) THEN "own" ELSE "write")
    /\ UNCHANGED <<tables, req, cur, wrote, tries, started>>

CheckOwn(t) ==
    /\ At(t, "own")
    /\ IF is_own_slug(req[t].workspace, req[t].slug)
       THEN /\ Goto(t, "write")
            /\ UNCHANGED <<tables, req, cur, wrote, tries, started>>
       ELSE Return(t)

\* repo::update_workspace and what goes with it; 409 when the slug is someone's by now.
Write(t) ==
    LET new == [Applied(req[t], cur[t]) EXCEPT !.version = @ + 1]
        renamed == new.slug # cur[t].slug
    IN  /\ At(t, "write")
        /\ renamed => Settled(t, new.slug)
        /\ IF renamed /\ HasSlug(new.slug) # {}
           THEN Return(t)
           ELSE /\ wrote' = [wrote EXCEPT ![t] = new]
                /\ Goto(t, "commit")
                /\ UNCHANGED <<tables, req, cur, tries, started>>

\* move_slug that keeps the alias of the slug taken back
KeepAlias(w, old, new) ==
    /\ aliasOf' = IF old = new THEN aliasOf ELSE [aliasOf EXCEPT ![old] = w]
    /\ expired' = IF old = new THEN expired ELSE expired \ {old}

\* The old slug redirects to w, and no alias of the new one stays.
move_slug(w, old, new) ==
    /\ aliasOf' = IF old = new THEN aliasOf ELSE [aliasOf EXCEPT ![new] = Nobody, ![old] = w]
    /\ expired' = IF old = new THEN expired ELSE expired \ {old, new}

\* The current prefix is closed and the new one opened, or opened again.
switch_task_prefix(w, old, new) ==
    prefixes' = IF old = new THEN prefixes
                ELSE [prefixes EXCEPT ![w] =
                        [p \in Prefix |-> IF p = new THEN "open"
                                          ELSE IF @[p] = "open" THEN "closed" ELSE @[p]]]

\* WorkspaceState::diff
Diff(old, new) == {f \in Fields : \/ f = "name" /\ old.name # new.name
                                  \/ f = "slug" /\ old.slug # new.slug
                                  \/ f = "taskPrefix" /\ old.prefix # new.prefix
                                  \/ f = "deletedAt" /\ old.deleted # new.deleted}

Commit(t) ==
    LET w == req[t].workspace
        new == wrote[t]
    IN  /\ At(t, "commit")
        /\ rows' = [rows EXCEPT ![w] = new]
        /\ move_slug(w, cur[t].slug, new.slug)
        /\ switch_task_prefix(w, cur[t].prefix, new.prefix)
        /\ history' = history \cup {[workspace |-> w, version |-> new.version,
                                     fields |-> Diff(cur[t], new)]}
        /\ End(t)
        /\ UNCHANGED started
-----------------------------------------------------------------------------
Step(t) ==
    \/ Validate(t) \/ FindPersonal(t) \/ ChooseSlug(t) \/ Insert(t)
    \/ Load(t) \/ Lock(t) \/ CheckConflicts(t) \/ CheckTaken(t) \/ CheckOwn(t)
    \/ Write(t) \/ Commit(t)

WorkspacesNext ==
    \/ \E t \in Tx : Begin(t) \/ Step(t) \/ Rollback(t)
    \/ \E s \in Slug : Expire(s)

WorkspacesSpec == WorkspacesInit /\ [][WorkspacesNext]_workspacesVars
-----------------------------------------------------------------------------
(* What holds however requests interleave. *)

WorkspacesTyped ==
    /\ rows \in Rows
    /\ aliasOf \in [Slug -> Workspace \cup {Nobody}]
    /\ expired \in SUBSET Slug
    /\ prefixes \in [Workspace -> [Prefix -> {"none", "open", "closed"}]]
    /\ history \in SUBSET Change
    /\ req \in [Tx -> Request \cup {NoRow}]
    /\ pc \in [Tx -> Steps]
    /\ cur \in [Tx -> Row \cup {NoRow}]
    /\ wrote \in [Tx -> Row \cup {NoRow}]
    /\ tries \in [Tx -> Nat]
    /\ started \in Nat

\* Two workspaces never have one slug, and a user has one personal workspace, which stays live
\* ("so there is always a workspace to open").
OneEach ==
    \A v, w \in Existing(rows) :
        /\ rows[v].slug = rows[w].slug => v = w
        /\ rows[v].personal # Nobody => ~rows[v].deleted
        /\ rows[v].personal # Nobody /\ rows[v].personal = rows[w].personal => v = w

Renamed(w) == \E h \in history : h.workspace = w /\ "slug" \in h.fields

\* An address opens one workspace: the slug a workspace was renamed to is nobody's redirect, and
\* a workspace's own slug is not its redirect, whatever slugs were given up and taken back.
OneWayIn ==
    \A w \in Existing(rows) :
        /\ Renamed(w) => aliasOf[rows[w].slug] = Nobody
        /\ aliasOf[rows[w].slug] # w

\* One prefix is open, the workspace's.
OnePrefix == \A w \in Existing(rows) : \A p \in Prefix : prefixes[w][p] = "open" <=> rows[w].prefix = p

\* From lock_workspace to the end of its transaction the row a handler works from is the row in
\* the table: update_workspace writes every field from it.
LockedIsCurrent == \A t \in Tx : cur[t] # NoRow => rows[req[t].workspace] = cur[t]

\* The addresses, prefixes and rows of workspaces agree.
AddressesAgree == WorkspacesTyped /\ OneEach /\ OneWayIn /\ OnePrefix /\ LockedIsCurrent

\* A change of a workspace was asked for and seen: a patch overwrites no field its author had not
\* seen and writes what it sent alone, a delete was confirmed with the name the workspace has as
\* it goes, and each version is new.
SettingsAreSeen ==
    [][\A w \in Existing(rows) : rows'[w] # rows[w] =>
         \E t \in Tx :
            LET r == req[t] IN
            /\ At(t, "commit") /\ r.workspace = w
            /\ rows'[w].version = rows[w].version + 1
            /\ r.op = "patch" => /\ Unseen(r) = {}
                                 /\ Diff(rows[w], rows'[w]) \subseteq Sent(r)
            /\ r.op = "delete" => rows[w].name = r.name /\ ~rows[w].deleted
            /\ r.op # "patch" => Diff(rows[w], rows'[w]) = {"deletedAt"}]_workspacesVars
=============================================================================
