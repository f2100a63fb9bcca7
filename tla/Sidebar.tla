------------------------------ MODULE Sidebar ------------------------------
(***************************************************************************)
(* What the sidebar shows of the user's workspaces and their unread: the   *)
(* workspace menu (widgets/Layout/Sidebar/WorkspaceSwitcher.tsx) and the   *)
(* Inbox row in its two views (shared/ui/NavItem), from what the layout    *)
(* hands them (widgets/Layout/Layout.tsx).  Pure: no state of its own.     *)
(***************************************************************************)
EXTENDS Integers, Sequences
LOCAL INSTANCE SequencesExt

CONSTANTS Spaces,     \* the user's workspaces
          Roles,
          MaxCount    \* the largest number that is written out

-----------------------------------------------------------------------------
(* The menu.                                                               *)

\* me: the user in the open workspace, <<>> until it is known.
Mes == {<<>>} \cup {<<[isOwner |-> o, roles |-> r, invite |-> i]>> : o \in BOOLEAN, r \in SUBSET Roles, i \in BOOLEAN}
CanSettings(me) == me # <<>> /\ (me[1].isOwner \/ me[1].roles # {})
CanInvite(me) == me # <<>> /\ me[1].invite

If(condition, items) == IF condition THEN items ELSE <<>>

\* Groups with a separator between them; an empty one leaves none behind.
JoinGroups(groups) ==
  FoldLeft(LAMBDA items, g : items \o If(items # <<>>, <<"separator">>) \o g, <<>>,
           SelectSeq(groups, LAMBDA g : g # <<>>))

\* has: which of the items' screens the app has.
OwnItems(me, has) == If(CanSettings(me) /\ "new" \in has, <<"New workspace">>)
WorkspaceItems(me, has) ==
  If(CanSettings(me) /\ "settings" \in has, <<"Workspace settings">>)
    \o If(CanInvite(me) /\ "invite" \in has, <<"Invite members">>)
AccountItems(has) ==
  <<"the user">> \o If("settings" \in has, <<"Profile", "Preferences">>) \o <<"Sign out">>
Groups(me, has) ==
  << <<"the workspaces">> \o OwnItems(me, has), WorkspaceItems(me, has), AccountItems(has) >>
Items(me, has) == JoinGroups(Groups(me, has))

-----------------------------------------------------------------------------
(* The unread.                                                             *)

CountText(n) == IF n > MaxCount THEN <<MaxCount, "+">> ELSE <<n>>

\* The workspaces to switch to: not the deleted ones; a dot at the others' unread.
Offered(deleted) == Spaces \ deleted
Dot(current, unread, w) == w # current /\ unread[w] > 0
SwitchTo(current, deleted, unread) ==
  [value |-> current, options |-> [w \in Offered(deleted) |-> Dot(current, unread, w)]]

\* The Inbox row's number: the open workspace's and the account's own.
InboxUnread(current, unread, account) == unread[current] + account

Name(count, dot) == IF count > 0 THEN <<count, "unread">> ELSE IF dot THEN <<"updated">> ELSE <<>>
RailItem(count, dot) ==
  [name |-> Name(count, dot), marked |-> count > 0 \/ dot, number |-> <<>>,
   tooltip |-> IF count > 0 THEN CountText(count) ELSE <<>>]
RowItem(count, dot) ==
  [name |-> Name(count, dot), marked |-> count = 0 /\ dot,
   number |-> IF count > 0 THEN CountText(count) ELSE <<>>, tooltip |-> <<>>]

-----------------------------------------------------------------------------
(* What is checked, for every input.                                       *)

Screens == {"new", "settings", "invite"}

\* Whatever the user may do and the app has, no separator of the menu stands at an end or next to
\* another, every item of the groups is there in order, and no item that needs a right is there
\* before the rights are known.
MenuReads ==
  \A me \in Mes, has \in SUBSET Screens :
    LET items == Items(me, has)
        groups == Groups(me, has)
        separators == {i \in DOMAIN items : items[i] = "separator"}
    IN  /\ separators \cap {1, Len(items)} = {} /\ \A i \in separators : i + 1 \notin separators
        /\ SelectSeq(items, LAMBDA i : i # "separator") = groups[1] \o groups[2] \o groups[3]
        /\ me = <<>> => WorkspaceItems(me, has) = <<>> /\ OwnItems(me, has) = <<>>

\* Each live workspace's unread is said in exactly one place, the open one's in the Inbox row and
\* another's by its dot; the rail and the full view give the same news, the number too, and a
\* reader hears the number that is drawn, or the one it stands for.
UnreadIsSaidOnce ==
  \A current \in Spaces, deleted \in SUBSET Spaces, account \in 0 .. 1, dot \in BOOLEAN,
     unread \in [Spaces -> 0 .. MaxCount + 1] :
    LET count == InboxUnread(current, unread, account)
        rail == RailItem(count, dot)
        row == RowItem(count, dot)
        dots == SwitchTo(current, deleted, unread).options
    IN  /\ \A w \in Offered(deleted) :
             unread[w] > 0 => (dots[w] # (w = current /\ (rail.number # <<>> \/ rail.marked)))
        /\ (row.number # <<>> \/ row.marked) = rail.marked
        /\ rail.name = row.name /\ rail.tooltip = row.number
        /\ row.number # <<>> => row.name[1] = row.number[1] \/ (row.name[1] > MaxCount /\ row.number[1] = MaxCount)
=============================================================================
