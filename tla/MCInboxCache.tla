---------------------------- MODULE MCInboxCache ----------------------------
(* The cache of one tab (InboxCache, under its own names): one notification of the workspace, one *)
(* of the account and, in some runs, one that comes. And the page over it (InboxView), which      *)
(* takes any cache: three notifications, of today and earlier, one of the account, on a Thursday. *)
(* A behaviour is of the one or of the other.                                                     *)
EXTENDS InboxCache, InboxView

ChangedDays == <<9, 3, 1>>
ArchivedDays == <<2, 0, 4>>

CONSTANT Parts
VARIABLE which

Pair == {1, 2}
AllKinds == {"read", "unread", "archive", "unarchive", "read all"}
Elsewhere == {"archive", "unread", "read all", "create"}
ReadAlls == {"read all"}

InboxInit == which \in Parts /\ Init /\ ViewInit
InboxNext ==
  /\ which' = which
  /\ \/ which = "cache" /\ Next /\ UNCHANGED viewVars
     \/ which = "page" /\ ViewNext /\ UNCHANGED vars
InboxSpec == InboxInit /\ [][InboxNext]_<<which, vars, viewVars>>

\* The list says what its queries have, in groups in their order, and offers to try again what
\* failed; the highlight stays on its row or goes to a neighbour of the row it archives, and a row's
\* time says what its group does (pages/Inbox).
InboxKeepsPlace == []PageReads /\ KeepsPlace
=============================================================================
