------------------------------ MODULE Channels ------------------------------
(***************************************************************************)
(* The socket of a tab (app/socket/socket.ts): who wants each channel,     *)
(* which outlives the socket; the live channels, which die with it; the    *)
(* session that starts and ends it.  The server's side and the Phoenix     *)
(* client are what they do for it: a channel joins again after a dropped   *)
(* connection, what is sent meanwhile is lost, and the answer to the join  *)
(* of a channel that was left may still arrive.                            *)
(***************************************************************************)
EXTENDS Integers, FiniteSets

CONSTANTS Subscribers, ChannelIds,
          ChannelOf,       \* [Subscribers -> ChannelIds]
          Users, NoUser,
          MaxEvents        \* bound on sessions, drops, mounts and published events

ChannelsAssumption ==
  /\ ChannelOf \in [Subscribers -> ChannelIds]
  /\ NoUser \notin Users

VARIABLES
  session,         \* the stored user, or NoUser: an expired one counts as none
  heard,           \* this tab has synced with what is stored
  socket,          \* "none", "connecting" or "connected"
  status,          \* useSocketStore
  accessToken,     \* whose token the next (re)connect sends
  signedAs,        \* whose token the socket was last connected with
  switched,        \* history: the stored user changed under a socket within one read
  subscriptions,   \* who wants its channel
  channels,        \* per id: "none", "closed", "joining", "accepted" by the server, or "joined"
  bound,           \* per subscriber: its bindings on the live channel
  late,            \* channels left before the answer to their join
  joinedBefore,    \* per subscriber, its own flag
  behind,          \* history: something published since its first join never reached it
  events

sessionVars == <<session, heard, socket, status, accessToken, signedAs, switched>>
channelVars == <<sessionVars, subscriptions, channels, bound, late, joinedBefore, behind, events>>

Bound == events < MaxEvents /\ events' = events + 1

SocketInit == socket = "none" /\ accessToken = NoUser /\ signedAs = NoUser
StatusInit == status = "disconnected"
SessionInit == session = NoUser /\ heard = TRUE /\ switched = FALSE
Registry == subscriptions = {} /\ channels = [id \in ChannelIds |-> "none"] /\ late = {}
Unbound == [s \in Subscribers |-> 0]
RealtimeInit ==
  joinedBefore = [s \in Subscribers |-> FALSE] /\ behind = [s \in Subscribers |-> FALSE]

ChannelsInit ==
  /\ SessionInit /\ SocketInit /\ StatusInit /\ Registry /\ RealtimeInit
  /\ bound = Unbound /\ events = 0

Wanted(id) == {s \in subscriptions : ChannelOf[s] = id}

\* A listener is added to the live channel at each call.
Bind(s) == bound[s] + 1

\* What a channel nobody had is once it opens: its join is sent, at the latest on connecting.
OpenOn(at) == IF at = "connected" THEN "joining" ELSE "closed"

-----------------------------------------------------------------------------
(* The session: init and disconnect.                                       *)

\* A new socket opens every wanted channel, with its subscribers bound.
Init ==
  IF socket # "none" THEN UNCHANGED <<socket, status, channels, bound>>
  ELSE /\ socket' = "connecting" /\ status' = "connecting"
       /\ channels' = [id \in ChannelIds |->
                         IF Wanted(id) # {} /\ channels[id] = "none" THEN OpenOn("connecting") ELSE channels[id]]
       /\ bound' = [s \in Subscribers |->
                      IF s \in subscriptions /\ channels[ChannelOf[s]] = "none" THEN Bind(s) ELSE bound[s]]

DisconnectedKeepsChannels ==   \* mutant: the registry survives the socket
  /\ socket' = "none" /\ status' = "disconnected" /\ UNCHANGED <<channels, bound>>

Disconnected ==
  /\ socket' = "none" /\ status' = "disconnected"
  /\ channels' = [id \in ChannelIds |-> "none"] /\ bound' = Unbound

Disconnect == IF socket = "none" THEN UNCHANGED <<socket, status, channels, bound>> ELSE Disconnected

Sync(user) ==
  /\ IF user # NoUser THEN Init ELSE Disconnect
  /\ accessToken' = user
  /\ switched' = (socket' # "none" /\ (switched \/ (accessToken \notin {NoUser, user} /\ user # NoUser)))
  /\ late' = IF socket' = "none" THEN {} ELSE late
  /\ UNCHANGED <<subscriptions, signedAs, joinedBefore, behind>>

\* Signed in, renewed, expired or signed out in this tab: the user manager tells at once.
SessionHere(user) ==
  /\ Bound /\ (heard /\ session # NoUser => user \in {session, NoUser})
  /\ session' = user /\ heard' = TRUE
  /\ Sync(user)

\* In another tab: this one reads the store when its storage event comes.
SessionElsewhere(user) ==
  /\ Bound /\ session' = user /\ heard' = FALSE
  /\ UNCHANGED <<socket, status, accessToken, signedAs, switched, subscriptions, channels, bound, late,
                 joinedBefore, behind>>

SyncFromStore ==
  /\ ~heard /\ heard' = TRUE
  /\ Sync(session)
  /\ UNCHANGED <<session, events>>

-----------------------------------------------------------------------------
(* The connection.                                                         *)

\* The join of every channel is sent again.
Connect ==
  /\ socket = "connecting" /\ socket' = "connected" /\ status' = "connected"
  /\ signedAs' = accessToken /\ switched' = FALSE
  /\ channels' = [id \in ChannelIds |-> IF channels[id] = "closed" THEN "joining" ELSE channels[id]]
  /\ UNCHANGED <<session, heard, accessToken, subscriptions, bound, late, joinedBefore, behind, events>>

Drop ==
  /\ Bound /\ socket = "connected" /\ socket' = "connecting" /\ status' = "connecting"
  /\ channels' = [id \in ChannelIds |-> IF channels[id] = "none" THEN "none" ELSE "closed"]
  /\ late' = {}
  /\ UNCHANGED <<session, heard, accessToken, signedAs, switched, subscriptions, bound, joinedBefore, behind>>

Accept(id) ==
  /\ channels[id] = "joining" /\ channels' = [channels EXCEPT ![id] = "accepted"]
  /\ UNCHANGED <<sessionVars, subscriptions, bound, late, joinedBefore, behind, events>>

\* onJoin: a rejoin fetches what came meanwhile.
Told(who) ==
  /\ joinedBefore' = [s \in Subscribers |-> joinedBefore[s] \/ s \in who]
  /\ behind' = [s \in Subscribers |-> behind[s] /\ ~(s \in who /\ joinedBefore[s])]

Joined(id) ==
  /\ channels[id] = "accepted" /\ channels' = [channels EXCEPT ![id] = "joined"]
  /\ Told(Wanted(id))
  /\ UNCHANGED <<sessionVars, subscriptions, bound, late, events>>

\* The answer to a channel already left is told to whoever wants that channel now.
LateJoined(id) ==
  /\ id \in late /\ late' = late \ {id}
  /\ Told(Wanted(id))
  /\ UNCHANGED <<sessionVars, subscriptions, channels, bound, events>>

\* A message reaches the bindings of a channel the server has.
Publish(id) ==
  /\ Bound /\ session # NoUser
  /\ behind' = [s \in Subscribers |->
                  behind[s] \/ ( /\ s \in Wanted(id) /\ joinedBefore[s]
                                 /\ ~(channels[id] \in {"accepted", "joined"} /\ bound[s] = 1) )]
  /\ UNCHANGED <<sessionVars, subscriptions, channels, bound, late, joinedBefore>>

-----------------------------------------------------------------------------
(* The subscribers.                                                        *)

\* It shares the live channel, and is told at once of one that joined before it came; else the
\* channel opens, when there is a socket.
Subscribe(s) ==
  LET id == ChannelOf[s]
  IN  /\ Bound /\ s \notin subscriptions /\ subscriptions' = subscriptions \cup {s}
      /\ bound' = [bound EXCEPT ![s] = IF socket = "none" /\ channels[id] = "none" THEN 0 ELSE Bind(s)]
      /\ channels' = [channels EXCEPT ![id] = IF @ = "none" /\ socket # "none" THEN OpenOn(socket) ELSE @]
      /\ joinedBefore' = [joinedBefore EXCEPT ![s] = channels[id] = "joined"]
      /\ behind' = [behind EXCEPT ![s] = FALSE]
      /\ UNCHANGED <<sessionVars, late>>

\* The last one to leave closes the channel.
Unsubscribe(s) ==
  LET id == ChannelOf[s] IN
  /\ s \in subscriptions /\ subscriptions' = subscriptions \ {s}
  /\ bound' = [bound EXCEPT ![s] = IF channels[id] = "none" THEN @ ELSE 0]
  /\ IF Wanted(id) = {s}
     THEN /\ channels' = [channels EXCEPT ![id] = "none"]
          /\ late' = IF channels[id] \in {"joining", "accepted"} THEN late \cup {id} ELSE late
     ELSE UNCHANGED <<channels, late>>
  /\ UNCHANGED <<sessionVars, joinedBefore, behind, events>>

ChannelsNext ==
  \/ SyncFromStore \/ Connect \/ Drop
  \/ \E user \in Users \cup {NoUser} : SessionHere(user) \/ SessionElsewhere(user)
  \/ \E id \in ChannelIds : Accept(id) \/ Joined(id) \/ LateJoined(id) \/ Publish(id)
  \/ \E s \in Subscribers : Subscribe(s) \/ Unsubscribe(s)

ChannelsSpec == ChannelsInit /\ [][ChannelsNext]_channelVars

-----------------------------------------------------------------------------
(* What the tab may count on.                                              *)

\* While there is a socket, exactly the wanted channels are open and every subscriber is bound
\* once; without one there is none.
OpenIsWanted ==
  /\ \A id \in ChannelIds : (channels[id] # "none") = (socket # "none" /\ Wanted(id) # {})
  /\ \A s \in Subscribers : bound[s] = (IF s \in subscriptions /\ socket # "none" THEN 1 ELSE 0)

\* Signed out and told so, the tab has no connection and no token left; a connection is the
\* stored user's, unless that changed from one user to another within one read of the store.
SocketIsTheUsers ==
  /\ heard => ((session = NoUser) = (socket = "none")) /\ accessToken = session
  /\ heard /\ socket = "connected" /\ ~switched => signedAs = session

\* A subscriber of a joined channel is behind nothing that came since its first join: it had it
\* delivered, or it has fetched again.
NobodyIsBehind ==
  \A s \in subscriptions : channels[ChannelOf[s]] = "joined" => joinedBefore[s] /\ ~behind[s]

\* The socket: app/socket/socket.ts.
ChannelsAgree ==
  /\ OpenIsWanted /\ SocketIsTheUsers /\ NobodyIsBehind
  /\ status = (IF socket = "none" THEN "disconnected" ELSE socket)
=============================================================================
