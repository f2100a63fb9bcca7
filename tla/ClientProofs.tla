---------------------------- MODULE ClientProofs ----------------------------
(***************************************************************************)
(* Components of the tab, for any number of what they handle.              *)
(*                                                                         *)
(* The socket, for any number of subscribers, channels and users: whatever *)
(* sessions, drops, mounts and answers come in whatever order, what its    *)
(* module says the tab may count on holds.  ChannelsAgree is not           *)
(* inductive: it speaks of a tab that has heard of its session, and of     *)
(* channels that are joined.  ChannelsInv says the same of the token the   *)
(* tab has, heard or not, which channels a socket that is not connected    *)
(* may have, and that nobody is behind before its first join.              *)
(*                                                                         *)
(* Signing in, whatever authentik, the network and GET /me answer, for any *)
(* number of round trips, attempts and retries and any set of pages: what  *)
(* SignIn says the person may count on holds.  SignInv says it screen by   *)
(* screen.  What makes it inductive is Runs: while an attempt counts       *)
(* nothing leaves for authentik and the screen shows its state and no      *)
(* other, so whatever is shown besides, or leaves, finds it given up; and  *)
(* one given up can neither wait nor show anything.                        *)
(*                                                                         *)
(* The frame, for any widths of the window and any pixels a gesture comes  *)
(* to: what Shell says it keeps holds.  ShellInv adds what the layout is:  *)
(* not a function of the window and the preferences, because of the        *)
(* hysteresis, but what resolveShell makes of them after some layout; that *)
(* a gesture's border is on screen, so the sidebar's has no peek under it; *)
(* and that a draft has a gesture, or had one that was cut short.          *)
(*                                                                         *)
(* Overlays, for any popovers: what Overlays says holds.  That one thing   *)
(* is open at a time is inductive only with CurrentIsOpen, which says that *)
(* it is the one remembered; the ladder has each of its levels once.       *)
(*                                                                         *)
(* Toasts and undo, for any number of operations, toasts and pages: what   *)
(* Toasts says holds.  ToastInv says of InPlaces which sets are disjoint,  *)
(* not how many there are, and that no operation is anywhere before it is  *)
(* recorded; and of what waits in the lane that it holds no step of its    *)
(* own, so that it may be dropped or shown without one lost or run twice.  *)
(***************************************************************************)
EXTENDS Channels, SignIn, Shell, Overlays, Toasts, SelectionProofs, FiniteSetTheorems, TLAPS

-----------------------------------------------------------------------------
(* The socket.                                                             *)

ChannelStates == {"none", "closed", "joining", "accepted", "joined"}

SocketTyped ==
    /\ session \in Users \cup {NoUser} /\ accessToken \in Users \cup {NoUser}
    /\ heard \in BOOLEAN /\ switched \in BOOLEAN
    /\ socket \in {"none", "connecting", "connected"}
    /\ subscriptions \in SUBSET Subscribers
    /\ channels \in [ChannelIds -> ChannelStates]
    /\ bound \in [Subscribers -> Nat]
    /\ joinedBefore \in [Subscribers -> BOOLEAN] /\ behind \in [Subscribers -> BOOLEAN]

\* There is a socket exactly while there is a token for it, which is the stored user's as soon as
\* the tab has heard of that one; a connection was made with it, unless the user changed.
TokenOpensSocket ==
    /\ (accessToken = NoUser) <=> (socket = "none")
    /\ heard => accessToken = session
    /\ socket = "connected" /\ ~switched => signedAs = accessToken

\* Only a connected socket has channels on their way in, and it has none that is closed.
ChannelsFollowSocket ==
    \A id \in ChannelIds : IF socket = "connected" THEN channels[id] # "closed"
                                                   ELSE channels[id] \in {"none", "closed"}

\* Nobody is behind before its first join.
BehindAfterJoin == \A s \in Subscribers : behind[s] => joinedBefore[s]

StatusIsSockets == status = (IF socket = "none" THEN "disconnected" ELSE socket)

ChannelsInv ==
    /\ SocketTyped /\ StatusIsSockets /\ TokenOpensSocket /\ OpenIsWanted /\ ChannelsFollowSocket
    /\ BehindAfterJoin /\ NobodyIsBehind
-----------------------------------------------------------------------------
(* The session and the connection. *)

\* A tab that hears who is signed in ends up with his token and his channels, or with none.
LEMMA SyncKeeps ==
    ASSUME ChannelsAssumption, ChannelsInv, NEW user \in Users \cup {NoUser}, Sync(user),
           session' = user, heard' = TRUE
    PROVE  ChannelsInv'
  <1> USE DEF Sync, ChannelsAssumption
  <1>1. \A id \in ChannelIds : Wanted(id)' = Wanted(id)
    BY DEF Wanted
  <1>2. CASE user # NoUser /\ socket = "none"
    <2>1. /\ socket' = "connecting" /\ status' = "connecting"
          /\ channels' = [id \in ChannelIds |-> IF Wanted(id) # {} THEN "closed" ELSE "none"]
          /\ bound' = [s \in Subscribers |-> IF s \in subscriptions THEN 1 ELSE 0]
      BY <1>2 DEF Init, OpenOn, Bind, ChannelsInv, SocketTyped, OpenIsWanted
    <2>2. SocketTyped'
      BY <1>2, <2>1 DEF ChannelsInv, SocketTyped, ChannelStates
    <2>3. OpenIsWanted' /\ ChannelsFollowSocket' /\ NobodyIsBehind'
      BY <1>1, <2>1 DEF ChannelsInv, SocketTyped, OpenIsWanted, ChannelsFollowSocket, NobodyIsBehind
    <2>4. StatusIsSockets' /\ TokenOpensSocket' /\ BehindAfterJoin'
      BY <1>2, <2>1 DEF ChannelsInv, StatusIsSockets, TokenOpensSocket, BehindAfterJoin
    <2>5. QED
      BY <2>2, <2>3, <2>4 DEF ChannelsInv
  <1>3. CASE user # NoUser /\ socket # "none"
    <2>1. UNCHANGED <<socket, status, channels, bound>>
      BY <1>3 DEF Init
    <2>2. SocketTyped'
      BY <1>3, <2>1 DEF ChannelsInv, SocketTyped
    <2>3. OpenIsWanted' /\ ChannelsFollowSocket' /\ NobodyIsBehind'
      BY <1>1, <2>1 DEF ChannelsInv, OpenIsWanted, ChannelsFollowSocket, NobodyIsBehind
    <2>4. StatusIsSockets' /\ TokenOpensSocket' /\ BehindAfterJoin'
      BY <1>3, <2>1 DEF ChannelsInv, SocketTyped, StatusIsSockets, TokenOpensSocket, BehindAfterJoin
    <2>5. QED
      BY <2>2, <2>3, <2>4 DEF ChannelsInv
  <1>4. CASE user = NoUser
    <2>1. /\ socket' = "none" /\ status' = "disconnected"
          /\ channels' = [id \in ChannelIds |-> "none"] /\ bound' = [s \in Subscribers |-> 0]
      BY <1>4 DEF Disconnect, Disconnected, Unbound, ChannelsInv, SocketTyped, StatusIsSockets, OpenIsWanted
    <2>2. SocketTyped'
      BY <1>4, <2>1 DEF ChannelsInv, SocketTyped, ChannelStates
    <2>3. OpenIsWanted' /\ ChannelsFollowSocket' /\ NobodyIsBehind'
      BY <1>1, <2>1 DEF ChannelsInv, SocketTyped, OpenIsWanted, ChannelsFollowSocket, NobodyIsBehind
    <2>4. StatusIsSockets' /\ TokenOpensSocket' /\ BehindAfterJoin'
      BY <1>4, <2>1 DEF ChannelsInv, SocketTyped, StatusIsSockets, TokenOpensSocket, BehindAfterJoin
    <2>5. QED
      BY <2>2, <2>3, <2>4 DEF ChannelsInv
  <1>5. QED
    BY <1>2, <1>3, <1>4

\* A connection and its loss send the joins of the same channels again.
LEMMA ConnectionKeeps ==
    ASSUME ChannelsAssumption, ChannelsInv, Connect \/ Drop
    PROVE  ChannelsInv'
  <1> USE DEF ChannelsAssumption
  <1>1. /\ \A id \in ChannelIds : Wanted(id)' = Wanted(id)
        /\ \A id \in ChannelIds : channels'[id] # "joined" \/ channels[id] = "joined"
        /\ \A id \in ChannelIds : (channels'[id] = "none") <=> (channels[id] = "none")
    BY DEF Connect, Drop, Wanted, ChannelsInv, SocketTyped
  <1>2. SocketTyped'
    BY DEF Connect, Drop, ChannelsInv, SocketTyped, ChannelStates
  <1>3. OpenIsWanted' /\ NobodyIsBehind'
    BY <1>1 DEF Connect, Drop, ChannelsInv, SocketTyped, OpenIsWanted, NobodyIsBehind
  <1>4. ChannelsFollowSocket'
    BY DEF Connect, Drop, ChannelsInv, SocketTyped, ChannelsFollowSocket
  <1>5. StatusIsSockets' /\ TokenOpensSocket' /\ BehindAfterJoin'
    BY DEF Connect, Drop, ChannelsInv, StatusIsSockets, TokenOpensSocket, BehindAfterJoin
  <1>6. QED
    BY <1>2, <1>3, <1>4, <1>5 DEF ChannelsInv
-----------------------------------------------------------------------------
(* The channels. *)

\* Told that their channel joined, its subscribers are behind nothing, and no others are touched.
LEMMA ToldKeeps ==
    ASSUME ChannelsInv, NEW who \in SUBSET Subscribers, Told(who)
    PROVE  /\ joinedBefore' \in [Subscribers -> BOOLEAN] /\ behind' \in [Subscribers -> BOOLEAN]
           /\ BehindAfterJoin'
           /\ \A s \in who : joinedBefore'[s] /\ ~behind'[s]
           /\ \A s \in Subscribers : joinedBefore[s] /\ ~behind[s] => joinedBefore'[s] /\ ~behind'[s]
  BY DEF ChannelsInv, SocketTyped, BehindAfterJoin, Told

LEMMA JoinKeeps ==
    ASSUME ChannelsAssumption, ChannelsInv, NEW id \in ChannelIds,
           Accept(id) \/ Joined(id) \/ LateJoined(id)
    PROVE  ChannelsInv'
  <1> USE DEF ChannelsAssumption
  <1>1. /\ Wanted(id) \in SUBSET Subscribers
        /\ \A i \in ChannelIds : Wanted(i)' = Wanted(i)
    BY DEF Accept, Joined, LateJoined, sessionVars, Wanted, ChannelsInv, SocketTyped
  <1>2. UNCHANGED <<sessionVars, subscriptions, bound>>
    BY DEF Accept, Joined, LateJoined
  <1>3. CASE Accept(id)
    <2>1. UNCHANGED <<joinedBefore, behind>> /\ channels' = [channels EXCEPT ![id] = "accepted"]
          /\ channels[id] = "joining"
      BY <1>3 DEF Accept
    <2>2. SocketTyped'
      BY <1>2, <2>1 DEF sessionVars, ChannelsInv, SocketTyped, ChannelStates
    <2>3. OpenIsWanted' /\ ChannelsFollowSocket' /\ NobodyIsBehind'
      BY <1>1, <1>2, <2>1 DEF sessionVars, ChannelsInv, SocketTyped, OpenIsWanted, ChannelsFollowSocket, NobodyIsBehind
    <2>4. StatusIsSockets' /\ TokenOpensSocket' /\ BehindAfterJoin'
      BY <1>2, <2>1 DEF sessionVars, ChannelsInv, StatusIsSockets, TokenOpensSocket, BehindAfterJoin
    <2>5. QED
      BY <2>2, <2>3, <2>4 DEF ChannelsInv
  <1>4. CASE Joined(id)
    <2>1. /\ channels' = [channels EXCEPT ![id] = "joined"] /\ channels[id] = "accepted"
          /\ Told(Wanted(id))
      BY <1>4 DEF Joined
    <2>2. SocketTyped'
      BY <1>1, <1>2, <2>1, ToldKeeps DEF sessionVars, ChannelsInv, SocketTyped, ChannelStates
    <2>3. OpenIsWanted' /\ ChannelsFollowSocket'
      BY <1>1, <1>2, <2>1 DEF sessionVars, ChannelsInv, SocketTyped, OpenIsWanted, ChannelsFollowSocket
    <2>4. NobodyIsBehind'
      <3> SUFFICES ASSUME NEW s \in subscriptions, channels'[ChannelOf[s]] = "joined"
                   PROVE  joinedBefore'[s] /\ ~behind'[s]
        BY <1>2 DEF NobodyIsBehind
      <3>1. s \in Subscribers /\ ChannelOf[s] \in ChannelIds
        BY DEF ChannelsInv, SocketTyped
      <3>2. s \in Wanted(id) \/ channels[ChannelOf[s]] = "joined"
        BY <2>1, <3>1 DEF Wanted, ChannelsInv, SocketTyped
      <3>3. QED
        BY <1>1, <2>1, <3>1, <3>2, ToldKeeps DEF ChannelsInv, NobodyIsBehind
    <2>5. StatusIsSockets' /\ TokenOpensSocket' /\ BehindAfterJoin'
      BY <1>1, <1>2, <2>1, ToldKeeps DEF sessionVars, ChannelsInv, StatusIsSockets, TokenOpensSocket
    <2>6. QED
      BY <2>2, <2>3, <2>4, <2>5 DEF ChannelsInv
  <1>5. CASE LateJoined(id)
    <2>1. UNCHANGED channels /\ Told(Wanted(id))
      BY <1>5 DEF LateJoined
    <2>2. SocketTyped'
      BY <1>1, <1>2, <2>1, ToldKeeps DEF sessionVars, ChannelsInv, SocketTyped
    <2>3. OpenIsWanted' /\ ChannelsFollowSocket'
      BY <1>1, <1>2, <2>1 DEF sessionVars, ChannelsInv, SocketTyped, OpenIsWanted, ChannelsFollowSocket
    <2>4. NobodyIsBehind'
      BY <1>1, <1>2, <2>1, ToldKeeps DEF ChannelsInv, SocketTyped, NobodyIsBehind
    <2>5. StatusIsSockets' /\ TokenOpensSocket' /\ BehindAfterJoin'
      BY <1>1, <1>2, <2>1, ToldKeeps DEF sessionVars, ChannelsInv, StatusIsSockets, TokenOpensSocket
    <2>6. QED
      BY <2>2, <2>3, <2>4, <2>5 DEF ChannelsInv
  <1>6. QED
    BY <1>3, <1>4, <1>5

\* A subscriber of a joined channel is bound to it once: what is published reaches it.
LEMMA PublishKeeps ==
    ASSUME ChannelsAssumption, ChannelsInv, NEW id \in ChannelIds, Publish(id)
    PROVE  ChannelsInv'
  <1> USE DEF ChannelsAssumption
  <1>1. /\ \A i \in ChannelIds : Wanted(i)' = Wanted(i)
        /\ UNCHANGED <<sessionVars, subscriptions, channels, bound, joinedBefore>>
    BY DEF Publish, sessionVars, Wanted
  <1>2. \A s \in Subscribers :
          behind'[s] = (behind[s] \/ ( /\ s \in Wanted(id) /\ joinedBefore[s]
                                       /\ ~(channels[id] \in {"accepted", "joined"} /\ bound[s] = 1) ))
    BY DEF Publish
  <1>3. SocketTyped'
    BY <1>1 DEF Publish, sessionVars, ChannelsInv, SocketTyped
  <1>4. OpenIsWanted' /\ ChannelsFollowSocket'
    BY <1>1 DEF sessionVars, ChannelsInv, OpenIsWanted, ChannelsFollowSocket
  <1>5. NobodyIsBehind'
    <2> SUFFICES ASSUME NEW s \in subscriptions, channels[ChannelOf[s]] = "joined"
                 PROVE  joinedBefore[s] /\ ~behind'[s]
      BY <1>1 DEF NobodyIsBehind
    <2>1. s \in Subscribers /\ ChannelOf[s] \in ChannelIds /\ joinedBefore[s] /\ ~behind[s]
      BY DEF ChannelsInv, SocketTyped, NobodyIsBehind
    <2>2. bound[s] = 1
      BY <2>1 DEF ChannelsInv, OpenIsWanted
    <2>3. s \in Wanted(id) => channels[id] = "joined"
      BY DEF Wanted
    <2>4. QED
      BY <1>2, <2>1, <2>2, <2>3
  <1>6. BehindAfterJoin'
    BY <1>1, <1>2 DEF ChannelsInv, BehindAfterJoin
  <1>7. StatusIsSockets' /\ TokenOpensSocket'
    BY <1>1 DEF sessionVars, ChannelsInv, StatusIsSockets, TokenOpensSocket
  <1>8. QED
    BY <1>3, <1>4, <1>5, <1>6, <1>7 DEF ChannelsInv
-----------------------------------------------------------------------------
(* The subscribers. *)

\* Who comes shares a live channel, or opens it, or waits for a socket.
LEMMA SubscribeKeeps ==
    ASSUME ChannelsAssumption, ChannelsInv, NEW s \in Subscribers, Subscribe(s)
    PROVE  ChannelsInv'
  <1> DEFINE id == ChannelOf[s]
  <1>1. id \in ChannelIds
    BY DEF ChannelsAssumption
  <1>2. /\ s \notin subscriptions /\ subscriptions' = subscriptions \cup {s}
        /\ bound' = [bound EXCEPT ![s] = IF socket = "none" /\ channels[id] = "none" THEN 0 ELSE bound[s] + 1]
        /\ channels' = [channels EXCEPT ![id] = IF @ = "none" /\ socket # "none" THEN OpenOn(socket) ELSE @]
        /\ joinedBefore' = [joinedBefore EXCEPT ![s] = channels[id] = "joined"]
        /\ behind' = [behind EXCEPT ![s] = FALSE]
        /\ UNCHANGED sessionVars
    BY DEF Subscribe, Bind
  <1>3. \A i \in ChannelIds : Wanted(i)' = IF i = id THEN Wanted(i) \cup {s} ELSE Wanted(i)
    BY <1>2 DEF Wanted
  <1>4. SocketTyped'
    BY <1>1, <1>2 DEF sessionVars, ChannelsInv, SocketTyped, ChannelStates, OpenOn
  <1>5. OpenIsWanted'
    <2>1. bound[s] = 0
      BY <1>2 DEF ChannelsInv, OpenIsWanted
    <2>2. socket = "none" => channels[id] = "none"
      BY <1>1 DEF ChannelsInv, OpenIsWanted
    <2>3. \A t \in Subscribers : bound'[t] = IF t \in subscriptions' /\ socket' # "none" THEN 1 ELSE 0
      BY <1>2, <2>1, <2>2 DEF sessionVars, ChannelsInv, SocketTyped, OpenIsWanted
    <2>4. \A i \in ChannelIds : (channels'[i] # "none") = (socket' # "none" /\ Wanted(i)' # {})
      BY <1>1, <1>2, <1>3, <2>2 DEF sessionVars, ChannelsInv, SocketTyped, OpenIsWanted, OpenOn
    <2>5. QED
      BY <2>3, <2>4 DEF OpenIsWanted
  <1>6. ChannelsFollowSocket'
    BY <1>1, <1>2 DEF sessionVars, ChannelsInv, SocketTyped, ChannelsFollowSocket, OpenOn
  <1>7. NobodyIsBehind'
    <2> SUFFICES ASSUME NEW t \in subscriptions', channels'[ChannelOf[t]] = "joined"
                 PROVE  joinedBefore'[t] /\ ~behind'[t]
      BY DEF NobodyIsBehind
    <2>1. t \in Subscribers /\ ChannelOf[t] \in ChannelIds
      BY <1>2 DEF ChannelsAssumption, ChannelsInv, SocketTyped
    <2>2. channels[ChannelOf[t]] = "joined"
      BY <1>1, <1>2, <2>1 DEF ChannelsInv, SocketTyped, OpenOn
    <2>3. QED
      BY <1>2, <2>1, <2>2 DEF ChannelsInv, SocketTyped, NobodyIsBehind
  <1>8. BehindAfterJoin' /\ StatusIsSockets' /\ TokenOpensSocket'
    BY <1>2 DEF sessionVars, ChannelsInv, SocketTyped, BehindAfterJoin, StatusIsSockets, TokenOpensSocket
  <1>9. QED
    BY <1>4, <1>5, <1>6, <1>7, <1>8 DEF ChannelsInv

\* Who leaves takes its bindings with it, and the last one the channel.
LEMMA UnsubscribeKeeps ==
    ASSUME ChannelsAssumption, ChannelsInv, NEW s \in Subscribers, Unsubscribe(s)
    PROVE  ChannelsInv'
  <1> DEFINE id == ChannelOf[s]
  <1>1. id \in ChannelIds
    BY DEF ChannelsAssumption
  <1>2. /\ s \in subscriptions /\ subscriptions' = subscriptions \ {s}
        /\ bound' = [bound EXCEPT ![s] = IF channels[id] = "none" THEN @ ELSE 0]
        /\ channels' = IF Wanted(id) = {s} THEN [channels EXCEPT ![id] = "none"] ELSE channels
        /\ UNCHANGED <<sessionVars, joinedBefore, behind>>
    BY DEF Unsubscribe
  <1>3. s \in Wanted(id) /\ \A i \in ChannelIds : Wanted(i)' = IF i = id THEN Wanted(i) \ {s} ELSE Wanted(i)
    BY <1>2 DEF Wanted
  <1>4. SocketTyped'
    BY <1>1, <1>2 DEF sessionVars, ChannelsInv, SocketTyped, ChannelStates
  <1>5. OpenIsWanted'
    <2>1. channels[id] = "none" => socket = "none"
      BY <1>1, <1>3 DEF ChannelsInv, OpenIsWanted
    <2>2. \A t \in Subscribers : bound'[t] = IF t \in subscriptions' /\ socket' # "none" THEN 1 ELSE 0
      BY <1>2, <2>1 DEF sessionVars, ChannelsInv, SocketTyped, OpenIsWanted
    <2>3. \A i \in ChannelIds : (channels'[i] # "none") = (socket' # "none" /\ Wanted(i)' # {})
      BY <1>1, <1>2, <1>3 DEF sessionVars, ChannelsInv, SocketTyped, OpenIsWanted
    <2>4. QED
      BY <2>2, <2>3 DEF OpenIsWanted
  <1>6. ChannelsFollowSocket'
    BY <1>1, <1>2 DEF sessionVars, ChannelsInv, SocketTyped, ChannelsFollowSocket
  <1>7. NobodyIsBehind'
    <2>1. \A t \in subscriptions' : ChannelOf[t] \in ChannelIds
      BY <1>2 DEF ChannelsAssumption, ChannelsInv, SocketTyped
    <2>2. QED
      BY <1>1, <1>2, <2>1 DEF ChannelsInv, SocketTyped, NobodyIsBehind
  <1>8. BehindAfterJoin' /\ StatusIsSockets' /\ TokenOpensSocket'
    BY <1>2 DEF sessionVars, ChannelsInv, BehindAfterJoin, StatusIsSockets, TokenOpensSocket
  <1>9. QED
    BY <1>4, <1>5, <1>6, <1>7, <1>8 DEF ChannelsInv
-----------------------------------------------------------------------------
(* The socket of a tab. *)

LEMMA ChannelsStep ==
    ASSUME ChannelsAssumption, ChannelsInv, [ChannelsNext]_channelVars
    PROVE  ChannelsInv'
  <1>1. CASE SyncFromStore
    BY <1>1, SyncKeeps DEF SyncFromStore, ChannelsInv, SocketTyped
  <1>2. CASE Connect \/ Drop
    BY <1>2, ConnectionKeeps
  <1>3. ASSUME NEW user \in Users \cup {NoUser}, SessionHere(user)
        PROVE  ChannelsInv'
    BY <1>3, SyncKeeps DEF SessionHere
  <1>4. ASSUME NEW user \in Users \cup {NoUser}, SessionElsewhere(user)
        PROVE  ChannelsInv'
    <2>1. \A id \in ChannelIds : Wanted(id)' = Wanted(id)
      BY <1>4 DEF SessionElsewhere, Wanted
    <2>2. SocketTyped' /\ OpenIsWanted' /\ ChannelsFollowSocket' /\ NobodyIsBehind'
      BY <1>4, <2>1 DEF SessionElsewhere, ChannelsInv, SocketTyped, OpenIsWanted, ChannelsFollowSocket,
                        NobodyIsBehind
    <2>3. StatusIsSockets' /\ TokenOpensSocket' /\ BehindAfterJoin'
      BY <1>4 DEF SessionElsewhere, ChannelsInv, StatusIsSockets, TokenOpensSocket, BehindAfterJoin
    <2>4. QED
      BY <2>2, <2>3 DEF ChannelsInv
  <1>5. ASSUME NEW id \in ChannelIds, Accept(id) \/ Joined(id) \/ LateJoined(id) \/ Publish(id)
        PROVE  ChannelsInv'
    BY <1>5, JoinKeeps, PublishKeeps
  <1>6. ASSUME NEW s \in Subscribers, Subscribe(s) \/ Unsubscribe(s)
        PROVE  ChannelsInv'
    BY <1>6, SubscribeKeeps, UnsubscribeKeeps
  <1>7. CASE UNCHANGED channelVars
    BY <1>7 DEF channelVars, sessionVars, ChannelsInv, SocketTyped, StatusIsSockets, TokenOpensSocket,
                OpenIsWanted, Wanted, ChannelsFollowSocket, BehindAfterJoin, NobodyIsBehind
  <1>8. QED
    BY <1>1, <1>2, <1>3, <1>4, <1>5, <1>6, <1>7 DEF ChannelsNext

\* socket.ts for any number of subscribers, channels and users, and for runs of any length: while
\* there is a socket exactly the wanted channels are open and every subscriber is bound once, the
\* socket is the stored user's once the tab has heard of him, and a subscriber of a joined channel
\* missed nothing it will not fetch again.
THEOREM SocketAgrees ==
    ASSUME ChannelsAssumption
    PROVE  ChannelsSpec => []ChannelsAgree
  <1>1. ChannelsInit => ChannelsInv
    <2> SUFFICES ASSUME ChannelsInit PROVE ChannelsInv
      OBVIOUS
    <2> USE DEF ChannelsInit, SessionInit, SocketInit, StatusInit, Registry, RealtimeInit, Unbound
    <2>1. SocketTyped
      BY DEF SocketTyped, ChannelStates
    <2>2. OpenIsWanted
      BY DEF OpenIsWanted, Wanted
    <2>3. ChannelsFollowSocket /\ BehindAfterJoin /\ NobodyIsBehind
      BY DEF ChannelsFollowSocket, BehindAfterJoin, NobodyIsBehind
    <2>4. StatusIsSockets /\ TokenOpensSocket
      BY DEF StatusIsSockets, TokenOpensSocket
    <2>5. QED
      BY <2>1, <2>2, <2>3, <2>4 DEF ChannelsInv
  <1>2. ChannelsInv /\ [ChannelsNext]_channelVars => ChannelsInv'
    BY ChannelsStep
  <1>3. ChannelsInv => ChannelsAgree
    BY DEF ChannelsInv, SocketTyped, StatusIsSockets, TokenOpensSocket, ChannelsAgree, SocketIsTheUsers
  <1>4. QED
    BY <1>1, <1>2, <1>3, PTL DEF ChannelsSpec

-----------------------------------------------------------------------------
(* Signing in.                                                             *)

Here == Paths \cup {Home}
AtMe == {"me", "pause", "waits for me"}
AtNetwork == {"waits to begin", "waits to exchange", "waits for me"}
TrySteps == {"begin", "exchange", "late"} \cup AtMe \cup AtNetwork
Ways == {"signin", "select", "signout"}

SignInTyped ==
    /\ place \in {"login", "callback", "app", "authentik"} /\ errand \in Ways
    /\ stored \in BOOLEAN /\ silentRetry \in BOOLEAN /\ selectAccount \in BOOLEAN
    /\ wanted \in Here /\ kept \in Here
    /\ tries \in SUBSET [n : Int, at : TrySteps, retry : Int] /\ attempt \in Int
    /\ error \in Codes \cup {NoError}
    /\ signedIn \in BOOLEAN /\ hinted \in BOOLEAN /\ oldLink \in BOOLEAN /\ started \in BOOLEAN
    /\ starting \in SUBSET Ways
    /\ stranded \in BOOLEAN /\ online \in BOOLEAN

\* No attempt begins while another one is running: at most one is left.
OneTry == \A t, u \in tries : t = u

\* What is on screen while t counts.
ErrorOf(t) == CASE t.at \in AtNetwork -> "offline" [] t.at = "late" -> "timeout" [] OTHER -> NoError

\* While an attempt counts nothing leaves for authentik and the screen is its own; one that is
\* given up is past its beginning and does not wait; one that has exchanged its code has a session.
Runs(t) ==
    /\ t.n <= attempt
    /\ Current(t) => starting = {} /\ ~stranded /\ error = ErrorOf(t)
    /\ t.at \in {"begin"} \cup AtNetwork => Current(t)
    /\ t.at = "begin" => stage = "blank"
    /\ t.at \in AtMe => stored /\ signedIn /\ ~oldLink

\* Nobody is at the login screen of a tab that has an attempt or signs out.
AtLogin == place = "login" =>
    /\ tries = {} /\ "signout" \notin starting /\ returnTo = wanted
    /\ ~started => starting = {} /\ error = NoError
    /\ started /\ error = NoError => starting # {}
    /\ error = "offline" => stranded
    /\ starting # {} => kept = wanted

\* What was kept comes back with the round trip, and the app is entered with a session.
Away ==
    /\ place \in {"authentik", "app"} => tries = {} /\ starting = {}
    /\ place = "app" => stored /\ address = wanted
    /\ place = "authentik" /\ errand # "signout" => kept = wanted /\ carried = wanted

\* The callback screen.
AtCallback == place = "callback" =>
    /\ returnTo = wanted /\ (~oldLink => carried = wanted)
    /\ starting \cap {"signin", "select"} # {} => kept = wanted
    /\ "signout" \in starting => hinted /\ selectAccount
    /\ \A t \in tries : Runs(t)
    /\ error = NoError => starting # {} \/ \E t \in tries : Current(t)
    /\ error = "offline" /\ ~stranded => Waiting # {} \/ starting # {}
    /\ error = "not_allowed" => ~stored /\ hinted /\ tries = {}
    /\ error = "api_unavailable" =>
         stored /\ signedIn /\ tries = {} /\ starting = {} /\ ~oldLink /\ ~stranded

SignInv == SignInTyped /\ OneTry /\ AtLogin /\ Away /\ AtCallback
-----------------------------------------------------------------------------
(* Between the screens. *)

LEMMA CodesAre ==
    Codes = {"cancelled", "state_mismatch", "not_allowed", "token_failed", "idp_error", "timeout",
             "api_unavailable", "offline", "misconfigured"}
  BY DEF Codes, ErrorScreens

\* A page of this app is what it is returned to as.
LEMMA ReturnPaths ==
    /\ \A path : ReturnPathOf(path) \in Here
    /\ \A path \in Here : ReturnPathOf(path) = path
  BY DEF ReturnPathOf, Here

LEMMA LeaveKeeps ==
    ASSUME SignInv, NEW what \in Ways, Leave(what)
    PROVE  SignInv'
  <1> USE DEF Leave, Show
  <1>1. SignInTyped'
    BY DEF SignInv, SignInTyped
  <1>2. errand' # "signout" => kept' = wanted' /\ carried' = wanted'
    <2>1. CASE place = "login"
      BY <2>1 DEF SignInv, AtLogin
    <2>2. CASE place = "callback"
      BY <2>2 DEF SignInv, AtCallback, Ways
    <2>3. QED
      BY <2>1, <2>2 DEF SignInv, SignInTyped, Away
  <1>3. QED
    BY <1>1, <1>2 DEF SignInv, OneTry, AtLogin, Away, AtCallback

LEMMA LeaveFailsKeeps ==
    ASSUME SignAssumption, SignInv, NEW what \in Ways, LeaveFails(what)
    PROVE  SignInv'
  <1>1. /\ what \in starting /\ starting' = starting \ {what}
        /\ error' \in {"misconfigured", "token_failed", "offline"}
        /\ error' = "offline" => stranded'
        /\ stranded' \in BOOLEAN
        /\ UNCHANGED <<tab, started, tries, attempt, signedIn, online, returnTo, oldLink, hinted>>
    BY DEF LeaveFails, Show, SignInv, SignInTyped
  <1>2. SignInTyped'
    BY <1>1, CodesAre DEF tab, SignInv, SignInTyped
  <1>3. OneTry' /\ AtLogin' /\ Away'
    BY <1>1, CodesAre DEF tab, SignAssumption, SignInv, OneTry, AtLogin, Away
  <1>4. ASSUME place = "callback", NEW t \in tries
        PROVE  Runs(t)'
    <2>1. Runs(t) /\ ~Current(t)
      BY <1>1, <1>4 DEF SignInv, AtCallback, Runs
    <2>2. QED
      BY <1>1, <2>1 DEF tab, Runs, Current
  <1>5. AtCallback'
    BY <1>1, <1>4 DEF tab, SignAssumption, SignInv, AtCallback
  <1>6. QED
    BY <1>2, <1>3, <1>5 DEF SignInv

\* A page just loaded has its one attempt, or none.
LEMMA FreshIs ==
    ASSUME NEW where \in {"callback", "login"}, Fresh(where)
    PROVE  /\ place' = where /\ started' = (where = "callback")
           /\ error' = NoError /\ stage' = "blank" /\ attempt' = 1 /\ starting' = {}
           /\ signedIn' = FALSE /\ hinted' = FALSE /\ stranded' = FALSE
           /\ where = "login" => tries' = {}
           /\ where = "callback" =>
                \E t \in [n : Int, at : {"begin"}, retry : Int] : t.n = 1 /\ tries' = {t}
  <1>1. where = "callback" => tries' = {[n |-> 1, at |-> "begin", retry |-> 0]}
    BY DEF Fresh
  <1>2. [n |-> 1, at |-> "begin", retry |-> 0] \in [n : Int, at : {"begin"}, retry : Int]
    OBVIOUS
  <1>3. QED
    BY <1>1, <1>2 DEF Fresh, Show

LEMMA CallbackLoads ==
    ASSUME SignAssumption, SignInv, Fresh("callback"), returnTo' = wanted', ~oldLink' => carried' = wanted',
           oldLink' \in BOOLEAN, wanted' \in Here,
           UNCHANGED <<errand, stored, silentRetry, selectAccount, kept, online>>
    PROVE  SignInv'
  <1>1. PICK t \in [n : Int, at : {"begin"}, retry : Int] : t.n = 1 /\ tries' = {t}
    BY FreshIs
  <1>2. /\ place' = "callback" /\ started' = TRUE
        /\ error' = NoError /\ stage' = "blank" /\ attempt' = 1 /\ starting' = {}
        /\ signedIn' = FALSE /\ hinted' = FALSE /\ stranded' = FALSE
    BY FreshIs
  <1>3. t \in [n : Int, at : TrySteps, retry : Int] /\ t.at = "begin"
    BY DEF TrySteps
  <1>4. SignInTyped'
    BY <1>1, <1>2, <1>3 DEF SignInv, SignInTyped
  <1>5. Runs(t)' /\ Current(t)'
    BY <1>1, <1>2, <1>3 DEF Runs, Current, ErrorOf, AtNetwork, AtMe
  <1>6. QED
    BY <1>1, <1>2, <1>4, <1>5, CodesAre DEF SignAssumption, SignInv, OneTry, AtLogin, Away, AtCallback

LEMMA LoginLoads ==
    ASSUME SignAssumption, SignInv, Fresh("login"), returnTo' = wanted', stored' \in BOOLEAN,
           oldLink' \in BOOLEAN, wanted' \in Here,
           UNCHANGED <<errand, silentRetry, selectAccount, kept, online>>
    PROVE  SignInv'
  <1>1. /\ place' = "login" /\ started' = FALSE /\ tries' = {}
        /\ error' = NoError /\ stage' = "blank" /\ attempt' = 1 /\ starting' = {}
        /\ signedIn' = FALSE /\ hinted' = FALSE /\ stranded' = FALSE
    BY FreshIs
  <1>2. SignInTyped'
    <2>1. tries' \in SUBSET [n : Int, at : TrySteps, retry : Int]
      BY <1>1
    <2>2. /\ place' \in {"login", "callback", "app", "authentik"} /\ errand' \in Ways
          /\ silentRetry' \in BOOLEAN /\ selectAccount' \in BOOLEAN
          /\ kept' \in Here
      BY <1>1 DEF SignInv, SignInTyped
    <2>3. /\ attempt' \in Int
          /\ error' \in Codes \cup {NoError}
      BY <1>1 DEF SignInv, SignInTyped
    <2>5. /\ signedIn' \in BOOLEAN /\ hinted' \in BOOLEAN /\ started' \in BOOLEAN
      BY <1>1 DEF SignInv, SignInTyped
    <2>4. /\ starting' \in SUBSET Ways
          /\ stranded' \in BOOLEAN /\ online' \in BOOLEAN
      BY <1>1 DEF SignInv, SignInTyped
    <2>6. QED
      BY <2>1, <2>2, <2>3, <2>4, <2>5 DEF SignInTyped
  <1>3. QED
    BY <1>1, <1>2, CodesAre DEF SignAssumption, SignInv, OneTry, AtLogin, Away, AtCallback

LEMMA LoadKeeps ==
    ASSUME SignAssumption, SignInv, Return \/ OldCallback \/ \E path \in Paths : SessionEnds(path)
    PROVE  SignInv'
  <1>1. CASE Return
    BY <1>1, ReturnPaths, CallbackLoads, LoginLoads
    DEF Return, PendingReturnTo, SignInv, SignInTyped, Away, Here
  <1>2. CASE OldCallback
    BY <1>2, ReturnPaths, CallbackLoads DEF OldCallback, PendingReturnTo, SignInv, SignInTyped
  <1>3. CASE \E path \in Paths : SessionEnds(path)
    BY <1>3, ReturnPaths, LoginLoads DEF SessionEnds, LoginPath, Here
  <1>4. QED
    BY <1>1, <1>2, <1>3

LEMMA LoginKeeps ==
    ASSUME SignAssumption, SignInv, Login \/ LoginAgain
    PROVE  SignInv'
  <1> USE ReturnPaths DEF StartSignIn, Show
  <1>1. CASE Login
    <2>1. SignInTyped'
      BY <1>1 DEF Login, TakeSelectAccount, SignInv, SignInTyped, Ways
    <2>2. OneTry' /\ Away' /\ AtCallback'
      BY <1>1 DEF Login, SignInv, OneTry, AtLogin, Away, AtCallback
    <2>3. AtLogin'
      BY <1>1 DEF Login, SignInv, SignInTyped, AtLogin
    <2>4. QED
      BY <2>1, <2>2, <2>3 DEF SignInv
  <1>2. CASE LoginAgain
    <2>1. SignInTyped'
      BY <1>2 DEF LoginAgain, SignInv, SignInTyped, Ways
    <2>2. OneTry' /\ Away' /\ AtCallback'
      BY <1>2 DEF LoginAgain, SignInv, OneTry, AtLogin, Away, AtCallback
    <2>3. AtLogin'
      BY <1>2, CodesAre DEF LoginAgain, HasAction, SignAssumption, SignInv, SignInTyped, AtLogin
    <2>4. QED
      BY <2>1, <2>2, <2>3 DEF SignInv
  <1>3. QED
    BY <1>1, <1>2
-----------------------------------------------------------------------------
(* The callback screen. *)

\* An attempt is of the callback screen, alone, and Runs says where it is.
LEMMA TryRuns ==
    ASSUME SignInv, NEW t \in tries
    PROVE  /\ place = "callback" /\ tries = {t} /\ Runs(t)
           /\ t \in [n : Int, at : TrySteps, retry : Int]
           /\ error \notin {"not_allowed", "api_unavailable"}
  BY DEF SignInv, SignInTyped, OneTry, AtLogin, Away, AtCallback

\* What a step of the callback screen comes down to.
LEMMA CallbackStays ==
    ASSUME SignInv, place = "callback", place' = "callback",
           UNCHANGED <<errand, carried, address, oldLink, wanted, started, online>>,
           stored' \in BOOLEAN, silentRetry' \in BOOLEAN, selectAccount' \in BOOLEAN,
           kept' \in Here, attempt' \in Int, error' \in Codes \cup {NoError},
           tries' \in SUBSET [n : Int, at : TrySteps, retry : Int],
           \A t, u \in tries' : t = u,
           signedIn' \in BOOLEAN, hinted' \in BOOLEAN, starting' \in SUBSET Ways,
           stranded' \in BOOLEAN,
           AtCallback'
    PROVE  SignInv'
  <1>1. SignInTyped'
    BY DEF SignInv, SignInTyped
  <1>2. OneTry' /\ AtLogin' /\ Away'
    BY DEF OneTry, AtLogin, Away
  <1>3. QED
    BY <1>1, <1>2 DEF SignInv

\* A step that leaves one attempt t', which counts, and nothing that leaves.
LEMMA OneCounts ==
    ASSUME SignAssumption, SignInv, place = "callback", starting = {}, ~stranded,
           UNCHANGED <<Kept, kept, silentRetry, starting>>,
           stored' \in BOOLEAN, signedIn' \in BOOLEAN, hinted' = hinted, returnTo' = wanted,
           NEW u \in [n : Int, at : TrySteps, retry : Int], tries' = {u},
           u.n = attempt', attempt' \in Int, error' = ErrorOf(u),
           u.at = "begin" => stage' = "blank",
           u.at \in AtMe => stored' /\ signedIn' /\ ~oldLink
    PROVE  SignInv'
  <1>1. UNCHANGED <<place, errand, selectAccount, carried, address, oldLink, wanted, started, online, stranded>>
    BY DEF Kept
  <1>2. Current(u)' /\ Runs(u)'
    BY <1>1 DEF Runs, Current
  <1>3. /\ error' \in {"offline", "timeout", NoError}
        /\ error' = "offline" => u.at \in AtNetwork
    BY CodesAre DEF ErrorOf, SignAssumption
  <1>4. error' = "offline" => Waiting' # {}
    BY <1>3 DEF Waiting, AtNetwork
  <1>5. AtCallback'
    BY <1>1, <1>2, <1>3, <1>4, CodesAre DEF SignInv, AtCallback, SignAssumption
  <1>6. QED
    BY <1>1, <1>3, <1>5, CallbackStays, CodesAre DEF SignInv, SignInTyped

\* A step that leaves no attempt and shows e.
LEMMA NoneCounts ==
    ASSUME SignAssumption, SignInv, place = "callback",
           UNCHANGED <<Kept, returnTo>>, stored' \in BOOLEAN, signedIn' = signedIn, silentRetry' \in BOOLEAN,
           hinted' \in BOOLEAN, attempt' \in Int, tries' = {}, kept' \in Here,
           hinted => hinted',
           \/ /\ starting' = starting \cup {"signin"} /\ kept' = wanted
           \/ UNCHANGED <<starting, kept>>,
           error' \in Codes \cup {NoError},
           error' \in {NoError, "offline"} => stranded \/ starting' # {},
           error' = NoError => starting' # {},
           error' = "not_allowed" => ~stored' /\ hinted',
           error' = "api_unavailable" => stored' /\ signedIn /\ starting' = {} /\ ~oldLink /\ ~stranded
    PROVE  SignInv'
  <1>1. UNCHANGED <<place, errand, selectAccount, carried, address, oldLink, wanted, started, online, stranded>>
    BY DEF Kept
  <1>2. starting' \in SUBSET Ways
    BY DEF SignInv, SignInTyped, Ways
  <1>3. AtCallback'
    BY <1>1, <1>2 DEF SignInv, SignInTyped, AtCallback
  <1>4. QED
    BY <1>1, <1>2, <1>3, CallbackStays DEF SignInv, SignInTyped

\* An attempt that goes on, or is over, without counting: nothing it does is seen.
LEMMA GivenUpKeeps ==
    ASSUME SignAssumption, SignInv, NEW t \in tries, ~Current(t), tries' = {}, stored' \in BOOLEAN,
           UNCHANGED <<Kept, Asked, silentRetry, attempt, error, stage, signedIn, starting>>
    PROVE  SignInv'
  <1>1. place = "callback" /\ tries = {t} /\ error \notin {"not_allowed", "api_unavailable"}
    BY TryRuns
  <1>2. error = NoError => starting # {}
    BY <1>1 DEF SignInv, AtCallback
  <1>3. error = "offline" => stranded \/ starting # {}
    <2>1. t \notin Waiting
      BY TryRuns DEF Runs, Waiting, AtNetwork
    <2>2. Waiting = {}
      BY <1>1, <2>1 DEF Waiting
    <2>3. QED
      BY <1>1, <2>2 DEF SignInv, AtCallback
  <1>4. QED
    BY <1>1, <1>2, <1>3, NoneCounts DEF SignInv, SignInTyped, Asked
-----------------------------------------------------------------------------
(* The steps of an attempt. *)

\* What the handlers do to the one attempt there is.
LEMMA TryGoes ==
    ASSUME SignInv, NEW t \in tries
    PROVE  /\ tries \ {t} = {}
           /\ \A u : (tries \ {t}) \cup {u} = {u}
           /\ \A at \in TrySteps : /\ [t EXCEPT !.at = at] \in [n : Int, at : TrySteps, retry : Int]
                                /\ [t EXCEPT !.at = at].n = t.n
                                /\ [t EXCEPT !.at = at].at = at
  BY TryRuns

\* A new sign-in comes back to the page this one is for.
LEMMA RestartedKeeps ==
    ASSUME SignInv, place = "callback", Restarted
    PROVE  /\ attempt' = attempt + 1 /\ starting' = starting \cup {"signin"}
           /\ kept' = wanted /\ kept' \in Here
  BY ReturnPaths DEF Restarted, StartSignIn, SignInv, SignInTyped, AtCallback

LEMMA BeginKeeps ==
    ASSUME SignAssumption, SignInv, NEW t \in tries, Begin(t)
    PROVE  SignInv'
  <1>1. /\ place = "callback" /\ Runs(t) /\ t.at = "begin" /\ Current(t)
        /\ starting = {} /\ ~stranded /\ error = NoError
        /\ returnTo = wanted
    BY TryRuns DEF Begin, Runs, ErrorOf, AtNetwork, SignInv, AtCallback
  <1>2. \E at \in {"exchange", "waits to begin"} :
          /\ tries' = {[t EXCEPT !.at = at]}
          /\ error' = IF at = "exchange" THEN NoError ELSE "offline"
    BY <1>1, TryGoes DEF Begin, Goes, Show
  <1>3. PICK at \in {"exchange", "waits to begin"} :
          /\ tries' = {[t EXCEPT !.at = at]}
          /\ error' = IF at = "exchange" THEN NoError ELSE "offline"
    BY <1>2
  <1> DEFINE u == [t EXCEPT !.at = at]
  <1>4. u \in [n : Int, at : TrySteps, retry : Int] /\ u.n = attempt /\ u.at = at
    BY <1>1, TryGoes DEF TrySteps, AtNetwork, Current
  <1> HIDE DEF u
  <1>5. error' = ErrorOf(u) /\ u.at \notin AtMe \cup {"begin"}
    BY <1>3, <1>4 DEF ErrorOf, AtNetwork, AtMe
  <1>6. QED
    BY <1>1, <1>3, <1>4, <1>5, OneCounts DEF u, Begin, Asked, SignInv, SignInTyped

LEMMA BackOnlineKeeps ==
    ASSUME SignAssumption, SignInv, NEW t \in tries, BackOnline(t)
    PROVE  SignInv'
  <1>1. /\ place = "callback" /\ Runs(t) /\ t.at \in {"waits to begin", "waits to exchange"} /\ Current(t)
        /\ starting = {} /\ ~stranded /\ error = "offline"
        /\ returnTo = wanted /\ t \in [n : Int, at : TrySteps, retry : Int]
    BY TryRuns DEF BackOnline, Runs, ErrorOf, AtNetwork, SignInv, AtCallback
  <1>2. UNCHANGED <<Kept, returnTo, hinted, stored, silentRetry, signedIn>>
    BY DEF BackOnline
  <1>3. attempt \in Int /\ attempt + 1 \in Int
    BY DEF SignInv, SignInTyped
  <1>4. CASE oldCode
    <2>1. /\ tries' = {} /\ Restarted /\ error' \in {NoError, "offline"}
      BY <1>1, <1>4, TryGoes DEF BackOnline, Show
    <2>2. /\ attempt' \in Int /\ starting' = starting \cup {"signin"} /\ kept' = wanted /\ kept' \in Here
      BY <1>3, <1>1, <2>1, RestartedKeeps
    <2>3. error' \notin {"not_allowed", "api_unavailable"} /\ error' \in Codes \cup {NoError}
      BY <2>1, CodesAre DEF SignAssumption
    <2>4. /\ stored' \in BOOLEAN /\ silentRetry' \in BOOLEAN /\ hinted' \in BOOLEAN
          /\ (hinted => hinted') /\ signedIn' = signedIn
      BY <1>2 DEF SignInv, SignInTyped
    <2>5. QED
      BY <1>1, <1>2, <2>1, <2>2, <2>3, <2>4, NoneCounts
  <1>5. CASE ~oldCode
    <2>1. error' = NoError /\ stage' = "blank" /\ UNCHANGED <<starting, kept>>
      BY <1>5 DEF BackOnline, Show
    <2>2. \E u \in [n : Int, at : TrySteps, retry : Int] :
            tries' = {u} /\ u.n = attempt' /\ u.at \in {"exchange", "begin"} /\ attempt' \in Int
      <3>1. CASE t.at = "waits to begin"
        <4>1. tries' = {[t EXCEPT !.at = "exchange"]} /\ attempt' = attempt
          BY <1>5, <3>1, TryGoes DEF BackOnline, Goes
        <4>2. QED
          BY <1>1, <4>1, TryGoes DEF TrySteps, Current, SignInv, SignInTyped
      <3>2. CASE t.at = "waits to exchange"
        <4>1. tries' = {[t EXCEPT !.n = attempt + 1, !.at = "begin"]} /\ attempt' = attempt + 1
          BY <1>5, <3>2, TryGoes DEF BackOnline
        <4> DEFINE u == [t EXCEPT !.n = attempt + 1, !.at = "begin"]
        <4>2. u \in [n : Int, at : TrySteps, retry : Int] /\ u.n = attempt + 1 /\ u.at = "begin"
          BY <1>3, <1>1 DEF TrySteps
        <4>3. QED
          BY <1>3, <4>1, <4>2
      <3>3. QED
        BY <1>1, <3>1, <3>2
    <2>3. PICK u \in [n : Int, at : TrySteps, retry : Int] :
            tries' = {u} /\ u.n = attempt' /\ u.at \in {"exchange", "begin"} /\ attempt' \in Int
      BY <2>2
    <2>4. error' = ErrorOf(u) /\ u.at \notin AtMe
      BY <2>1, <2>3 DEF ErrorOf, AtNetwork, AtMe
    <2>5. QED
      BY <1>1, <1>2, <2>1, <2>3, <2>4, OneCounts DEF SignInv, SignInTyped
  <1>6. QED
    BY <1>4, <1>5

LEMMA ExchangedKeeps ==
    ASSUME SignAssumption, SignInv, NEW t \in tries, Exchanged(t)
    PROVE  SignInv'
  <1>1. /\ place = "callback" /\ Runs(t) /\ t.at = "exchange" /\ ~oldLink /\ stored' = TRUE
        /\ returnTo = wanted /\ carried = wanted
        /\ UNCHANGED <<Kept, kept, hinted, silentRetry, attempt, error, stage, starting>>
    BY TryRuns DEF Exchanged, HasAuthParams, SignInv, AtCallback
  <1>2. CASE ~Current(t)
    BY <1>1, <1>2, TryGoes, GivenUpKeeps DEF Exchanged, Asked
  <1>3. CASE Current(t)
    <2> DEFINE u == [t EXCEPT !.at = "me"]
    <2>1. /\ tries' = {u} /\ signedIn' = TRUE /\ returnTo' = wanted
          /\ starting = {} /\ ~stranded /\ error = NoError
      BY <1>1, <1>3, TryGoes, ReturnPaths DEF Exchanged, Goes, Runs, ErrorOf, AtNetwork, SignInv, SignInTyped
    <2>2. u \in [n : Int, at : TrySteps, retry : Int] /\ u.n = attempt /\ u.at = "me"
      BY <1>3, TryGoes DEF TrySteps, AtMe, Current
    <2> HIDE DEF u
    <2>3. error = ErrorOf(u)
      BY <2>1, <2>2 DEF ErrorOf, AtNetwork
    <2>4. QED
      BY <1>1, <2>1, <2>2, <2>3, OneCounts DEF SignInv, SignInTyped
  <1>4. QED
    BY <1>2, <1>3

LEMMA ExchangedLateKeeps ==
    ASSUME SignAssumption, SignInv, NEW t \in tries, ExchangedLate(t)
    PROVE  SignInv'
  <1>1. /\ place = "callback" /\ Runs(t) /\ t.at = "late" /\ stored' = TRUE /\ tries' = {}
        /\ UNCHANGED <<Kept, Asked, silentRetry, attempt, error, stage, signedIn, starting>>
    BY TryRuns, TryGoes DEF ExchangedLate
  <1>2. CASE ~Current(t)
    BY <1>1, <1>2, GivenUpKeeps
  <1>3. CASE Current(t)
    <2>1. error = "timeout"
      BY <1>1, <1>3 DEF Runs, ErrorOf, AtNetwork
    <2>2. QED
      BY <1>1, <2>1, NoneCounts DEF SignAssumption, Asked, SignInv, SignInTyped
  <1>4. QED
    BY <1>2, <1>3
\* An attempt that has got through: the app, with the page the tab came for.
LEMMA EnteringKeeps ==
    ASSUME SignInv, place = "callback", stored, GoesOnToTheApp(wanted)
    PROVE  SignInv'
  <1>1. SignInTyped'
    BY DEF GoesOnToTheApp, SignInv, SignInTyped
  <1>2. QED
    BY <1>1 DEF GoesOnToTheApp, SignInv, OneTry, AtLogin, Away, AtCallback

\* An error that ends the attempt: only a refused account is signed out.
LEMMA ShowsError ==
    ASSUME SignAssumption, SignInv, place = "callback", NEW e \in Codes \ {"offline"}, error' = e, tries' = {},
           stored' \in BOOLEAN, hinted' \in BOOLEAN, hinted => hinted', starting = {}, ~stranded,
           e = "not_allowed" => ~stored' /\ hinted',
           e = "api_unavailable" => stored' /\ signedIn /\ ~oldLink,
           UNCHANGED <<Kept, kept, returnTo, silentRetry, attempt, signedIn, starting>>
    PROVE  SignInv'
  <1>1. e # NoError
    BY CodesAre DEF SignAssumption
  <1>2. QED
    BY <1>1, NoneCounts DEF SignInv, SignInTyped

LEMMA ExchangeFailsKeeps ==
    ASSUME SignAssumption, SignInv, NEW t \in tries, NEW failure \in CallbackErrors,
           ExchangeFails(t, failure)
    PROVE  SignInv'
  <1>1. /\ place = "callback" /\ Runs(t) /\ t.at = "exchange" /\ returnTo = wanted
        /\ t \in [n : Int, at : TrySteps, retry : Int]
    BY TryRuns DEF ExchangeFails, SignInv, AtCallback
  <1>2. CASE ~Current(t)
    <2>1. /\ tries' = {} /\ stored' \in BOOLEAN
          /\ UNCHANGED <<Kept, Asked, silentRetry, attempt, error, stage, signedIn, starting>>
      BY <1>2, TryGoes DEF ExchangeFails, SignInv, SignInTyped
    <2>2. QED
      BY <1>2, <2>1, GivenUpKeeps
  <1>3. CASE Current(t)
    <2>1. starting = {} /\ ~stranded /\ error = NoError
      BY <1>1, <1>3 DEF Runs, ErrorOf, AtNetwork
    <2>2. CASE SessionIsAlive(failure)
      <3>1. GoesOnToTheApp(wanted)
        BY <1>1, <1>3, <2>2 DEF ExchangeFails
      <3>2. QED
        BY <1>1, <2>2, <3>1, EnteringKeeps DEF SessionIsAlive
    <2>3. CASE ~SessionIsAlive(failure) /\ TakesSilentRetry(failure)
      <3>1. /\ silentRetry' = TRUE /\ tries' = {} /\ Restarted
            /\ UNCHANGED <<Kept, returnTo, hinted, stored, error, signedIn>>
        BY <1>3, <2>3, TryGoes DEF ExchangeFails
      <3>2. attempt' \in Int /\ hinted \in BOOLEAN /\ stored \in BOOLEAN
        BY <1>1, <3>1, RestartedKeeps DEF SignInv, SignInTyped
      <3>3. starting' = starting \cup {"signin"} /\ kept' = wanted /\ kept' \in Here
        BY <1>1, <3>1, RestartedKeeps
      <3>4. error' \notin {"not_allowed", "api_unavailable"} /\ error' \in Codes \cup {NoError}
        BY <2>1, <3>1, CodesAre DEF SignAssumption
      <3>5. QED
        BY <1>1, <3>1, <3>2, <3>3, <3>4, NoneCounts
    <2>4. CASE ~SessionIsAlive(failure) /\ ~TakesSilentRetry(failure)
      <3>1. /\ error' = CodeOf(failure)
            /\ CASE failure = "offline" -> Goes(t, "waits to exchange")
                 [] failure = "timeout" -> Goes(t, "late")
                 [] OTHER -> tries' = tries \ {t}
            /\ UNCHANGED <<Kept, Asked, stored, silentRetry, attempt, signedIn, starting>>
        BY <1>3, <2>4 DEF ExchangeFails, Show
      <3>2. CASE failure \in {"offline", "timeout"}
        <4> DEFINE at == IF failure = "offline" THEN "waits to exchange" ELSE "late"
                   u == [t EXCEPT !.at = at]
        <4>1. tries' = {u} /\ at \in TrySteps /\ error' = failure
          BY <3>1, <3>2, TryGoes DEF Goes, CodeOf, TrySteps, AtNetwork
        <4>2. u \in [n : Int, at : TrySteps, retry : Int] /\ u.n = attempt /\ u.at = at
          BY <1>3, <4>1, TryGoes DEF Current
        <4>3. /\ failure = "offline" => at = "waits to exchange"
              /\ failure = "timeout" => at = "late"
          OBVIOUS
        <4> HIDE DEF u, at
        <4>4. error' = ErrorOf(u) /\ u.at \notin AtMe \cup {"begin"}
          BY <3>2, <4>1, <4>2, <4>3 DEF ErrorOf, AtNetwork, AtMe
        <4>5. QED
          BY <1>1, <2>1, <3>1, <4>1, <4>2, <4>4, OneCounts DEF Asked, SignInv, SignInTyped
      <3>3. CASE failure \notin {"offline", "timeout"}
        <4>1. tries' = {}
          BY <3>1, <3>3, TryGoes
        <4>2. CodeOf(failure) \in Codes \ {"offline", "not_allowed", "api_unavailable"}
          BY <3>3, CodesAre DEF CodeOf, CallbackErrors
        <4>3. QED
          BY <1>1, <2>1, <3>1, <4>1, <4>2, ShowsError DEF Asked, SignInv, SignInTyped
      <3>4. QED
        BY <3>2, <3>3
    <2>5. QED
      BY <2>2, <2>3, <2>4
  <1>4. QED
    BY <1>2, <1>3

LEMMA MeAnswersKeeps ==
    ASSUME SignAssumption, SignInv, NEW t \in tries, MeAnswers(t)
    PROVE  SignInv'
  <1>1. place = "callback" /\ Runs(t) /\ t.at = "me"
    BY TryRuns DEF MeAnswers
  <1>2. stored /\ carried = wanted
    BY <1>1 DEF Runs, AtMe, SignInv, AtCallback
  <1>3. CASE Current(t)
    <2>1. GoesOnToTheApp(wanted)
      BY <1>2, <1>3, ReturnPaths DEF MeAnswers, SignInv, SignInTyped
    <2>2. QED
      BY <1>1, <1>2, <2>1, EnteringKeeps
  <1>4. CASE ~Current(t)
    BY <1>2, <1>4, TryGoes, GivenUpKeeps DEF MeAnswers
  <1>5. QED
    BY <1>3, <1>4

LEMMA MeFailsKeeps ==
    ASSUME SignAssumption, SignInv, NEW t \in tries, NEW failure \in MeErrors, MeFails(t, failure)
    PROVE  SignInv'
  <1>1. /\ place = "callback" /\ Runs(t) /\ t.at = "me" /\ returnTo = wanted
        /\ t \in [n : Int, at : TrySteps, retry : Int] /\ stored /\ signedIn /\ ~oldLink
        /\ stored \in BOOLEAN /\ hinted \in BOOLEAN /\ signedIn \in BOOLEAN /\ attempt \in Int
    BY TryRuns DEF MeFails, Runs, AtMe, SignInv, AtCallback, SignInTyped
  <1>2. UNCHANGED <<Kept, kept, returnTo, silentRetry, attempt, signedIn, starting>>
    BY DEF MeFails
  <1>3. CASE ~Current(t)
    <2>1. tries' = {} /\ UNCHANGED <<error, stage, stored, hinted>>
      BY <1>3, TryGoes DEF MeFails
    <2>2. QED
      BY <1>1, <1>2, <1>3, <2>1, GivenUpKeeps DEF Asked
  <1>4. CASE Current(t)
    <2>1. starting = {} /\ ~stranded /\ error = NoError
      BY <1>1, <1>4 DEF Runs, ErrorOf, AtNetwork
    <2>2. CASE \E at \in {"waits for me", "pause"} :
                 /\ Goes(t, at) /\ UNCHANGED <<stored, hinted>>
                 /\ error' = IF at = "pause" THEN NoError ELSE "offline"
      <3>1. PICK at \in {"waits for me", "pause"} :
              /\ Goes(t, at) /\ UNCHANGED <<stored, hinted>>
              /\ error' = IF at = "pause" THEN NoError ELSE "offline"
        BY <2>2
      <3> DEFINE u == [t EXCEPT !.at = at]
      <3>2. tries' = {u} /\ at \in TrySteps
        BY <3>1, TryGoes DEF Goes, TrySteps, AtNetwork, AtMe
      <3>3. u \in [n : Int, at : TrySteps, retry : Int] /\ u.n = attempt /\ u.at = at
        BY <1>4, <3>2, TryGoes DEF Current
      <3> HIDE DEF u
      <3>4. error' = ErrorOf(u) /\ u.at # "begin"
        BY <3>1, <3>3 DEF ErrorOf, AtNetwork
      <3>5. QED
        BY <1>1, <1>2, <2>1, <3>1, <3>2, <3>3, <3>4, OneCounts
    <2>3. CASE /\ failure # "offline" /\ tries' = {} /\ error' = failure
               /\ stored' = (stored /\ ~(failure \in {"not_allowed", "token_failed"}))
               /\ hinted' = (hinted \/ failure \in {"not_allowed", "token_failed"})
      <3>1. failure \in Codes \ {"offline"}
        BY <2>3, CodesAre DEF MeErrors
      <3>2. /\ stored' \in BOOLEAN /\ hinted' \in BOOLEAN /\ (hinted => hinted')
            /\ failure = "not_allowed" => ~stored' /\ hinted'
            /\ failure = "api_unavailable" => stored'
        BY <1>1, <2>3
      <3>3. QED
        BY <1>1, <1>2, <2>1, <2>3, <3>1, <3>2, ShowsError
    <2>4. QED
      <3>1. \/ failure = "offline" /\ Show("offline") /\ Goes(t, "waits for me") /\ UNCHANGED <<stored, hinted>>
            \/ Goes(t, "pause") /\ UNCHANGED <<error, stored, hinted>>
            \/ /\ failure # "offline" /\ tries' = tries \ {t} /\ Show(failure)
               /\ stored' = (stored /\ ~(failure \in {"not_allowed", "token_failed"}))
               /\ hinted' = (hinted \/ failure \in {"not_allowed", "token_failed"})
        BY <1>4 DEF MeFails
      <3>2. QED
        BY <2>1, <2>2, <2>3, <3>1, TryGoes DEF Show
  <1>5. QED
    BY <1>3, <1>4

LEMMA AskMeAgainKeeps ==
    ASSUME SignAssumption, SignInv, NEW t \in tries, AskMeAgain(t)
    PROVE  SignInv'
  <1>1. /\ place = "callback" /\ Runs(t) /\ t.at \in {"waits for me", "pause"} /\ returnTo = wanted
        /\ t \in [n : Int, at : TrySteps, retry : Int] /\ stored /\ signedIn /\ ~oldLink
        /\ stored \in BOOLEAN /\ signedIn \in BOOLEAN /\ attempt \in Int
    BY TryRuns DEF AskMeAgain, Runs, AtMe, SignInv, AtCallback, SignInTyped
  <1>2. UNCHANGED <<Kept, Asked, stored, silentRetry, attempt, signedIn, starting>>
    BY DEF AskMeAgain
  <1>3. CASE Current(t)
    <2> DEFINE u == [t EXCEPT !.at = "me", !.retry = (@ + 1)]
    <2>1. tries' = {u}
      BY <1>3, TryGoes DEF AskMeAgain
    <2>2. u \in [n : Int, at : TrySteps, retry : Int] /\ u.n = attempt /\ u.at = "me"
      <3>1. t.retry \in Int /\ t.n = attempt
        BY <1>1, <1>3 DEF Current
      <3>2. "me" \in TrySteps
        BY DEF TrySteps, AtMe
      <3>3. t.retry + 1 \in Int
        BY <3>1
      <3>4. QED
        BY <1>1, <3>1, <3>2, <3>3
    <2> HIDE DEF u
    <2>3. starting = {} /\ ~stranded /\ error' = NoError
      BY <1>1, <1>3 DEF Runs, ErrorOf, AtNetwork, AskMeAgain, Show
    <2>4. error' = ErrorOf(u) /\ u.at # "begin"
      BY <2>2, <2>3 DEF ErrorOf, AtNetwork
    <2>5. QED
      BY <1>1, <1>2, <2>1, <2>2, <2>3, <2>4, OneCounts DEF Asked
  <1>4. CASE ~Current(t)
    <2>1. t.at = "pause"
      BY <1>1, <1>4 DEF Runs, AtNetwork
    <2>2. tries' = {} /\ UNCHANGED <<error, stage>>
      BY <1>4, <2>1, TryGoes DEF AskMeAgain
    <2>3. QED
      BY <1>1, <1>2, <1>4, <2>2, GivenUpKeeps
  <1>5. QED
    BY <1>3, <1>4
-----------------------------------------------------------------------------
(* The rest of the screen. *)

\* Whatever runs is given up by what counts up the attempts.
LEMMA GivesUp ==
    ASSUME SignInv, place = "callback", attempt' = attempt + 1,
           UNCHANGED <<tries, stage, oldLink>>, stored' = stored, signedIn' = signedIn,
           \A t \in tries : t.at \notin {"begin"} \cup AtNetwork
    PROVE  \A t \in tries' : Runs(t)'
  <1> SUFFICES ASSUME NEW t \in tries PROVE Runs(t)'
    OBVIOUS
  <1>1. Runs(t) /\ t.n \in Int /\ attempt \in Int
    BY TryRuns DEF SignInv, SignInTyped
  <1>2. QED
    BY <1>1 DEF Runs, Current

LEMMA ScreenKeeps ==
    ASSUME SignAssumption, SignInv, Waits \/ StartOver
    PROVE  SignInv'
  <1>1. place = "callback" /\ error = NoError
    BY DEF Waits, StartOver
  <1>2. CASE Waits
    <2>1. /\ \A t \in tries : t.at # "begin"
          /\ UNCHANGED <<Kept, Asked, stored, silentRetry, tries, attempt, error, signedIn, starting>>
      BY <1>2 DEF Waits
    <2>2. SignInTyped' /\ OneTry' /\ AtLogin' /\ Away'
      BY <2>1 DEF Kept, Asked, SignInv, SignInTyped, OneTry, AtLogin, Away
    <2>3. \A t \in tries : Runs(t)'
      BY <1>1, <2>1, TryRuns DEF Kept, Runs, Current
    <2>4. AtCallback'
      BY <1>1, <2>1, <2>3 DEF Kept, Asked, SignInv, AtCallback, Current, Waiting
    <2>5. QED
      BY <2>2, <2>4 DEF SignInv
  <1>3. CASE StartOver
    <2>1. /\ stage = "slow" /\ Restarted
          /\ UNCHANGED <<Kept, returnTo, hinted, stored, silentRetry, tries, error, stage, signedIn>>
      BY <1>3 DEF StartOver
    <2>2. /\ attempt' = attempt + 1 /\ starting' = starting \cup {"signin"} /\ kept' = wanted /\ kept' \in Here
      BY <1>1, <2>1, RestartedKeeps
    <2>3. \A t \in tries' : Runs(t)'
      <3>1. \A t \in tries : t.at \notin {"begin"} \cup AtNetwork
        BY <1>1, <2>1, CodesAre, TryRuns DEF Runs, ErrorOf, SignAssumption
      <3>2. QED
        BY <1>1, <2>1, <2>2, <3>1, GivesUp DEF Kept
    <2>4. AtCallback'
      BY <1>1, <2>1, <2>2, <2>3, CodesAre DEF Kept, SignInv, AtCallback, SignAssumption
    <2>5. attempt' \in Int /\ starting' \in SUBSET Ways
      BY <2>2 DEF SignInv, SignInTyped, Ways
    <2>6. SignInTyped' /\ OneTry' /\ AtLogin' /\ Away'
      BY <1>1, <2>1, <2>2, <2>5 DEF Kept, SignInv, SignInTyped, OneTry, AtLogin, Away
    <2>7. QED
      BY <2>4, <2>6 DEF SignInv
  <1>4. QED
    BY <1>2, <1>3

\* Every error has its button or its details, but for losing the network, which needs neither.
LEMMA ScreensAre ==
    /\ ~HasAction(NoError) /\ ~HasAction("offline")
    /\ \A code \in Codes \ {"offline"} : HasAction(code) \/ code = NoError \/ ErrorScreens[code].details
  <1>1. ErrorScreens["offline"].action = "none"
    BY DEF ErrorScreens, ErrorScreen
  <1>2. ErrorScreens["misconfigured"].details
    BY DEF ErrorScreens, ErrorScreen
  <1>3. \A code \in Codes \ {"offline", "misconfigured"} : ErrorScreens[code].action # "none"
    <2>1. ErrorScreens["cancelled"].action = "try again"
      BY DEF ErrorScreens, ErrorScreen
    <2>2. ErrorScreens["state_mismatch"].action = "sign in again"
      BY DEF ErrorScreens, ErrorScreen
    <2>3. ErrorScreens["not_allowed"].action = "use another account"
      BY DEF ErrorScreens, ErrorScreen
    <2>4. ErrorScreens["token_failed"].action = "try again"
      BY DEF ErrorScreens, ErrorScreen, CouldNotSignIn
    <2>5. ErrorScreens["idp_error"].action = "try again"
      BY DEF ErrorScreens, ErrorScreen, CouldNotSignIn
    <2>6. ErrorScreens["timeout"].action = "try again"
      BY DEF ErrorScreens, ErrorScreen, CouldNotSignIn
    <2>7. ErrorScreens["api_unavailable"].action = "retry"
      BY DEF ErrorScreens, ErrorScreen
    <2>8. QED
      BY <2>1, <2>2, <2>3, <2>4, <2>5, <2>6, <2>7, CodesAre
  <1>4. ~HasAction(NoError) /\ ~HasAction("offline")
    BY <1>1 DEF HasAction
  <1>5. \A code \in Codes \ {"offline", "misconfigured"} : HasAction(code) \/ code = NoError
    BY <1>3 DEF HasAction
  <1>6. QED
    BY <1>2, <1>4, <1>5

LEMMA ActKeeps ==
    ASSUME SignAssumption, SignInv, Act
    PROVE  SignInv'
  <1>1. /\ place = "callback" /\ HasAction(error) /\ error \notin {NoError, "offline"}
        /\ UNCHANGED <<place, errand, stored, silentRetry, carried, address, wanted, returnTo, oldLink,
                       hinted, started, signedIn, online, stranded>>
    BY ScreensAre DEF Act
  <1>2. attempt \in Int /\ attempt + 1 \in Int
    BY DEF SignInv, SignInTyped
  <1>3. CASE error = "not_allowed"
    <2>1. /\ starting' = starting \cup {"signout"} /\ selectAccount' = TRUE
          /\ UNCHANGED <<kept, tries, attempt, error, stage>>
      BY <1>3 DEF Act, SwitchAccount
    <2>2. tries = {} /\ hinted /\ ~stored
      BY <1>1, <1>3 DEF SignInv, AtCallback
    <2>3. AtCallback'
      BY <1>1, <1>3, <2>1, <2>2 DEF SignInv, AtCallback
    <2>4. starting' \in SUBSET Ways
      BY <2>1 DEF SignInv, SignInTyped, Ways
    <2>5. SignInTyped' /\ OneTry' /\ AtLogin' /\ Away'
      BY <1>1, <2>1, <2>4 DEF SignInv, SignInTyped, OneTry, AtLogin, Away
    <2>6. QED
      BY <2>3, <2>5 DEF SignInv
  <1>4. CASE error = "api_unavailable"
    <2> DEFINE u == [n |-> attempt + 1, at |-> "me", retry |-> 0]
    <2>1. /\ stored /\ signedIn /\ tries = {} /\ starting = {} /\ ~oldLink /\ ~stranded
          /\ stored \in BOOLEAN /\ signedIn \in BOOLEAN /\ returnTo = wanted
      BY <1>1, <1>4 DEF SignInv, AtCallback, SignInTyped
    <2>2. /\ attempt' = attempt + 1 /\ error' = NoError /\ tries' = {u}
          /\ UNCHANGED <<selectAccount, starting, kept>>
      BY <1>4, <2>1 DEF Act, Show
    <2>3. u \in [n : Int, at : TrySteps, retry : Int] /\ u.n = attempt + 1 /\ u.at = "me"
      BY <1>2 DEF TrySteps, AtMe
    <2> HIDE DEF u
    <2>4. error' = ErrorOf(u)
      BY <2>2, <2>3 DEF ErrorOf, AtNetwork
    <2>5. UNCHANGED Kept
      BY <1>4, <2>2 DEF Act, Kept
    <2>6. QED
      BY <1>1, <1>2, <2>1, <2>2, <2>3, <2>4, <2>5, OneCounts
  <1>5. CASE error \notin {"not_allowed", "api_unavailable"}
    <2>1. Restarted /\ UNCHANGED <<tries, selectAccount, error, stage>>
      BY <1>5 DEF Act
    <2>2. /\ attempt' = attempt + 1 /\ starting' = starting \cup {"signin"} /\ kept' = wanted /\ kept' \in Here
      BY <1>1, <2>1, RestartedKeeps
    <2>3. \A t \in tries' : Runs(t)'
      <3>1. \A t \in tries : t.at \notin {"begin"} \cup AtNetwork
        <4> SUFFICES ASSUME NEW t \in tries, t.at \in {"begin"} \cup AtNetwork PROVE FALSE
          OBVIOUS
        <4>1. error = ErrorOf(t)
          BY TryRuns DEF Runs
        <4>2. ErrorOf(t) \in {NoError, "offline"}
          BY DEF ErrorOf, AtNetwork
        <4>3. QED
          BY <1>1, <4>1, <4>2
      <3>2. QED
        BY <1>1, <2>1, <2>2, <3>1, GivesUp
    <2>4. AtCallback'
      BY <1>1, <1>5, <2>1, <2>2, <2>3 DEF SignInv, AtCallback
    <2>5. attempt' \in Int /\ starting' \in SUBSET Ways
      BY <1>2, <2>2 DEF SignInv, SignInTyped, Ways
    <2>6. SignInTyped' /\ OneTry' /\ AtLogin' /\ Away'
      BY <1>1, <2>1, <2>2, <2>5 DEF SignInv, SignInTyped, OneTry, AtLogin, Away
    <2>7. QED
      BY <2>4, <2>6 DEF SignInv
  <1>6. QED
    BY <1>3, <1>4, <1>5

\* The network and the age of the code are of no screen.
LEMMA AroundKeeps ==
    ASSUME SignInv, NetworkFlips \/ CodeAges \/ UNCHANGED signVars
    PROVE  SignInv'
  <1>1. UNCHANGED <<tab, started, tries, attempt, error, stage, signedIn, starting, returnTo, oldLink,
                    hinted, stranded>> /\ online' \in BOOLEAN
    BY DEF NetworkFlips, CodeAges, signVars, page, SignInv, SignInTyped
  <1>2. SignInTyped' /\ OneTry' /\ AtLogin' /\ Away'
    BY <1>1 DEF tab, SignInv, SignInTyped, OneTry, AtLogin, Away
  <1>3. AtCallback'
    BY <1>1 DEF tab, SignInv, AtCallback, Runs, Current, Waiting
  <1>4. QED
    BY <1>2, <1>3 DEF SignInv
-----------------------------------------------------------------------------
(* Signing in. *)

LEMMA SignStep ==
    ASSUME SignAssumption, SignInv, [SignNext]_signVars
    PROVE  SignInv'
  <1>1. CASE Return \/ OldCallback \/ \E path \in Paths : SessionEnds(path)
    BY <1>1, LoadKeeps
  <1>2. CASE Login \/ LoginAgain
    BY <1>2, LoginKeeps
  <1>3. ASSUME NEW what \in Ways, Leave(what) \/ LeaveFails(what)
        PROVE  SignInv'
    BY <1>3, LeaveKeeps, LeaveFailsKeeps
  <1>4. CASE Waits \/ StartOver
    BY <1>4, ScreenKeeps
  <1>5. CASE Act
    BY <1>5, ActKeeps
  <1>6. CASE NetworkFlips \/ CodeAges \/ UNCHANGED signVars
    BY <1>6, AroundKeeps
  <1>7. ASSUME NEW t \in tries, \/ Begin(t) \/ BackOnline(t) \/ Exchanged(t) \/ ExchangedLate(t)
                                \/ MeAnswers(t) \/ AskMeAgain(t)
        PROVE  SignInv'
    BY <1>7, BeginKeeps, BackOnlineKeeps, ExchangedKeeps, ExchangedLateKeeps, MeAnswersKeeps,
       AskMeAgainKeeps
  <1>8. ASSUME NEW t \in tries, NEW failure \in CallbackErrors, ExchangeFails(t, failure)
        PROVE  SignInv'
    BY <1>8, ExchangeFailsKeeps
  <1>9. ASSUME NEW t \in tries, NEW failure \in MeErrors, MeFails(t, failure)
        PROVE  SignInv'
    BY <1>9, MeFailsKeeps
  <1>10. QED
    BY <1>1, <1>2, <1>3, <1>4, <1>5, <1>6, <1>7, <1>8, <1>9 DEF SignNext, Ways

\* app/auth for any pages and any number of round trips, attempts, retries and changes of the
\* network: one attempt runs at most and one that waits counts, no screen waits for what cannot
\* come, a refused account is signed out and nobody enters the app without a session, and the tab
\* comes to the page its sign-in was asked for from.
THEOREM SigningInAgrees ==
    ASSUME SignAssumption
    PROVE  SignSpec => []SignInAgrees
  <1>1. SignInit => SignInv
    <2> SUFFICES ASSUME SignInit PROVE SignInv
      OBVIOUS
    <2>1. returnTo \in Here /\ wanted = returnTo
      BY ReturnPaths DEF SignInit, LoginInit
    <2>2. /\ place = "login" /\ errand = "signin" /\ stored \in BOOLEAN /\ silentRetry = FALSE
          /\ selectAccount = FALSE /\ kept = Home /\ started = FALSE /\ tries = {} /\ attempt = 1
          /\ error = NoError /\ signedIn = FALSE /\ hinted = FALSE /\ oldLink = FALSE
          /\ starting = {} /\ stranded = FALSE /\ online = TRUE
      BY DEF SignInit, StorageInit, ScreenInit
    <2>3. tries \in SUBSET [n : Int, at : TrySteps, retry : Int] /\ kept \in Here /\ errand \in Ways
      BY <2>2 DEF Here, Ways
    <2>4. SignInTyped
      <3>1. /\ place \in {"login", "callback", "app", "authentik"}
            /\ silentRetry \in BOOLEAN /\ selectAccount \in BOOLEAN /\ wanted \in Here
        BY <2>1, <2>2
      <3>2. attempt \in Int /\ error \in Codes \cup {NoError} /\ starting \in SUBSET Ways
        BY <2>2
      <3>3. /\ signedIn \in BOOLEAN /\ hinted \in BOOLEAN /\ oldLink \in BOOLEAN
            /\ started \in BOOLEAN /\ stranded \in BOOLEAN /\ online \in BOOLEAN
        BY <2>2
      <3>4. QED
        BY <2>2, <2>3, <3>1, <3>2, <3>3 DEF SignInTyped
    <2>5. QED
      BY <2>1, <2>2, <2>4, CodesAre DEF SignAssumption, SignInv, OneTry, AtLogin, Away, AtCallback
  <1>2. SignInv /\ [SignNext]_signVars => SignInv'
    BY SignStep
  <1>3. SignInv => SignInAgrees
    <2> SUFFICES ASSUME SignInv PROVE SignInAgrees
      OBVIOUS
    <2>1. OneAttemptCounts
      <3>1. CASE tries = {}
        BY <3>1, FS_EmptySet DEF OneAttemptCounts, Waiting
      <3>2. ASSUME NEW t \in tries PROVE OneAttemptCounts
        <4>1. tries = {t} /\ Runs(t)
          BY TryRuns
        <4>2. Cardinality(tries) = 1
          BY <4>1, FS_Singleton
        <4>3. \A u \in Waiting : Current(u)
          BY <4>1 DEF Waiting, Runs, AtNetwork
        <4>4. QED
          BY <4>2, <4>3 DEF OneAttemptCounts
      <3>3. QED
        BY <3>1, <3>2
    <2>2. NothingWaitsForNothing
      <3>1. error \notin {NoError, "offline"} => HasAction(error) \/ ErrorScreens[error].details
        BY ScreensAre DEF SignInv, SignInTyped
      <3>2. QED
        BY <3>1 DEF NothingWaitsForNothing, SignInv, AtLogin, AtCallback
    <2>3. OnlyTheAllowedEnter
      BY DEF OnlyTheAllowedEnter, SignInv, SignInTyped, AtLogin, Away, AtCallback
    <2>4. ComesBack
      BY DEF ComesBack, SignInv, AtLogin, Away, AtCallback, Runs, AtMe
    <2>5. QED
      BY <2>1, <2>2, <2>3, <2>4 DEF SignInAgrees
  <1>4. QED
    BY <1>1, <1>2, <1>3, PTL DEF SignSpec
-----------------------------------------------------------------------------
(* The frame.                                                              *)

\* Preferences within their bounds.
InRange == [sidebarWidth : SidebarMin .. SidebarMax, sidebarCollapsed : BOOLEAN,
            panelWidth : PanelMin .. PanelMax]

ShellTyped ==
    /\ vw \in Nat /\ prefs \in InRange
    /\ panelOpen \in BOOLEAN /\ peek \in BOOLEAN /\ cut \in BOOLEAN /\ prefsHeard \in BOOLEAN
    /\ gesture \in Gestures \cup {Absent} /\ draft \in InRange \cup {Absent}
    /\ storedPrefs \in Preferences \cup {Absent}
    /\ focus \in Parts /\ before \in (Parts \ {"pages"}) \cup {Absent}

\* The layout is what some earlier one, the window and the preferences come to.
LayoutIsResolved == \E previous : layout = ResolveShell(vw, prefs, panelOpen, previous)

\* A gesture's border is on screen, and only the sidebar's snaps.
GestureHasBorder ==
    gesture # Absent => /\ HasBorder(gesture.side, layout, peek, panelOpen)
                        /\ gesture.side = "panel" => ~gesture.snapped

\* What a gesture has reached goes with the gesture, unless it was cut short.
DraftIsOfGesture == draft # Absent => gesture # Absent \/ cut

ShellInv ==
    /\ ShellTyped /\ LayoutIsResolved /\ GestureHasBorder
    /\ PartsAreThere /\ DraftIsOfGesture /\ SettledIsStored

-----------------------------------------------------------------------------
\* Clamped, a number is between its bounds, and is itself if it was.
LEMMA ClampIsBetween ==
  ASSUME NEW v \in Int, NEW low \in Int, NEW high \in Int, low <= high
  PROVE  /\ Clamp(v, low, high) \in low .. high
         /\ v \in low .. high => Clamp(v, low, high) = v
  BY DEF Clamp, Lesser, Greater

\* Clamped, preferences are in range, and are themselves if they were.
LEMMA ClampedPrefs ==
  ASSUME NEW p \in Preferences
  PROVE  /\ ClampPrefs(p) \in InRange
         /\ p \in InRange => ClampPrefs(p) = p
         /\ ClampPrefs(p).sidebarCollapsed = p.sidebarCollapsed
  <1>1. /\ Clamp(p.sidebarWidth, SidebarMin, SidebarMax) \in SidebarMin .. SidebarMax
        /\ p \in InRange => Clamp(p.sidebarWidth, SidebarMin, SidebarMax) = p.sidebarWidth
    <2>1. p.sidebarWidth \in Int /\ (p \in InRange => p.sidebarWidth \in SidebarMin .. SidebarMax)
      BY DEF Preferences, InRange
    <2>2. SidebarMin \in Int /\ SidebarMax \in Int /\ SidebarMin <= SidebarMax
      BY DEF SidebarMin, SidebarMax
    <2>3. QED
      BY <2>1, <2>2, ClampIsBetween
  <1>2. /\ Clamp(p.panelWidth, PanelMin, PanelMax) \in PanelMin .. PanelMax
        /\ p \in InRange => Clamp(p.panelWidth, PanelMin, PanelMax) = p.panelWidth
    <2>1. p.panelWidth \in Int /\ (p \in InRange => p.panelWidth \in PanelMin .. PanelMax)
      BY DEF Preferences, InRange
    <2>2. PanelMin \in Int /\ PanelMax \in Int /\ PanelMin <= PanelMax
      BY DEF PanelMin, PanelMax
    <2>3. QED
      BY <2>1, <2>2, ClampIsBetween
  <1>3. QED
    BY <1>1, <1>2 DEF ClampPrefs, Prefs, InRange, Preferences

\* Preferences in range are preferences, and the defaults are in range.
LEMMA InRangeIsPrefs == InRange \subseteq Preferences /\ DefaultPrefs \in InRange
  BY DEF InRange, Preferences, DefaultPrefs, Prefs, SidebarMin, SidebarMax, PanelMin, PanelMax

\* Whatever the browser kept, what is read of it is in range.
LEMMA ReadIsInRange ==
  ASSUME NEW raw \in Preferences \cup {Absent}
  PROVE  ReadPrefs(raw) \in InRange
  BY ClampedPrefs, InRangeIsPrefs DEF ReadPrefs

\* What is remembered is read back as it was.
LEMMA RememberedIsRead ==
  ASSUME NEW p \in Preferences
  PROVE  ReadPrefs(ClampPrefs(p)) = ClampPrefs(p) /\ ClampPrefs(p) \in Preferences
  BY ClampedPrefs, InRangeIsPrefs, ShellAssumption DEF ReadPrefs

\* The mode of the sidebar: in a window outside the band it does not depend on the one before.
LEMMA ModeOfSidebar ==
  ASSUME NEW w \in Nat, NEW p \in InRange, NEW previous
  PROVE  LET mode == SidebarMode(w, p, previous)
         IN  /\ mode \in {"auto-collapsed", "collapsed", "expanded"}
             /\ mode = "auto-collapsed" => w < BpSidebar + Hysteresis
             /\ mode # "auto-collapsed" =>
                  w >= BpSidebar /\ mode = IF p.sidebarCollapsed THEN "collapsed" ELSE "expanded"
             /\ w < BpSidebar \/ w >= BpSidebar + Hysteresis => mode = SidebarMode(w, p, NoLayout)
  BY DEF SidebarMode, BpSidebar, Hysteresis, NoLayout, ShellLayout, InRange

\* Resolved again, the sidebar keeps its mode.
LEMMA ModeIsStable ==
  ASSUME NEW w \in Nat, NEW p \in InRange, NEW q \in InRange, NEW open, NEW previous, NEW l,
         l = ResolveShell(w, p, open, previous)
  PROVE  /\ l.sidebar = SidebarMode(w, p, previous)
         /\ q.sidebarCollapsed = p.sidebarCollapsed => SidebarMode(w, q, l) = l.sidebar
         /\ l.sidebar # "auto-collapsed" => SidebarMode(w, q, l) # "auto-collapsed"
  <1>1. l.sidebar = SidebarMode(w, p, previous)
    BY DEF ResolveShell, ShellLayout
  <1>2. QED
    BY <1>1, ModeOfSidebar DEF SidebarMode, BpSidebar, Hysteresis, InRange

\* The columns of a layout fill the window, and a docked panel leaves the canvas its minimum.
RoomIn(l, w) ==
  /\ Columns(l).sidebar + Columns(l).panel + l.canvasPx = w
  /\ l.panel = "docked" => l.canvasPx >= CanvasMin /\ l.panelPx >= PanelMin
  /\ l.panel = "overlay" => l.sidebarPx + l.panelPx <= Greater(w, l.sidebarPx)

\* So they do in whatever is resolved, from whatever layout before.
LEMMA ResolvedKeepsRoom ==
  ASSUME NEW w \in Nat, NEW p \in InRange, NEW open \in BOOLEAN, NEW previous
  PROVE  RoomIn(ResolveShell(w, p, open, previous), w)
  <1> DEFINE side == IF SidebarMode(w, p, previous) = "expanded" THEN p.sidebarWidth ELSE SidebarCollapsed
             room == w - side - CanvasMin
             docked == Lesser(p.panelWidth, room)
             overlay == Greater(0, Lesser(p.panelWidth, w - side - OverlayGutter))
             l == ResolveShell(w, p, open, previous)
  <1>1. side \in Nat /\ p.panelWidth \in Nat /\ p.panelWidth >= 360
    BY DEF InRange, SidebarCollapsed, SidebarMin, SidebarMax, PanelMin, PanelMax
  <1>2. CASE ~open
    <2>1. l.sidebarPx = side /\ l.panel = "closed" /\ l.canvasPx = w - side
      BY <1>2 DEF ResolveShell, ShellLayout
    <2>2. QED
      BY <1>1, <2>1 DEF RoomIn, Columns
  <1>3. CASE open /\ Docks(w, room, previous)
    <2>1. l.sidebarPx = side /\ l.panel = "docked" /\ l.panelPx = docked /\ l.canvasPx = w - side - docked
      BY <1>3 DEF ResolveShell, ShellLayout
    <2>2. room >= 360
      BY <1>3 DEF Docks, PanelMin
    <2>3. QED
      BY <1>1, <2>1, <2>2 DEF RoomIn, Columns, Lesser, CanvasMin, PanelMin
  <1>4. CASE open /\ ~Docks(w, room, previous)
    <2>1. l.sidebarPx = side /\ l.panel = "overlay" /\ l.panelPx = overlay /\ l.canvasPx = w - side
      BY <1>4 DEF ResolveShell, ShellLayout
    <2>2. QED
      BY <1>1, <2>1 DEF RoomIn, Columns, Lesser, Greater, OverlayGutter
  <1>5. QED
    BY <1>2, <1>3, <1>4

\* The invariant says what the frame keeps.
LEMMA ShellInvHolds == ShellInv => FrameHolds
  <1> SUFFICES ASSUME ShellInv PROVE FrameHolds
    OBVIOUS
  <1>1. PICK previous : layout = ResolveShell(vw, prefs, panelOpen, previous)
    BY DEF ShellInv, LayoutIsResolved
  <1>2. vw \in Nat /\ prefs \in InRange /\ panelOpen \in BOOLEAN
    BY DEF ShellInv, ShellTyped
  <1>3. RoomIn(layout, vw) /\ RoomIn(Painted, vw)
    BY <1>1, <1>2, ResolvedKeepsRoom DEF ShellInv, ShellTyped, Painted
  <1>4. CanvasKeepsItsRoom
    BY <1>3 DEF CanvasKeepsItsRoom, RoomIn
  <1>5. WideIsAsItWas
    BY <1>1, <1>2, ModeIsStable, ModeOfSidebar DEF WideIsAsItWas
  <1>6. QED
    BY <1>4, <1>5 DEF ShellInv, FrameHolds

-----------------------------------------------------------------------------
\* The frame as it begins.
LEMMA ShellInvInit == ShellInit => ShellInv
  <1> SUFFICES ASSUME ShellInit PROVE ShellInv
    OBVIOUS
  <1> USE DEF ShellInit, StoreInit, HandsInit, FocusInit
  <1>1. ShellTyped
    BY ReadIsInRange, ShellAssumption DEF ShellTyped, Parts
  <1>2. LayoutIsResolved
    BY DEF LayoutIsResolved
  <1>3. PartsAreThere /\ GestureHasBorder /\ DraftIsOfGesture /\ SettledIsStored
    BY DEF PartsAreThere, GestureHasBorder, DraftIsOfGesture, SettledIsStored, OnRail
  <1>4. QED
    BY <1>1, <1>2, <1>3 DEF ShellInv

\* The frame laid out again, for another window, other preferences or another peek.
LEMMA RelayoutKeeps ==
  ASSUME ShellInv, NEW w \in Nat, NEW p \in InRange, NEW open \in BOOLEAN, NEW asked \in BOOLEAN,
         Relayout(w, p, open, asked),
         asked /\ ~peek => layout.sidebar # "expanded",
         draft' \in {draft, Absent}, prefsHeard' \in BOOLEAN,
         storedPrefs' \in Preferences \cup {Absent},
         \/ p = ReadPrefs(storedPrefs')
         \/ p = prefs /\ storedPrefs' = storedPrefs /\ prefsHeard' = prefsHeard
  PROVE  ShellInv'
  <1> DEFINE l == ResolveShell(w, p, open, layout)
             over == PeekFor(l, asked)
  <1> USE DEF ShellInv
  <1>1. /\ vw' = w /\ prefs' = p /\ panelOpen' = open /\ layout' = l /\ peek' = over
        /\ BordersLeave(l, over, open)
        /\ before' = IF over THEN (IF peek THEN before ELSE FocusAcrossRail(FALSE)) ELSE Absent
        /\ focus' = FocusFromPanel(FocusFromPeek(FocusAcrossRail(Rail(l, over)), over), open)
    BY DEF Relayout
  <1>2. over \in BOOLEAN /\ (over => l.sidebar # "expanded" /\ asked)
    BY DEF PeekFor
  <1>3. /\ gesture' = gesture \/ gesture' = Absent
        /\ gesture' # Absent => gesture' = gesture /\ HasBorder(gesture.side, l, over, open)
        /\ gesture # Absent /\ gesture' = Absent => cut'
        /\ cut => cut' /\ (gesture' = gesture => cut' = cut)
        /\ cut' \in BOOLEAN
    BY <1>1 DEF BordersLeave, ShellTyped
  <1>4. peek \/ ~over \/ focus # "pages"
    <2>1. ~peek /\ over => Rail(layout, peek)
      BY <1>2 DEF Rail
    <2>2. QED
      BY <2>1 DEF PartsAreThere, OnRail
  <1>5. before' \in (Parts \ {"pages"}) \cup {Absent} /\ (before' # Absent => over)
    BY <1>1, <1>2, <1>4, ShellAssumption DEF ShellTyped, FocusAcrossRail, PartsAreThere
  <1>6. /\ focus' \in Parts /\ (focus' = "panel" => open)
        /\ Rail(l, over) => focus' # "pages"
    BY <1>1, <1>2, ShellAssumption
       DEF FocusFromPanel, FocusFromPeek, FocusAcrossRail, ShellTyped, Parts, OnRail, SidebarParts
  <1>7. ShellTyped'
    BY <1>1, <1>2, <1>3, <1>5, <1>6 DEF ShellTyped
  <1>8. LayoutIsResolved'
    BY <1>1 DEF LayoutIsResolved
  <1>9. GestureHasBorder'
    BY <1>1, <1>3 DEF GestureHasBorder
  <1>10. PartsAreThere'
    BY <1>1, <1>2, <1>5, <1>6 DEF PartsAreThere, OnRail, Rail
  <1>11. DraftIsOfGesture'
    BY <1>3 DEF DraftIsOfGesture, ShellTyped
  <1>12. SettledIsStored'
    <2> SUFFICES ASSUME gesture' = Absent, prefsHeard', ~cut'
                 PROVE  prefs' = ReadPrefs(storedPrefs') /\ draft' = Absent
      BY DEF SettledIsStored
    <2>1. gesture = Absent /\ ~cut
      BY <1>3
    <2>2. draft' = Absent
      BY <2>1 DEF DraftIsOfGesture
    <2>3. QED
      BY <1>1, <2>1, <2>2 DEF SettledIsStored
  <1>13. QED
    BY <1>7, <1>8, <1>9, <1>10, <1>11, <1>12

\* The same with the preferences remembered.
LEMMA CommitKeeps ==
  ASSUME ShellInv, NEW p \in Preferences, CommitPrefs(p), draft' \in {draft, Absent}
  PROVE  ShellInv'
  <1>1. /\ ClampPrefs(p) \in InRange /\ ClampPrefs(p) \in Preferences
        /\ ReadPrefs(ClampPrefs(p)) = ClampPrefs(p)
    BY ClampedPrefs, RememberedIsRead
  <1>2. Relayout(vw, ClampPrefs(p), panelOpen, peek) /\ storedPrefs' = ClampPrefs(p)
    BY DEF CommitPrefs, SyncPrefs, WritePrefs
  <1>3. /\ vw \in Nat /\ panelOpen \in BOOLEAN /\ peek \in BOOLEAN /\ prefsHeard \in BOOLEAN
        /\ prefsHeard' = prefsHeard
    BY DEF ShellInv, ShellTyped, CommitPrefs
  <1>4. QED
    BY <1>1, <1>2, <1>3, RelayoutKeeps

\* What lays the frame out again and keeps the preferences.
LEMMA SameFrameKeeps ==
  ASSUME ShellInv, NEW w \in Nat, NEW open \in BOOLEAN, NEW asked \in BOOLEAN,
         Relayout(w, prefs, open, asked),
         asked /\ ~peek => layout.sidebar # "expanded",
         draft' = draft, UNCHANGED storage
  PROVE  ShellInv'
  <1>1. /\ prefs \in InRange /\ prefsHeard \in BOOLEAN /\ storedPrefs \in Preferences \cup {Absent}
        /\ storedPrefs' = storedPrefs /\ prefsHeard' = prefsHeard
    BY DEF ShellInv, ShellTyped, storage
  <1>2. QED
    BY <1>1, RelayoutKeeps

\* A gesture starts on a border that is on screen.
LEMMA StartKeeps ==
  ASSUME ShellInv, NEW side \in {"sidebar", "panel"}, StartGesture(side)
  PROVE  ShellInv'
  <1> USE DEF ShellInv
  <1>1. /\ vw' = vw /\ prefs' = prefs /\ panelOpen' = panelOpen /\ peek' = peek /\ layout' = layout
        /\ draft' = draft /\ cut' = cut /\ storedPrefs' = storedPrefs /\ prefsHeard' = prefsHeard
        /\ focus' = focus /\ before' = before
    BY DEF StartGesture, store, storage, focuses
  <1>2. PICK previous : layout = ResolveShell(vw, prefs, panelOpen, previous)
    BY DEF LayoutIsResolved
  <1>3. layout.sidebarPx \in Int /\ layout.panelPx \in Int
    BY <1>2 DEF ShellTyped, InRange, ResolveShell, ShellLayout, Lesser, Greater, SidebarCollapsed,
                SidebarMin, SidebarMax, PanelMin, PanelMax, CanvasMin, OverlayGutter
  <1>4. Region(side).value \in Int /\ Region(side).collapsed \in BOOLEAN
        /\ (side = "panel" => ~Region(side).collapsed)
    <2>1. CASE side = "sidebar"
      BY <1>3, <2>1 DEF Region, SidebarCollapsed
    <2>2. CASE side = "panel"
      BY <1>3, <2>2 DEF Region
    <2>3. QED
      BY <2>1, <2>2
  <1>5. gesture' = [side |-> side, width |-> Region(side).value, snapped |-> Region(side).collapsed]
    BY DEF StartGesture
  <1>6. gesture' \in Gestures /\ gesture' # Absent
    BY <1>4, <1>5, ShellAssumption DEF Gestures
  <1>7. ShellTyped'
    BY <1>1, <1>6 DEF ShellTyped
  <1>8. LayoutIsResolved' /\ PartsAreThere'
    BY <1>1 DEF LayoutIsResolved, PartsAreThere, Rail
  <1>9. GestureHasBorder'
    BY <1>1, <1>4, <1>5 DEF GestureHasBorder, StartGesture, HasBorder
  <1>10. DraftIsOfGesture' /\ SettledIsStored'
    BY <1>6 DEF DraftIsOfGesture, SettledIsStored
  <1>11. QED
    BY <1>7, <1>8, <1>9, <1>10

\* A gesture goes on: it snaps the sidebar or paints its draft.
LEMMA ReachKeeps ==
  ASSUME ShellInv, NEW px \in Int, Reach(px)
  PROVE  ShellInv'
  <1> DEFINE side == gesture.side
             snapped == side = "sidebar" /\ px < SidebarSnap
             width == Clamp(px, Region(side).min, Region(side).max)
             from == IF draft = Absent THEN prefs ELSE draft
  <1> USE DEF ShellInv
  <1>1. gesture \in Gestures /\ gesture # Absent /\ side \in {"sidebar", "panel"}
    BY DEF Reach, ShellTyped, Gestures
  <1>2. PICK previous : layout = ResolveShell(vw, prefs, panelOpen, previous)
    BY DEF LayoutIsResolved
  <1>3. vw \in Nat /\ prefs \in InRange /\ from \in InRange
    BY DEF ShellTyped
  <1>4. layout.sidebarPx \in Int
    BY <1>2, <1>3 DEF InRange, ResolveShell, ShellLayout, SidebarCollapsed, SidebarMin, SidebarMax
  <1>5. /\ side = "sidebar" => width \in SidebarMin .. SidebarMax
        /\ side = "panel" => width \in PanelMin .. PanelMax
        /\ width \in Int
    <2>1. CASE side = "sidebar"
      <3>1. Region(side).min = SidebarMin /\ Region(side).max = SidebarMax
        BY <2>1 DEF Region
      <3>2. SidebarMin \in Int /\ SidebarMax \in Int /\ SidebarMin <= SidebarMax
        BY DEF SidebarMin, SidebarMax
      <3>3. width \in SidebarMin .. SidebarMax
        <4>1. Clamp(px, SidebarMin, SidebarMax) \in SidebarMin .. SidebarMax
          BY <3>2, ClampIsBetween
        <4>2. QED
          BY <3>1, <4>1
      <3>4. QED
        BY <2>1, <3>2, <3>3
    <2>2. CASE side = "panel"
      <3>1. PanelMaxFor(vw, layout) \in PanelMin .. PanelMax
        BY <1>3, <1>4 DEF PanelMaxFor, Greater, Lesser, PanelMin, PanelMax, OverlayGutter, CanvasMin
      <3>2. width \in PanelMin .. PanelMaxFor(vw, layout)
        <4>1. Region(side).min = PanelMin /\ Region(side).max = PanelMaxFor(vw, layout)
          BY <2>2 DEF Region
        <4>2. PanelMin \in Int /\ PanelMaxFor(vw, layout) \in Int /\ PanelMin <= PanelMaxFor(vw, layout)
          BY <3>1 DEF PanelMin, PanelMax
        <4>3. QED
          BY <4>1, <4>2, ClampIsBetween
      <3>3. QED
        BY <2>2, <3>1, <3>2 DEF PanelMin, PanelMax
    <2>3. QED
      BY <1>1, <2>1, <2>2
  <1>6. storedPrefs' = storedPrefs /\ prefsHeard' = prefsHeard
    BY DEF Reach, storage
  <1>7. CASE snapped # gesture.snapped
    <2>1. /\ gesture' = [gesture EXCEPT !.snapped = snapped, !.width = IF snapped THEN @ ELSE width]
          /\ SnapSidebar(snapped, width)
      BY <1>7 DEF Reach
    <2>2. side = "sidebar"
      BY <1>1, <1>7 DEF GestureHasBorder, Gestures
    <2>3. ~peek /\ layout.sidebar # "auto-collapsed" /\ before = Absent
      BY <1>1, <2>2 DEF GestureHasBorder, HasBorder, PartsAreThere
    <2>4. gesture' \in Gestures /\ gesture' # Absent /\ gesture'.side = "sidebar"
      BY <1>1, <1>5, <2>1, <2>2, ShellAssumption DEF Gestures
    <2>5. /\ draft' = [from EXCEPT !.sidebarCollapsed = snapped,
                                   !.sidebarWidth = IF snapped THEN @ ELSE width]
          /\ prefs' = [prefs EXCEPT !.sidebarCollapsed = snapped]
          /\ layout' = ResolveShell(vw, prefs', panelOpen, layout)
          /\ focus' = FocusAcrossRail(Rail(layout', peek))
          /\ vw' = vw /\ panelOpen' = panelOpen /\ peek' = peek /\ cut' = cut /\ before' = before
      BY <2>1 DEF SnapSidebar
    <2>6. prefs' \in InRange /\ draft' \in InRange
      BY <1>3, <1>5, <2>2, <2>5 DEF InRange
    <2>7. layout'.sidebar # "auto-collapsed"
      <3>1. SidebarMode(vw, prefs', layout) # "auto-collapsed"
        BY <1>2, <1>3, <2>3, <2>6, ModeIsStable
      <3>2. QED
        BY <2>5, <3>1 DEF ResolveShell, ShellLayout
    <2>8. focus' \in Parts /\ (Rail(layout', peek) => focus' # "pages") /\ (focus' = "panel" => focus = "panel")
      BY <2>5 DEF FocusAcrossRail, OnRail, ShellTyped, Parts
    <2>9. ShellTyped'
      BY <1>6, <2>4, <2>5, <2>6, <2>8 DEF ShellTyped
    <2>10. LayoutIsResolved'
      BY <2>5 DEF LayoutIsResolved
    <2>11. GestureHasBorder'
      BY <2>3, <2>4, <2>5, <2>7 DEF GestureHasBorder, HasBorder
    <2>12. PartsAreThere'
      BY <2>3, <2>5, <2>8 DEF PartsAreThere, OnRail, Rail
    <2>13. DraftIsOfGesture' /\ SettledIsStored'
      BY <2>4 DEF DraftIsOfGesture, SettledIsStored
    <2>14. QED
      BY <2>9, <2>10, <2>11, <2>12, <2>13
  <1>8. CASE snapped = gesture.snapped
    <2>1. gesture' = [gesture EXCEPT !.width = width] /\ Live(side, width) /\ UNCHANGED <<store, cut, focuses>>
      BY <1>8 DEF Reach
    <2>2. /\ vw' = vw /\ prefs' = prefs /\ panelOpen' = panelOpen /\ peek' = peek /\ layout' = layout
          /\ cut' = cut /\ focus' = focus /\ before' = before
      BY <2>1 DEF store, focuses
    <2>3. /\ gesture' \in Gestures /\ gesture' # Absent /\ gesture'.side = gesture.side
          /\ gesture'.snapped = gesture.snapped
      BY <1>1, <1>5, <2>1, ShellAssumption DEF Gestures
    <2>4. draft' \in InRange
      BY <1>1, <1>3, <1>5, <2>1 DEF Live, InRange
    <2>5. ShellTyped'
      BY <1>6, <2>2, <2>3, <2>4 DEF ShellTyped
    <2>6. LayoutIsResolved' /\ PartsAreThere'
      BY <2>2 DEF LayoutIsResolved, PartsAreThere, Rail
    <2>7. GestureHasBorder'
      BY <1>1, <2>2, <2>3 DEF GestureHasBorder, HasBorder
    <2>8. DraftIsOfGesture' /\ SettledIsStored'
      BY <2>3 DEF DraftIsOfGesture, SettledIsStored
    <2>9. QED
      BY <2>5, <2>6, <2>7, <2>8
  <1>9. QED
    BY <1>7, <1>8

\* A gesture ends, and what it reached is remembered; no peek ends with it.
LEMMA EndKeeps ==
  ASSUME ShellInv, EndGesture
  PROVE  ShellInv'
  <1> DEFINE p == Committed(gesture.side, gesture.width)
             q == ClampPrefs(p)
  <1> USE DEF ShellInv
  <1>1. gesture \in Gestures /\ gesture # Absent /\ gesture.side \in {"sidebar", "panel"}
    BY DEF EndGesture, ShellTyped, Gestures
  <1>2. PICK previous : layout = ResolveShell(vw, prefs, panelOpen, previous)
    BY DEF LayoutIsResolved
  <1>3. p \in Preferences /\ (gesture.side = "panel" => p.sidebarCollapsed = prefs.sidebarCollapsed)
    <2>1. prefs \in Preferences /\ prefs.sidebarCollapsed \in BOOLEAN /\ gesture.width \in Int
      BY <1>1, InRangeIsPrefs DEF ShellTyped, Preferences, Gestures
    <2>2. QED
      BY <1>1, <2>1 DEF Committed, Preferences
  <1>4. /\ q \in InRange /\ q \in Preferences /\ ReadPrefs(q) = q
        /\ gesture.side = "panel" => q.sidebarCollapsed = prefs.sidebarCollapsed
    BY <1>3, ClampedPrefs, RememberedIsRead
  <1>5. /\ draft' = Absent /\ gesture' = Absent /\ prefs' = q /\ storedPrefs' = q
        /\ layout' = ResolveShell(vw, q, panelOpen, layout)
        /\ peek' = PeekFor(layout', peek)
        /\ focus' = FocusAcrossRail(Rail(layout', peek'))
        /\ vw' = vw /\ panelOpen' = panelOpen /\ cut' = cut /\ prefsHeard' = prefsHeard /\ before' = before
    BY DEF EndGesture, Finish, WritePrefs
  <1>6. peek => layout'.sidebar = layout.sidebar
    <2> SUFFICES ASSUME peek PROVE layout'.sidebar = layout.sidebar
      OBVIOUS
    <2>1. gesture.side = "panel"
      BY <1>1 DEF GestureHasBorder, HasBorder
    <2>2. SidebarMode(vw, q, layout) = layout.sidebar
      BY <1>2, <1>4, <2>1, ModeIsStable DEF ShellTyped
    <2>3. QED
      BY <1>5, <2>2 DEF ResolveShell, ShellLayout
  <1>7. peek' = peek
    BY <1>5, <1>6 DEF PeekFor, PartsAreThere, ShellTyped
  <1>8. focus' \in Parts /\ (Rail(layout', peek') => focus' # "pages") /\ (focus' = "panel" => focus = "panel")
    BY <1>5 DEF FocusAcrossRail, OnRail, ShellTyped, Parts
  <1>9. ShellTyped'
    BY <1>4, <1>5, <1>7, <1>8 DEF ShellTyped
  <1>10. LayoutIsResolved' /\ GestureHasBorder' /\ DraftIsOfGesture'
    BY <1>5 DEF LayoutIsResolved, GestureHasBorder, DraftIsOfGesture
  <1>11. PartsAreThere'
    <2>1. peek' => layout'.sidebar # "expanded"
      BY <1>5 DEF PeekFor
    <2>2. QED
      BY <1>5, <1>7, <1>8, <2>1 DEF PartsAreThere, OnRail, Rail
  <1>12. SettledIsStored'
    BY <1>4, <1>5 DEF SettledIsStored
  <1>13. QED
    BY <1>9, <1>10, <1>11, <1>12

\* Another tab writes its preferences, or the focus goes elsewhere.
LEMMA OthersKeep ==
  ASSUME ShellInv, OtherTabWrites \/ (\E part \in {"canvas", "panel"} \cup SidebarParts : TrackFocus(part))
  PROVE  ShellInv'
  <1> USE DEF ShellInv
  <1>1. /\ vw' = vw /\ prefs' = prefs /\ panelOpen' = panelOpen /\ peek' = peek /\ layout' = layout
        /\ gesture' = gesture /\ draft' = draft /\ cut' = cut /\ before' = before
    BY DEF OtherTabWrites, TrackFocus, store, hands, focuses
  <1>2. LayoutIsResolved' /\ GestureHasBorder' /\ DraftIsOfGesture'
    BY <1>1 DEF LayoutIsResolved, GestureHasBorder, DraftIsOfGesture, HasBorder
  <1>3. CASE OtherTabWrites
    BY <1>1, <1>2, <1>3, ShellAssumption
       DEF OtherTabWrites, focuses, ShellTyped, PartsAreThere, SettledIsStored, Rail
  <1>4. CASE \E part \in {"canvas", "panel"} \cup SidebarParts : TrackFocus(part)
    BY <1>1, <1>2, <1>4
       DEF TrackFocus, storage, ShellTyped, PartsAreThere, SettledIsStored, Parts, SidebarParts, Rail
  <1>5. QED
    BY <1>3, <1>4

\* Every step of the frame.
LEMMA ShellInvNext == ShellInv /\ [ShellNext]_shellVars => ShellInv'
  <1> SUFFICES ASSUME ShellInv, [ShellNext]_shellVars PROVE ShellInv'
    OBVIOUS
  <1> DEFINE typed == /\ vw \in Nat /\ prefs \in InRange /\ prefs \in Preferences
                      /\ panelOpen \in BOOLEAN /\ peek \in BOOLEAN
                      /\ storedPrefs \in Preferences \cup {Absent}
  <1>0. typed
    BY InRangeIsPrefs DEF ShellInv, ShellTyped
  <1>1. CASE \E w \in Widths : Measure(w)
    BY <1>0, <1>1, SameFrameKeeps, ShellAssumption DEF Measure, SetViewport, storage
  <1>2. CASE (\E open \in BOOLEAN : SetPanelOpen(open)) \/ LeavePanel
    BY <1>0, <1>2, SameFrameKeeps DEF LeavePanel, SetPanelOpen, storage
  <1>3. CASE StorageEvent
    <2>1. Relayout(vw, ReadPrefs(storedPrefs), panelOpen, peek) /\ prefsHeard' = TRUE
          /\ storedPrefs' = storedPrefs /\ draft' = draft
      BY <1>3 DEF StorageEvent, SyncPrefs
    <2>2. QED
      BY <1>0, <2>1, ReadIsInRange, RelayoutKeeps
  <1>4. CASE ToggleSidebar
    <2>1. CASE layout.sidebar = "auto-collapsed"
      BY <1>0, <1>4, <2>1, SameFrameKeeps DEF ToggleSidebar, SetPeek, storage
    <2>2. CASE layout.sidebar # "auto-collapsed"
      <3>1. [prefs EXCEPT !.sidebarCollapsed = ~@] \in Preferences
        BY <1>0 DEF Preferences
      <3>2. QED
        BY <1>4, <2>2, <3>1, CommitKeeps DEF ToggleSidebar
    <2>3. QED
      BY <2>1, <2>2
  <1>5. CASE OpenPeek \/ ClosePeek
    BY <1>0, <1>5, SameFrameKeeps DEF OpenPeek, ClosePeek, SetPeek, storage
  <1>6. CASE ResetWidths
    <2>1. [DefaultPrefs EXCEPT !.sidebarCollapsed = prefs.sidebarCollapsed] \in Preferences
      BY <1>0, InRangeIsPrefs DEF Preferences
    <2>2. QED
      BY <1>6, <2>1, CommitKeeps DEF ResetWidths
  <1>7. CASE \E side \in {"sidebar", "panel"} : Reset(side)
    <2>1. PICK side \in {"sidebar", "panel"} : Reset(side)
      BY <1>7
    <2>2. /\ [prefs EXCEPT !.panelWidth = DefaultPrefs.panelWidth] \in Preferences
          /\ [prefs EXCEPT !.sidebarCollapsed = FALSE, !.sidebarWidth = DefaultPrefs.sidebarWidth]
               \in Preferences
      BY <1>0, InRangeIsPrefs DEF Preferences
    <2>3. draft' = Absent
      BY <2>1 DEF Reset
    <2>4. CASE side = "panel"
      BY <2>1, <2>2, <2>3, <2>4, CommitKeeps DEF Reset
    <2>5. CASE side # "panel"
      BY <2>1, <2>2, <2>3, <2>5, CommitKeeps DEF Reset
    <2>6. QED
      BY <2>4, <2>5
  <1>8. CASE \E side \in {"sidebar", "panel"} : StartGesture(side)
    BY <1>8, StartKeeps
  <1>9. CASE \E px \in SidebarRaws \cup PanelRaws : Reach(px)
    BY <1>9, ReachKeeps, ShellAssumption
  <1>10. CASE EndGesture
    BY <1>10, EndKeeps
  <1>11. CASE OtherTabWrites \/ \E part \in {"canvas", "panel"} \cup SidebarParts : TrackFocus(part)
    BY <1>11, OthersKeep
  <1>12. CASE UNCHANGED shellVars
    BY <1>12 DEF ShellInv, ShellTyped, LayoutIsResolved, GestureHasBorder, PartsAreThere, Rail,
                 DraftIsOfGesture, SettledIsStored, HasBorder, shellVars, store, hands, storage, focuses
  <1>13. QED
    BY <1>1, <1>2, <1>3, <1>4, <1>5, <1>6, <1>7, <1>8, <1>9, <1>10, <1>11, <1>12 DEF ShellNext

\* Whatever the window, the gestures, the peeks and the other tabs do, from whatever the browser
\* kept: the canvas keeps its room and the columns fill the window, the sidebar is what the
\* window and the user say, the focus is in no part that is gone, and what is settled is what
\* the browser remembers (shellStore.ts, resolveShell.ts, AppShell.tsx, Resizer.tsx).
THEOREM FrameHoldsTogether == ShellSpec => []FrameHolds
  BY ShellInvInit, ShellInvNext, ShellInvHolds, PTL DEF ShellSpec
-----------------------------------------------------------------------------
(* Overlays.                                                               *)

\* What each variable may hold.
OverlayTyped ==
    /\ openPanels \in SUBSET Panels /\ layer \in {Palette, NoOne}
    /\ current \in Panels \cup {Palette, NoOne} /\ openedBy \in Spots \cup {NoOne} /\ spot \in Spots
    /\ query \in BOOLEAN /\ editing \in BOOLEAN /\ drawer \in BOOLEAN /\ lastEsc \in 0 .. 1

\* What is open is the overlay remembered as on screen, and nothing else.
CurrentIsOpen == openPanels \cup ({layer} \ {NoOne}) = {current} \ {NoOne}

\* The levels of the ladder for an edit and for the layer.
LevelsOf(edits, top) ==
    {"frame"} \cup (IF edits THEN {"edit"} ELSE {}) \cup (IF top = Palette THEN {"layer"} ELSE {})

\* Each level of the ladder is there once.
LadderFollows ==
    ladder \in Seq(Levels) /\ ToSet(ladder) = LevelsOf(editing, layer) /\ IsInjective(ladder)

\* An edit that loses the focus is over.
EditHasFocus == editing => spot = Cell

OverlayInv ==
    OverlayTyped /\ CurrentIsOpen /\ LadderFollows /\ FocusOnScreen /\ EditHasFocus

-----------------------------------------------------------------------------
\* What it takes to be there, element by element.
LEMMA WhatIsMounted ==
    ASSUME NEW e \in Spots \cup {NoOne}, NEW panels, NEW top, NEW edits \in BOOLEAN
    PROVE  /\ e \in Panels => (Mounted(e, panels, top, edits) <=> e \in panels)
           /\ e = Palette => (Mounted(e, panels, top, edits) <=> top = Palette)
           /\ e = Cell => (Mounted(e, panels, top, edits) <=> edits)
           /\ e \notin Panels \cup {Palette, Cell} => (Mounted(e, panels, top, edits) <=> e # NoOne)
  BY OverlayAssumption DEF Mounted

\* Off the ladder with one level; the others stay.
LEMMA WhatIsDisposed ==
    ASSUME NEW s \in Seq(Levels), NEW level \in Levels, IsInjective(s)
    PROVE  /\ Disposed(s, level) \in Seq(Levels) /\ IsInjective(Disposed(s, level))
           /\ ToSet(Disposed(s, level)) = ToSet(s) \ {level}
  <1>1. /\ Those(s, Levels \ {level}) \in Seq(Levels \cap (Levels \ {level}))
        /\ ToSet(Those(s, Levels \ {level})) = ToSet(s) \cap (Levels \ {level})
        /\ IsInjective(Those(s, Levels \ {level}))
    BY ThoseAreTheOnes
  <1>2. ToSet(s) \subseteq Levels
    BY PlacesAreElements
  <1>3. Those(s, Levels \ {level}) \in Seq(Levels)
    <2>1. Levels \cap (Levels \ {level}) \subseteq Levels
      OBVIOUS
    <2>2. QED
      BY <1>1, <2>1
  <1>4. QED
    BY <1>1, <1>2, <1>3 DEF Disposed

\* Whatever comes to be open and wherever the focus is asked for: the ladder follows, the focus is
\* in what is there, and an edit that loses it is over.
LEMMA BecomeKeeps ==
    ASSUME OverlayInv, NEW panels \in SUBSET Panels, NEW top \in {Palette, NoOne},
           NEW asked \in Spots \cup {NoOne}, NEW edits \in BOOLEAN,
           Become(panels, top, asked, edits), top = Palette => asked = Palette
    PROVE  /\ openPanels' = panels /\ layer' = top /\ editing' \in BOOLEAN /\ spot' \in Spots
           /\ LadderFollows' /\ FocusOnScreen' /\ EditHasFocus'
  <1> DEFINE focused == FocusOn(asked, panels, top, edits)
             edits2 == AfterBlur(edits, focused)
             base == IF edits2 THEN ladder ELSE Disposed(ladder, "edit")
             levels == IF top = NoOne THEN Disposed(base, "layer")
                       ELSE IF layer = NoOne THEN Append(base, "layer") ELSE base
  <1>1. /\ openPanels' = panels /\ layer' = top /\ editing' = edits2 /\ spot' = focused
        /\ ladder' = IF edits2 /\ ~editing THEN Append(levels, "edit") ELSE levels
    BY DEF Become
  <1>2. /\ focused \in Spots /\ edits2 \in BOOLEAN /\ (edits2 => edits /\ focused = Cell)
        /\ focused = Cell => edits2
        /\ top = Palette => focused = Palette
        /\ Mounted(focused, panels, top, edits2)
    <2>1. "page" \in Spots /\ "page" \notin Panels \cup {Palette, Cell} /\ "page" # NoOne
      BY OverlayAssumption DEF Spots
    <2>2. \A e \in BOOLEAN : Mounted("page", panels, top, e)
      BY <2>1, WhatIsMounted
    <2>3. CASE Mounted(asked, panels, top, edits)
      <3>1. focused = asked /\ asked # NoOne /\ asked \in Spots
        BY <2>3, WhatIsMounted, OverlayAssumption DEF FocusOn
      <3>2. asked = Cell => edits
        BY <2>3, WhatIsMounted
      <3>3. asked = Cell <=> edits2
        BY <3>1, <3>2 DEF AfterBlur
      <3>4. edits2 \in BOOLEAN /\ (edits2 => edits /\ focused = Cell)
        BY DEF AfterBlur
      <3>5. Mounted(asked, panels, top, edits2)
        <4> HIDE DEF edits2
        <4>1. CASE asked = Cell
          BY <3>3, <3>4, <4>1, WhatIsMounted
        <4>2. CASE asked # Cell
          BY <2>3, <3>4, <4>2, WhatIsMounted
        <4>3. QED
          BY <4>1, <4>2
      <3>6. top = Palette => focused = Palette
        BY <3>1
      <3> HIDE DEF focused, edits2
      <3>7. Mounted(focused, panels, top, edits2)
        BY <3>1, <3>5, Zenon
      <3>8. focused = Cell => edits2
        BY <3>1, <3>3, Zenon
      <3>9. QED
        BY <3>1, <3>4, <3>6, <3>7, <3>8
    <2>4. CASE ~Mounted(asked, panels, top, edits)
      <3>1. focused = "page" /\ top # Palette
        BY <2>4, WhatIsMounted DEF FocusOn
      <3>2. ~edits2
        BY <3>1, <2>1 DEF AfterBlur
      <3>3. "page" # Cell
        BY <2>1
      <3>4. edits2 \in BOOLEAN
        BY DEF AfterBlur
      <3> HIDE DEF focused, edits2
      <3>5. Mounted(focused, panels, top, edits2)
        BY <2>2, <3>1, <3>4, Zenon
      <3>6. QED
        BY <2>1, <3>1, <3>2, <3>3, <3>4, <3>5
    <2>5. QED
      BY <2>3, <2>4
  <1> HIDE DEF focused, edits2
  <1>3. ladder \in Seq(Levels) /\ IsInjective(ladder) /\ ToSet(ladder) = LevelsOf(editing, layer)
        /\ layer \in {Palette, NoOne} /\ editing \in BOOLEAN
    BY DEF OverlayInv, LadderFollows, OverlayTyped
  <1>4. Palette # NoOne /\ "edit" \in Levels /\ "layer" \in Levels
    BY OverlayAssumption DEF Levels
  <1>5. /\ base \in Seq(Levels) /\ IsInjective(base)
        /\ ToSet(base) = LevelsOf(editing /\ edits2, layer)
    <2>1. CASE edits2
      BY <1>2, <1>3, <2>1
    <2>2. CASE ~edits2
      BY <1>2, <1>3, <1>4, <2>2, WhatIsDisposed DEF LevelsOf
    <2>3. QED
      BY <1>2, <2>1, <2>2
  <1> HIDE DEF base
  <1>6. /\ levels \in Seq(Levels) /\ IsInjective(levels)
        /\ ToSet(levels) = LevelsOf(editing /\ edits2, top)
    <2>1. CASE top = NoOne
      <3>1. /\ Disposed(base, "layer") \in Seq(Levels) /\ IsInjective(Disposed(base, "layer"))
            /\ ToSet(Disposed(base, "layer")) = ToSet(base) \ {"layer"}
        BY <1>4, <1>5, WhatIsDisposed
      <3>2. QED
        BY <1>4, <1>5, <2>1, <3>1 DEF LevelsOf
    <2>2. CASE top = Palette /\ layer = NoOne
      <3>1. "layer" \notin ToSet(base)
        BY <1>4, <1>5, <2>2 DEF LevelsOf
      <3>2. /\ Append(base, "layer") \in Seq(Levels) /\ IsInjective(Append(base, "layer"))
            /\ ToSet(Append(base, "layer")) = ToSet(base) \cup {"layer"}
        BY <1>4, <1>5, <3>1, ElementsOfAppended
      <3>3. QED
        BY <1>4, <1>5, <2>2, <3>2 DEF LevelsOf
    <2>3. CASE top = Palette /\ layer = Palette
      BY <1>4, <1>5, <2>3
    <2>4. QED
      BY <1>3, <2>1, <2>2, <2>3
  <1> HIDE DEF levels
  <1>7. /\ ladder' \in Seq(Levels) /\ IsInjective(ladder') /\ ToSet(ladder') = LevelsOf(edits2, top)
    <2>1. CASE edits2 /\ ~editing
      <3>1. "edit" \notin ToSet(levels)
        BY <1>6, <2>1 DEF LevelsOf
      <3>2. /\ Append(levels, "edit") \in Seq(Levels) /\ IsInjective(Append(levels, "edit"))
            /\ ToSet(Append(levels, "edit")) = ToSet(levels) \cup {"edit"}
        BY <1>4, <1>6, <3>1, ElementsOfAppended
      <3>3. QED
        BY <1>1, <1>6, <2>1, <3>2 DEF LevelsOf
    <2>2. CASE ~(edits2 /\ ~editing)
      BY <1>1, <1>2, <1>3, <1>6, <2>2 DEF LevelsOf
    <2>3. QED
      BY <2>1, <2>2
  <1>8. QED
    BY <1>1, <1>2, <1>7 DEF LadderFollows, FocusOnScreen, EditHasFocus

\* The page with nothing over it.
LEMMA OverlayInvInit == OverlayInit => OverlayInv
  <1> SUFFICES ASSUME OverlayInit PROVE OverlayInv
    OBVIOUS
  <1>1. /\ openPanels = {} /\ current = NoOne /\ layer = NoOne /\ openedBy = NoOne /\ query = FALSE
        /\ editing = FALSE /\ drawer = FALSE /\ spot = "page" /\ lastEsc = 0 /\ ladder = <<"frame">>
    BY DEF OverlayInit, PanelsInit, ExclusiveInit, LayerState, FieldInit, PanelInit, EscapeState
  <1>2. ladder \in Seq(Levels) /\ IsInjective(ladder) /\ ToSet(ladder) = {"frame"}
    BY <1>1 DEF Levels, IsInjective, ToSet
  <1>3. NoOne # Palette /\ "page" \in Spots /\ "page" # NoOne
    BY OverlayAssumption DEF Spots
  <1>4. "page" \notin Panels \cup {Palette, Cell}
    BY OverlayAssumption
  <1>5. Mounted(spot, openPanels, layer, editing)
    BY <1>1, <1>3, <1>4, WhatIsMounted
  <1>6. OverlayTyped /\ CurrentIsOpen /\ EditHasFocus
    <2>1. query \in BOOLEAN /\ editing \in BOOLEAN /\ drawer \in BOOLEAN /\ ~editing
      BY <1>1, Zenon
    <2>2. lastEsc \in 0 .. 1
      BY <1>1
    <2>3. OverlayTyped
      BY <1>1, <1>3, <2>1, <2>2, Zenon DEF OverlayTyped
    <2>4. CurrentIsOpen
      BY <1>1 DEF CurrentIsOpen
    <2>5. QED
      BY <2>1, <2>3, <2>4 DEF EditHasFocus
  <1>7. LadderFollows
    BY <1>1, <1>2, <1>3 DEF LadderFollows, LevelsOf
  <1>8. FocusOnScreen
    BY <1>1, <1>3, <1>5 DEF FocusOnScreen
  <1>9. QED
    BY <1>6, <1>7, <1>8 DEF OverlayInv

\* The invariant says what the overlays keep.
LEMMA OverlayInvHolds == OverlayInv => OverlaysAgree
  <1> SUFFICES ASSUME OverlayInv PROVE OverlaysAgree
    OBVIOUS
  <1>1. OneAtATime
    <2>1. openPanels \cup ({layer} \ {NoOne}) = {current} \ {NoOne} /\ layer \in {Palette, NoOne}
      BY DEF OverlayInv, CurrentIsOpen, OverlayTyped
    <2>2. CASE current = NoOne
      <3>1. openPanels \cup ({layer} \ {NoOne}) = {} /\ layer = NoOne
        BY <2>1, <2>2, OverlayAssumption
      <3>2. QED
        BY <2>2, <3>1, FS_EmptySet DEF OneAtATime
    <2>3. CASE current # NoOne
      <3>1. openPanels \cup ({layer} \ {NoOne}) = {current}
        BY <2>1, <2>3
      <3>2. Cardinality({current}) = 1
        BY FS_Singleton
      <3>3. current \in openPanels \cup {layer}
        BY <3>1
      <3>4. QED
        BY <3>1, <3>2, <3>3 DEF OneAtATime
    <2>4. QED
      BY <2>2, <2>3
  <1>2. LadderIsWhatIsOpen
    BY PlacesAreElements DEF OverlayInv, LadderFollows, LevelsOf, LadderIsWhatIsOpen
  <1>3. OneStepAPress
    BY DEF OverlayInv, OverlayTyped, OneStepAPress
  <1>4. QED
    BY <1>1, <1>2, <1>3 DEF OverlayInv, OverlaysAgree

-----------------------------------------------------------------------------
\* An overlay opens.
LEMMA OpeningKeeps ==
    ASSUME OverlayInv, OpenPalette \/ (\E o \in Panels : OpenPanel(o))
    PROVE  OverlayInv'
  <1>1. /\ openPanels \cup ({layer} \ {NoOne}) = {current} \ {NoOne} /\ layer \in {Palette, NoOne}
        /\ openPanels \in SUBSET Panels /\ current \in Panels \cup {Palette, NoOne}
        /\ openedBy \in Spots \cup {NoOne} /\ spot \in Spots /\ editing \in BOOLEAN /\ drawer \in BOOLEAN
        /\ query \in BOOLEAN
    BY DEF OverlayInv, OverlayTyped, CurrentIsOpen
  <1>2. Palette # NoOne /\ Palette \notin Panels /\ NoOne \notin Panels
    BY OverlayAssumption
  <1>3. Panels \subseteq Spots /\ Palette \in Spots
    BY DEF Spots
  <1>4. CASE OpenPalette
    <2> DEFINE panels == IF current \in Panels THEN openPanels \ {current} ELSE openPanels
    <2>1. /\ layer = NoOne /\ openedBy' = spot /\ query' = FALSE /\ current' = Palette /\ lastEsc' = 0
          /\ drawer' = drawer
      BY <1>4 DEF OpenPalette, Opener
    <2>2. Become({}, Palette, Palette, editing)
      <3>1. panels = {}
        BY <1>1, <1>2, <2>1
      <3>2. QED
        BY <1>4, <3>1 DEF OpenPalette
    <2>3. /\ openPanels' = {} /\ layer' = Palette /\ editing' \in BOOLEAN /\ spot' \in Spots
          /\ LadderFollows' /\ FocusOnScreen' /\ EditHasFocus'
      BY <1>1, <1>3, <2>2, BecomeKeeps
    <2>4. OverlayTyped'
      <3>1. query' \in BOOLEAN /\ drawer' \in BOOLEAN
        BY <1>1, <2>1, Zenon
      <3>2. lastEsc' \in 0 .. 1
        BY <2>1
      <3>3. QED
        BY <1>1, <1>2, <2>1, <2>3, <3>1, <3>2, Zenon DEF OverlayTyped
    <2>5. CurrentIsOpen'
      BY <1>1, <1>2, <2>1, <2>3 DEF CurrentIsOpen
    <2>6. QED
      BY <2>3, <2>4, <2>5 DEF OverlayInv
  <1>5. ASSUME NEW o \in Panels, OpenPanel(o) PROVE OverlayInv'
    <2>1. o \notin openPanels /\ current' = o /\ lastEsc' = 0 /\ drawer' = drawer
      BY <1>5 DEF OpenPanel
    <2>2. openedBy' \in Spots \cup {NoOne} /\ query' \in BOOLEAN
      BY <1>1, <1>5 DEF OpenPanel
    <2>3. /\ openPanels' = {o} /\ layer' = NoOne /\ editing' \in BOOLEAN /\ spot' \in Spots
          /\ LadderFollows' /\ FocusOnScreen' /\ EditHasFocus'
      <3>1. CASE current = Palette
        <4>1. Become({o}, NoOne, o, editing)
          BY <1>5, <3>1 DEF OpenPanel
        <4>2. QED
          BY <1>1, <1>2, <1>3, <4>1, BecomeKeeps
      <3>2. CASE current # Palette
        <4>1. layer = NoOne
          BY <1>1, <1>2, <3>2
        <4>2. TakesPlace(o) = {o}
          BY <1>1, <1>2, <3>2, <4>1 DEF TakesPlace
        <4>3. Become({o}, NoOne, o, editing)
          BY <1>5, <3>2, <4>1, <4>2 DEF OpenPanel
        <4>4. QED
          BY <1>1, <1>2, <1>3, <4>3, BecomeKeeps
      <3>3. QED
        BY <3>1, <3>2
    <2>4. OverlayTyped'
      BY <1>1, <1>2, <2>1, <2>2, <2>3 DEF OverlayTyped
    <2>5. CurrentIsOpen'
      BY <1>1, <1>2, <2>1, <2>2, <2>3 DEF CurrentIsOpen
    <2>6. QED
      BY <2>3, <2>4, <2>5 DEF OverlayInv
  <1>6. QED
    BY <1>4, <1>5

\* An overlay closes, or an edit begins or ends.
LEMMA ClosingKeeps ==
    ASSUME OverlayInv,
           (\E o \in Panels, e \in Spots : ClosePanel(o, e)) \/ ClosePalette \/ StartEdit \/ EndEdit
    PROVE  OverlayInv'
  <1>1. /\ openPanels \cup ({layer} \ {NoOne}) = {current} \ {NoOne} /\ layer \in {Palette, NoOne}
        /\ openPanels \in SUBSET Panels /\ current \in Panels \cup {Palette, NoOne}
        /\ openedBy \in Spots \cup {NoOne} /\ spot \in Spots /\ editing \in BOOLEAN /\ drawer \in BOOLEAN
        /\ query \in BOOLEAN /\ (editing => spot = Cell) /\ (layer = Palette => spot = Palette)
    BY DEF OverlayInv, OverlayTyped, CurrentIsOpen, EditHasFocus, FocusOnScreen
  <1>2. Palette # NoOne /\ Palette # Cell /\ Palette \notin Panels /\ NoOne \notin Panels
    BY OverlayAssumption
  <1>3. "page" \in Spots /\ Cell \in Spots /\ \A o \in Panels : TriggerOf[o] \in Spots
    BY DEF Spots
  <1>4. ASSUME NEW o \in Panels, NEW e \in Spots, ClosePanel(o, e) PROVE OverlayInv'
    <2>1. current = o /\ layer = NoOne /\ openPanels = {o}
      BY <1>1, <1>2, <1>4 DEF ClosePanel
    <2>2. /\ current' = NoOne /\ lastEsc' = 0 /\ openedBy' = openedBy /\ query' = query /\ drawer' = drawer
          /\ Become({}, NoOne, IF spot \in {o} THEN e ELSE spot, editing)
      <3>1. openPanels \ {o} = {}
        BY <2>1
      <3>2. QED
        BY <1>4, <2>1, <3>1 DEF ClosePanel
    <2>3. /\ openPanels' = {} /\ layer' = NoOne /\ editing' \in BOOLEAN /\ spot' \in Spots
          /\ LadderFollows' /\ FocusOnScreen' /\ EditHasFocus'
      BY <1>1, <1>2, <2>2, BecomeKeeps
    <2>4. OverlayTyped'
      <3>1. query' \in BOOLEAN /\ drawer' \in BOOLEAN
        BY <1>1, <2>2, Zenon
      <3>2. lastEsc' \in 0 .. 1
        BY <2>2
      <3>3. QED
        BY <1>1, <1>2, <2>2, <2>3, <3>1, <3>2, Zenon DEF OverlayTyped
    <2>5. CurrentIsOpen'
      BY <1>1, <1>2, <2>2, <2>3 DEF CurrentIsOpen
    <2>6. QED
      BY <2>3, <2>4, <2>5 DEF OverlayInv
  <1>5. CASE ClosePalette
    <2>1. layer = Palette /\ current = Palette /\ openPanels = {}
      BY <1>1, <1>2, <1>5 DEF ClosePalette
    <2>2. /\ current' = NoOne /\ lastEsc' = 0 /\ openedBy' = NoOne /\ query' = FALSE /\ drawer' = drawer
          /\ Become({}, NoOne, openedBy, editing)
      BY <1>5, <2>1 DEF ClosePalette, LayerClosed
    <2>3. /\ openPanels' = {} /\ layer' = NoOne /\ editing' \in BOOLEAN /\ spot' \in Spots
          /\ LadderFollows' /\ FocusOnScreen' /\ EditHasFocus'
      BY <1>1, <1>2, <2>2, BecomeKeeps
    <2>4. OverlayTyped'
      <3>1. query' \in BOOLEAN /\ drawer' \in BOOLEAN
        BY <1>1, <2>2, Zenon
      <3>2. lastEsc' \in 0 .. 1
        BY <2>2
      <3>3. QED
        BY <1>1, <1>2, <2>2, <2>3, <3>1, <3>2, Zenon DEF OverlayTyped
    <2>5. CurrentIsOpen'
      BY <1>1, <1>2, <2>2, <2>3 DEF CurrentIsOpen
    <2>6. QED
      BY <2>3, <2>4, <2>5 DEF OverlayInv
  <1>6. CASE StartEdit \/ EndEdit
    <2>1. /\ current' = current /\ openedBy' = openedBy /\ query' = query /\ drawer' = drawer /\ lastEsc' = 0
          /\ layer = NoOne
          /\ Become(openPanels, layer, Cell, TRUE) \/ Become(openPanels, layer, "page", FALSE)
      BY <1>1, <1>2, <1>6 DEF StartEdit, EndEdit
    <2>2. /\ openPanels' = openPanels /\ layer' = layer /\ editing' \in BOOLEAN /\ spot' \in Spots
          /\ LadderFollows' /\ FocusOnScreen' /\ EditHasFocus'
      BY <1>1, <1>2, <1>3, <2>1, BecomeKeeps
    <2>3. OverlayTyped'
      BY <1>1, <2>1, <2>2 DEF OverlayTyped
    <2>4. CurrentIsOpen'
      BY <1>1, <2>1, <2>2 DEF CurrentIsOpen
    <2>5. QED
      BY <2>2, <2>3, <2>4 DEF OverlayInv
  <1>7. QED
    BY <1>4, <1>5, <1>6

\* The ladder gives a press to one of its levels, to none for what is not open.
LEMMA TopIsThere ==
    ASSUME OverlayInv
    PROVE  /\ TopLevel \in {NoOne, "frame", "edit", "layer"}
           /\ TopLevel = "edit" => editing /\ layer = NoOne
           /\ TopLevel = "layer" => layer = Palette
  <1> DEFINE found == {i \in DOMAIN ladder : ladder[i] # "frame" \/ drawer}
             top == CHOOSE i \in found : \A j \in found : j <= i
  <1>1. TopLevel = IF found = {} THEN NoOne ELSE ladder[top]
    BY DEF TopLevel
  <1>2. /\ ladder \in Seq(Levels) /\ ToSet(ladder) = LevelsOf(editing, layer) /\ IsInjective(ladder)
        /\ layer \in {Palette, NoOne} /\ (editing => spot = Cell) /\ (layer = Palette => spot = Palette)
    BY DEF OverlayInv, OverlayTyped, LadderFollows, EditHasFocus, FocusOnScreen
  <1>3. ASSUME found # {} PROVE top \in DOMAIN ladder
    <2>1. Len(ladder) \in Nat /\ DOMAIN ladder = 1 .. Len(ladder)
          /\ \A i \in 1 .. Len(ladder) : ladder[i] \in Levels
      BY <1>2
    <2>2. Len(ladder) <= 3
      <3> SUFFICES ASSUME Len(ladder) >= 4 PROVE FALSE
        BY <2>1
      <3>1. 1 \in DOMAIN ladder /\ 2 \in DOMAIN ladder /\ 3 \in DOMAIN ladder /\ 4 \in DOMAIN ladder
        BY <2>1
      <3>2. /\ ladder[1] \in Levels /\ ladder[2] \in Levels /\ ladder[3] \in Levels /\ ladder[4] \in Levels
            /\ ladder[1] # ladder[2] /\ ladder[1] # ladder[3] /\ ladder[1] # ladder[4]
            /\ ladder[2] # ladder[3] /\ ladder[2] # ladder[4] /\ ladder[3] # ladder[4]
        BY <1>2, <2>1, <3>1 DEF IsInjective
      <3>3. QED
        BY <3>2 DEF Levels
    <2>3. found \subseteq DOMAIN ladder /\ found \subseteq 1 .. 3
      BY <2>1, <2>2
    <2> HIDE DEF found
    <2>4. \E i \in found : \A j \in found : j <= i
      <3>1. CASE 3 \in found
        BY <2>3, <3>1
      <3>2. CASE 3 \notin found /\ 2 \in found
        BY <2>3, <3>2
      <3>3. CASE 3 \notin found /\ 2 \notin found
        BY <1>3, <2>3, <3>3
      <3>4. QED
        BY <3>1, <3>2, <3>3
    <2>5. QED
      BY <2>3, <2>4
  <1> HIDE DEF found, top
  <1>4. CASE found = {}
    BY <1>1, <1>4, OverlayAssumption DEF Levels
  <1>5. CASE found # {}
    <2>1. TopLevel \in LevelsOf(editing, layer)
      BY <1>1, <1>2, <1>3, <1>5 DEF ToSet
    <2>2. Palette # Cell /\ NoOne # Palette
      BY OverlayAssumption
    <2>3. QED
      BY <1>2, <2>1, <2>2 DEF LevelsOf
  <1>6. QED
    BY <1>4, <1>5

\* A press of Esc takes one thing away.
LEMMA EscapeKeeps ==
    ASSUME OverlayInv, Escape
    PROVE  OverlayInv'
  <1> DEFINE zag == openPanels # {}
             field == ~zag /\ layer = Palette /\ query /\ spot = Palette
             top == IF Pressed(zag \/ field) THEN TopLevel ELSE NoOne
             o == IF current \in openPanels THEN current ELSE CHOOSE p \in openPanels : TRUE
             panels == IF zag THEN openPanels \ {o} ELSE openPanels
  <1>1. /\ openPanels \cup ({layer} \ {NoOne}) = {current} \ {NoOne} /\ layer \in {Palette, NoOne}
        /\ openPanels \in SUBSET Panels /\ current \in Panels \cup {Palette, NoOne}
        /\ openedBy \in Spots \cup {NoOne} /\ spot \in Spots /\ editing \in BOOLEAN /\ drawer \in BOOLEAN
        /\ query \in BOOLEAN /\ (editing => spot = Cell) /\ (layer = Palette => spot = Palette)
    BY DEF OverlayInv, OverlayTyped, CurrentIsOpen, EditHasFocus, FocusOnScreen
  <1>2. /\ Palette # NoOne /\ Palette # Cell /\ Palette \notin Panels /\ NoOne \notin Panels
        /\ NoOne \notin {"frame", "edit", "layer"}
    BY OverlayAssumption DEF Levels
  <1>3. "page" \in Spots /\ Cell \in Spots /\ \A p \in Panels : TriggerOf[p] \in Spots
    BY DEF Spots
  <1>4. CASE zag
    <2>1. current \in Panels /\ openPanels = {current} /\ layer = NoOne /\ o = current /\ panels = {}
      BY <1>1, <1>2, <1>4
    <2>2. top = NoOne /\ ~field
      BY <1>4 DEF Pressed
    <2>3. /\ current' = NoOne /\ openedBy' = openedBy /\ query' = query /\ drawer' = drawer /\ lastEsc' = 1
          /\ Become({}, NoOne, TriggerOf[current], editing)
      BY <1>1, <1>2, <1>4, <2>1, <2>2 DEF Escape
    <2>4. TriggerOf[current] \in Spots \cup {NoOne} /\ {} \in SUBSET Panels
      BY <1>3, <2>1
    <2>5. /\ openPanels' = {} /\ layer' = NoOne /\ editing' \in BOOLEAN /\ spot' \in Spots
          /\ LadderFollows' /\ FocusOnScreen' /\ EditHasFocus'
      BY <1>1, <1>2, <2>3, <2>4, BecomeKeeps
    <2>6. OverlayTyped'
      BY <1>1, <2>3, <2>5 DEF OverlayTyped
    <2>7. CurrentIsOpen'
      BY <2>3, <2>5 DEF CurrentIsOpen
    <2>8. QED
      BY <2>5, <2>6, <2>7 DEF OverlayInv
  <1>5. CASE ~zag
    <2>1. openPanels = {} /\ panels = {} /\ current = layer
      BY <1>1, <1>2, <1>5
    <2>2. /\ top \in {NoOne, "frame", "edit", "layer"} /\ (field => top = NoOne)
          /\ top = "edit" => editing /\ layer = NoOne
          /\ top = "layer" => layer = Palette
      BY <1>2, <1>5, TopIsThere DEF Pressed
    <2>3. lastEsc' \in 0 .. 1
      BY <1>5, <2>2 DEF Escape
    <2>4. drawer' \in BOOLEAN
      BY <1>1 DEF Escape
    <2>5. CASE top = "layer"
      <3>1. /\ current' = NoOne /\ openedBy' = NoOne /\ query' = FALSE /\ Become({}, NoOne, openedBy, editing)
        BY <1>5, <2>1, <2>2, <2>5 DEF Escape, LayerClosed
      <3>2. /\ openPanels' = {} /\ layer' = NoOne /\ editing' \in BOOLEAN /\ spot' \in Spots
            /\ LadderFollows' /\ FocusOnScreen' /\ EditHasFocus'
        BY <1>1, <1>2, <3>1, BecomeKeeps
      <3>3. OverlayTyped'
        BY <2>3, <2>4, <3>1, <3>2 DEF OverlayTyped
      <3>4. CurrentIsOpen'
        BY <3>1, <3>2 DEF CurrentIsOpen
      <3>5. QED
        BY <3>2, <3>3, <3>4 DEF OverlayInv
    <2>6. CASE top # "layer"
      <3> DEFINE asked == IF top = "edit" THEN "page" ELSE spot
                 edits == editing /\ top # "edit"
      <3>1. /\ current' = current /\ openedBy' = openedBy /\ query' = (query /\ ~field)
            /\ Become({}, layer, asked, edits)
        BY <1>5, <2>1, <2>6 DEF Escape
      <3>2. asked \in Spots \cup {NoOne} /\ edits \in BOOLEAN /\ (layer = Palette => asked = Palette)
        BY <1>1, <1>2, <1>3, <2>2
      <3>3. query' \in BOOLEAN
        BY <3>1
      <3> HIDE DEF asked, edits
      <3>4. /\ openPanels' = {} /\ layer' = layer /\ editing' \in BOOLEAN /\ spot' \in Spots
            /\ LadderFollows' /\ FocusOnScreen' /\ EditHasFocus'
        BY <1>1, <3>1, <3>2, BecomeKeeps
      <3>5. OverlayTyped'
        BY <1>1, <2>3, <2>4, <3>1, <3>3, <3>4 DEF OverlayTyped
      <3>6. CurrentIsOpen'
        BY <1>1, <2>1, <3>1, <3>4 DEF CurrentIsOpen
      <3>7. QED
        BY <3>4, <3>5, <3>6 DEF OverlayInv
    <2>7. QED
      BY <2>5, <2>6
  <1>6. QED
    BY <1>4, <1>5

\* Every step of the overlays.
LEMMA OverlayInvNext == OverlayInv /\ [OverlayNext]_overlayVars => OverlayInv'
  <1> SUFFICES ASSUME OverlayInv, [OverlayNext]_overlayVars PROVE OverlayInv'
    OBVIOUS
  <1>1. CASE (\E o \in Panels : OpenPanel(o)) \/ OpenPalette
    BY <1>1, OpeningKeeps
  <1>2. CASE (\E o \in Panels, e \in Spots : ClosePanel(o, e)) \/ ClosePalette \/ StartEdit \/ EndEdit
    BY <1>2, ClosingKeeps
  <1>3. CASE Escape
    BY <1>3, EscapeKeeps
  <1>4. CASE (\E o \in Panels : Unmounts(o)) \/ TypeQuery \/ SetDrawer \/ UNCHANGED overlayVars
    <2>1. /\ openPanels' = openPanels /\ current' = current /\ layer' = layer /\ openedBy' = openedBy
          /\ editing' = editing /\ ladder' = ladder /\ spot' = spot /\ lastEsc' = lastEsc
      BY <1>4 DEF Unmounts, TypeQuery, SetDrawer, overlayVars, onScreen
    <2>2. query' \in BOOLEAN /\ drawer' \in BOOLEAN
      BY <1>4 DEF Unmounts, TypeQuery, SetDrawer, overlayVars, OverlayInv, OverlayTyped
    <2>3. QED
      BY <2>1, <2>2
         DEF OverlayInv, OverlayTyped, CurrentIsOpen, LadderFollows, FocusOnScreen, EditHasFocus
  <1>5. QED
    BY <1>1, <1>2, <1>3, <1>4 DEF OverlayNext

\* Whatever opens, closes, is edited and is pressed, with any number of popovers: one overlay at a
\* time, a level of the Esc ladder for each thing open and for no other, one thing undone a press,
\* and the focus in nothing that is gone (useExclusiveOverlay.ts, escape/, layers/, Popover.tsx).
THEOREM OverlaysHold == OverlaySpec => []OverlaysAgree
  BY OverlayInvInit, OverlayInvNext, OverlayInvHolds, PTL DEF OverlaySpec
-----------------------------------------------------------------------------
(* Toasts and undo.                                                        *)

\* The operation whose step an error toast tries again.
HeldBy(item) == IF item # Nothing /\ item.retry # Nothing THEN {item.retry.op} ELSE {}

\* An operation is in one place: p to undo, f to redo, on its way in a run, or held by an error.
InPlaces(p, f, runs, held, seen) ==
    /\ p \in Seq(Ops) /\ IsInjective(p) /\ f \in Seq(Ops) /\ IsInjective(f)
    /\ runs \in SUBSET ToastRuns /\ held \in SUBSET Ops /\ seen \in [Ops -> Pages \cup {Global, Nothing}]
    /\ \A op \in Ops : seen[op] = Nothing =>
         op \notin ToSet(p) \cup ToSet(f) \cup held /\ \A run \in runs : run.op # op
    /\ ToSet(p) \cap ToSet(f) = {} /\ ToSet(p) \cap held = {} /\ ToSet(f) \cap held = {}
    /\ \A run \in runs : run.op \notin ToSet(p) \cup ToSet(f) \cup held
    /\ \A run, other \in runs : run.op = other.op => run = other

\* What waits, waits for an error, is another toast, and has no step to try again.
LaneFits(shown, later, made) ==
    /\ shown \in Items \cup {Nothing} /\ later \in Items \cup {Nothing} /\ made \in Nat
    /\ shown # Nothing => shown.key <= made
    /\ later # Nothing => /\ later.key <= made /\ later.retry = Nothing
                           /\ shown # Nothing /\ shown.kind = "error" /\ shown.key # later.key

ToastInv ==
    /\ InPlaces(past, future, running, HeldBy(action), scopes)
    /\ scope \in Pages \cup {Nothing}
    /\ LaneFits(action, waiting, keys)
    /\ OfferCanBeTaken

-----------------------------------------------------------------------------
(* The lane. *)

\* What a toast is made of.
LEMMA MadeItems ==
    ASSUME NEW key \in Nat \ {0}
    PROVE  /\ \A op \in Ops : UndoItem(key, op) \in Items /\ HeldBy(UndoItem(key, op)) = {}
           /\ ErrorItem(key, Nothing) \in Items /\ HeldBy(ErrorItem(key, Nothing)) = {}
           /\ ProgressItem(key) \in Items /\ NoteItem(key) \in Items
           /\ \A run \in ToastRuns : ErrorItem(key, run) \in Items /\ HeldBy(ErrorItem(key, run)) = {run.op}
  BY ToastAssumption DEF UndoItem, ErrorItem, ProgressItem, NoteItem, Item, Items, HeldBy, ToastKinds

\* What an error holds is an operation.
LEMMA HeldAreOps ==
    ASSUME NEW item \in Items \cup {Nothing}
    PROVE  HeldBy(item) \in SUBSET Ops
  BY DEF HeldBy, Items, ToastRuns

\* A toast more: an error takes the place of the one on screen, another waits for an error.
LEMMA ShowingFits ==
    ASSUME LaneFits(action, waiting, keys), NEW item \in Items, item.key = keys + 1,
           item.kind # "error" => item.retry = Nothing
    PROVE  /\ LaneFits(Showing(item).action, Showing(item).waiting, keys + 1)
           /\ HeldBy(Showing(item).action) \subseteq HeldBy(action) \cup HeldBy(item)
           /\ Showing(item) = [action |-> Showing(item).action, waiting |-> Showing(item).waiting]
  BY ToastAssumption DEF LaneFits, Showing, ToastKind, HeldBy, Items

\* A toast changed in place.
LEMMA PatchingFits ==
    ASSUME LaneFits(action, waiting, keys), NEW key \in InProgress, NEW item \in Items,
           item.key = key, item.retry = Nothing
    PROVE  /\ LaneFits(Patching(key, item).action, Patching(key, item).waiting, keys)
           /\ HeldBy(Patching(key, item).action) \subseteq HeldBy(action)
           /\ Patching(key, item) =
                [action |-> Patching(key, item).action, waiting |-> Patching(key, item).waiting]
  BY ToastAssumption DEF LaneFits, Patching, InProgress, ToastKind, KeyOf, HeldBy, Items

\* A toast closed: what waited comes.
LEMMA ClosingFits ==
    ASSUME LaneFits(action, waiting, keys), NEW key \in Nat \ {0}
    PROVE  /\ LaneFits(Closing(key).action, Closing(key).waiting, keys)
           /\ HeldBy(Closing(key).action) \subseteq HeldBy(action)
           /\ KeyOf(action) = key => HeldBy(Closing(key).action) = {}
           /\ Closing(key) = [action |-> Closing(key).action, waiting |-> Closing(key).waiting]
  BY ToastAssumption DEF LaneFits, Closing, KeyOf, HeldBy, Items

\* The lane after its effect: as it was asked to be, or empty.
LEMMA LanesFit ==
    ASSUME NEW a, NEW w, LaneFits(a, w, keys'), Lanes([action |-> a, waiting |-> w])
    PROVE  /\ LaneFits(action', waiting', keys')
           /\ HeldBy(action') \subseteq HeldBy(a)
           /\ OfferCanBeTaken'
  <1>1. CASE Offers(a)
    <2>1. action' = a /\ waiting' = w
      BY <1>1 DEF Lanes
    <2>2. QED
      BY <1>1, <2>1 DEF OfferCanBeTaken, Offers, ToastKind
  <1>2. CASE ~Offers(a)
    <2>1. w = Nothing
      BY <1>2 DEF LaneFits, Offers
    <2>2. action' = Nothing /\ waiting' = Nothing
      BY <1>2, <2>1 DEF Lanes, Offers
    <2>3. QED
      BY <2>2 DEF LaneFits, HeldBy, OfferCanBeTaken, ToastKind
  <1>3. QED
    BY <1>1, <1>2

-----------------------------------------------------------------------------
(* The history. *)

\* Fewer runs and fewer errors are in fewer places.
LEMMA FewerPlaces ==
    ASSUME NEW p, NEW f, NEW runs, NEW held, NEW seen, InPlaces(p, f, runs, held, seen),
           NEW runs2 \in SUBSET runs, NEW held2 \in SUBSET held
    PROVE  InPlaces(p, f, runs2, held2, seen)
  BY DEF InPlaces

\* Filtered, a history names fewer operations, each once.
LEMMA FilteredHistory ==
    ASSUME NEW s \in Seq(Ops), IsInjective(s), NEW some
    PROVE  /\ Those(s, some) \in Seq(Ops) /\ IsInjective(Those(s, some))
           /\ ToSet(Those(s, some)) = ToSet(s) \cap some
  <1>1. /\ Those(s, some) \in Seq(Ops \cap some) /\ IsInjective(Those(s, some))
        /\ ToSet(Those(s, some)) = ToSet(s) \cap some
    BY ThoseAreTheOnes
  <1>2. Ops \cap some \subseteq Ops
    OBVIOUS
  <1>3. QED
    BY <1>1, <1>2

\* Without an operation.
LEMMA WithoutOne ==
    ASSUME NEW s \in Seq(Ops), IsInjective(s), NEW op
    PROVE  /\ Without(s, op) \in Seq(Ops) /\ IsInjective(Without(s, op))
           /\ ToSet(Without(s, op)) = ToSet(s) \ {op}
  <1>1. ToSet(s) \subseteq Ops
    BY PlacesAreElements
  <1>2. QED
    BY <1>1, FilteredHistory DEF Without

\* Trimmed, a history has lost its oldest at most.
LEMMA TrimmedHistory ==
    ASSUME NEW s \in Seq(Ops), IsInjective(s)
    PROVE  Trimmed(s) \in Seq(Ops) /\ IsInjective(Trimmed(s)) /\ ToSet(Trimmed(s)) \subseteq ToSet(s)
  <1>1. CASE Len(s) > Limit
    <2>1. s # <<>>
      BY <1>1, ToastAssumption
    <2>2. Tail(s) \in Seq(Ops) /\ ToSet(Tail(s)) \subseteq ToSet(s) /\ IsInjective(Tail(s))
      BY <2>1, ElementsOfTail DEF ToSet, IsInjective
    <2>3. QED
      BY <1>1, <2>2 DEF Trimmed
  <1>2. CASE ~(Len(s) > Limit)
    BY <1>2 DEF Trimmed
  <1>3. QED
    BY <1>1, <1>2

\* What mod+Z and mod+Shift+Z would take is in the history.
LEMMA NextIsThere ==
    ASSUME past \in Seq(Ops), future \in Seq(Ops), IsInjective(past), IsInjective(future)
    PROVE  /\ NextOf("undo") # Nothing => NextOf("undo") \in ToSet(past)
           /\ NextOf("redo") # Nothing => NextOf("redo") \in ToSet(future)
  <1>1. ASSUME NEW s \in Seq(Ops), IsInjective(s), LastInReach(s) # Nothing
        PROVE  LastInReach(s) \in ToSet(s)
    <2> DEFINE reach == Those(s, {op \in Ops : InReach(op)})
    <2>1. reach \in Seq(Ops) /\ ToSet(reach) \subseteq ToSet(s)
      BY <1>1, FilteredHistory
    <2>2. reach # <<>> /\ LastInReach(s) = Last(reach)
      BY <1>1 DEF LastInReach
    <2> HIDE DEF reach
    <2>3. Last(reach) \in ToSet(reach)
      BY <2>1, <2>2 DEF Last, ToSet
    <2>4. QED
      BY <2>1, <2>2, <2>3
  <1>2. /\ Those(future, Redoable) \in Seq(Ops) /\ IsInjective(Those(future, Redoable))
        /\ ToSet(Those(future, Redoable)) \subseteq ToSet(future)
    BY FilteredHistory
  <1>3. QED
    BY <1>1, <1>2 DEF NextOf

\* A new operation is in no place before, and only to be undone after.
LEMMA PushKeepsPlaces ==
    ASSUME ToastInv, NEW op \in Ops, NEW everywhere \in BOOLEAN, Push(op, everywhere)
    PROVE  InPlaces(past', future', running', HeldBy(action), scopes') /\ scope' \in Pages \cup {Nothing}
  <1>1. InPlaces(past, future, running, HeldBy(action), scopes) /\ scope \in Pages \cup {Nothing}
    BY DEF ToastInv
  <1>2. /\ scopes[op] = Nothing /\ running' = running /\ scope' = scope
        /\ past' = Trimmed(Append(past, op))
        /\ future' = Those(future, {other \in Ops : scopes[other] # SeenIn(everywhere)})
        /\ scopes' = [scopes EXCEPT ![op] = SeenIn(everywhere)]
    BY DEF Push, Recorded
  <1>3. /\ past \in Seq(Ops) /\ IsInjective(past) /\ future \in Seq(Ops) /\ IsInjective(future)
        /\ op \notin ToSet(past) \cup ToSet(future) \cup HeldBy(action)
        /\ \A run \in running : run.op # op
    BY <1>1, <1>2 DEF InPlaces
  <1>4. /\ past' \in Seq(Ops) /\ IsInjective(past') /\ ToSet(past') \subseteq ToSet(past) \cup {op}
    <2>1. /\ Append(past, op) \in Seq(Ops) /\ IsInjective(Append(past, op))
          /\ ToSet(Append(past, op)) = ToSet(past) \cup {op}
      BY <1>3, ElementsOfAppended
    <2>2. QED
      BY <1>2, <2>1, TrimmedHistory
  <1>5. /\ future' \in Seq(Ops) /\ IsInjective(future') /\ ToSet(future') \subseteq ToSet(future)
    BY <1>2, <1>3, FilteredHistory
  <1>6. SeenIn(everywhere) \in Pages \cup {Global} /\ SeenIn(everywhere) # Nothing
    BY <1>1, ToastAssumption DEF SeenIn
  <1>7. /\ scopes' \in [Ops -> Pages \cup {Global, Nothing}] /\ scopes'[op] # Nothing
        /\ \A other \in Ops \ {op} : scopes'[other] = scopes[other]
    BY <1>1, <1>2, <1>6 DEF InPlaces
  <1>8. QED
    BY <1>1, <1>2, <1>3, <1>4, <1>5, <1>7 DEF InPlaces

\* An undo leaves the history before it runs.
LEMMA UndoKeepsPlaces ==
    ASSUME ToastInv, NEW op \in Ops, StartUndo(op)
    PROVE  InPlaces(past', future', running', HeldBy(action), scopes') /\ scope' \in Pages \cup {Nothing}
  <1> DEFINE new == [op |-> op, step |-> "undo"]
  <1>1. InPlaces(past, future, running, HeldBy(action), scopes) /\ scope \in Pages \cup {Nothing}
    BY DEF ToastInv
  <1>2. /\ op \in ToSet(past) /\ past' = Without(past, op) /\ running' = running \cup {new}
        /\ future' = future /\ scopes' = scopes /\ scope' = scope
    BY DEF StartUndo, Has, Range, ToSet, Taken
  <1>3. past' \in Seq(Ops) /\ IsInjective(past') /\ ToSet(past') = ToSet(past) \ {op}
    BY <1>1, <1>2, WithoutOne DEF InPlaces
  <1>4. new \in ToastRuns /\ new.op = op
    BY DEF ToastRuns, Steps
  <1> HIDE DEF new
  <1>5. QED
    BY <1>1, <1>2, <1>3, <1>4 DEF InPlaces

\* A redo too.
LEMMA RedoKeepsPlaces ==
    ASSUME ToastInv, StartRedo
    PROVE  InPlaces(past', future', running', HeldBy(action), scopes') /\ scope' \in Pages \cup {Nothing}
  <1> DEFINE op == NextOf("redo")
             new == [op |-> op, step |-> "redo"]
  <1>1. InPlaces(past, future, running, HeldBy(action), scopes) /\ scope \in Pages \cup {Nothing}
    BY DEF ToastInv
  <1>2. /\ future' = Without(future, op) /\ running' = running \cup {new}
        /\ past' = past /\ scopes' = scopes /\ scope' = scope
    BY DEF StartRedo
  <1>3. op \in ToSet(future) /\ op \in Ops
    <2>1. op \in ToSet(future)
      BY <1>1, NextIsThere DEF StartRedo, InPlaces
    <2>2. ToSet(future) \subseteq Ops
      BY <1>1, PlacesAreElements DEF InPlaces
    <2>3. QED
      BY <2>1, <2>2
  <1> HIDE DEF op
  <1>4. future' \in Seq(Ops) /\ IsInjective(future') /\ ToSet(future') = ToSet(future) \ {op}
    BY <1>1, <1>2, WithoutOne DEF InPlaces
  <1>5. new \in ToastRuns /\ new.op = op
    BY <1>3 DEF ToastRuns, Steps
  <1> HIDE DEF new
  <1>6. QED
    BY <1>1, <1>2, <1>3, <1>4, <1>5 DEF InPlaces

\* Done, the operation goes where the step leads.
LEMMA StepKeepsPlaces ==
    ASSUME ToastInv, NEW run \in running, Stepped(run)
    PROVE  /\ InPlaces(past', future', running', HeldBy(action), scopes')
           /\ scope' \in Pages \cup {Nothing}
  <1> DEFINE op == run.op
  <1>1. InPlaces(past, future, running, HeldBy(action), scopes) /\ scope \in Pages \cup {Nothing}
    BY DEF ToastInv
  <1>2. op \in Ops /\ op \notin ToSet(past) \cup ToSet(future) \cup HeldBy(action)
    BY <1>1 DEF InPlaces, ToastRuns
  <1>3. /\ running' = running \ {run} /\ scopes' = scopes /\ scope' = scope
        /\ \A other \in running' : other.op # op
    BY <1>1 DEF Stepped, InPlaces
  <1>4. ASSUME NEW s \in Seq(Ops), IsInjective(s)
        PROVE  /\ Append(Without(s, op), op) \in Seq(Ops) /\ IsInjective(Append(Without(s, op), op))
               /\ ToSet(Append(Without(s, op), op)) = ToSet(s) \cup {op}
    <2>1. Without(s, op) \in Seq(Ops) /\ IsInjective(Without(s, op)) /\ ToSet(Without(s, op)) = ToSet(s) \ {op}
      BY <1>4, WithoutOne
    <2>2. /\ Append(Without(s, op), op) \in Seq(Ops)
          /\ ToSet(Append(Without(s, op), op)) = ToSet(Without(s, op)) \cup {op}
          /\ IsInjective(Append(Without(s, op), op))
      BY <1>2, <2>1, ElementsOfAppended
    <2>3. QED
      BY <2>1, <2>2
  <1>5. /\ past \in Seq(Ops) /\ IsInjective(past) /\ future \in Seq(Ops) /\ IsInjective(future)
    BY <1>1 DEF InPlaces
  <1>6. scopes[op] # Nothing
    BY <1>1, <1>2 DEF InPlaces
  <1>7. \/ past' = past /\ future' = future
        \/ past' = past /\ future' = Append(Without(future, op), op)
        \/ past' = Append(Without(past, op), op) /\ future' = future
    BY DEF Stepped
  <1> HIDE DEF op
  <1>8. CASE past' = past /\ future' = future
    BY <1>1, <1>3, <1>8 DEF InPlaces
  <1>9. CASE past' = past /\ future' = Append(Without(future, op), op)
    <2>1. future' \in Seq(Ops) /\ IsInjective(future') /\ ToSet(future') = ToSet(future) \cup {op}
      BY <1>4, <1>5, <1>9
    <2>2. QED
      BY <1>1, <1>2, <1>3, <1>6, <1>9, <2>1 DEF InPlaces
  <1>10. CASE past' = Append(Without(past, op), op) /\ future' = future
    <2>1. past' \in Seq(Ops) /\ IsInjective(past') /\ ToSet(past') = ToSet(past) \cup {op}
      BY <1>4, <1>5, <1>10
    <2>2. QED
      BY <1>1, <1>2, <1>3, <1>6, <1>10, <2>1 DEF InPlaces
  <1>11. QED
    BY <1>7, <1>8, <1>9, <1>10

-----------------------------------------------------------------------------
(* The steps. *)

\* A step of the history and a lane that fits it.
LEMMA HistoryAndLane ==
    ASSUME NEW held, InPlaces(past', future', running', held, scopes'), scope' \in Pages \cup {Nothing},
           NEW a, NEW w, LaneFits(a, w, keys'), HeldBy(a) \subseteq held,
           Lanes([action |-> a, waiting |-> w])
    PROVE  ToastInv'
  <1>1. LaneFits(action', waiting', keys') /\ HeldBy(action') \subseteq HeldBy(a) /\ OfferCanBeTaken'
    BY LanesFit
  <1>2. InPlaces(past', future', running', HeldBy(action'), scopes')
    BY <1>1, FewerPlaces
  <1>3. QED
    BY <1>1, <1>2 DEF ToastInv

\* The history changes, and the lane as far as it must.
LEMMA HistoryStepKeeps ==
    ASSUME InPlaces(past', future', running', HeldBy(action), scopes'), scope' \in Pages \cup {Nothing},
           ToastInv, KeepLanes
    PROVE  ToastInv'
  BY HistoryAndLane DEF ToastInv, KeepLanes

\* The history as it was.
LEMMA SamePlaces ==
    ASSUME ToastInv, UNCHANGED history
    PROVE  InPlaces(past', future', running', HeldBy(action), scopes') /\ scope' \in Pages \cup {Nothing}
  <1>1. past' = past /\ future' = future /\ running' = running /\ scopes' = scopes /\ scope' = scope
    BY DEF history
  <1>2. QED
    BY <1>1 DEF ToastInv

\* A toast more, with no step to try again.
LEMMA NewKeeps ==
    ASSUME ToastInv, NEW item \in Items, item.key = NextKey, item.retry = Nothing, New(item),
           InPlaces(past', future', running', HeldBy(action), scopes'), scope' \in Pages \cup {Nothing}
    PROVE  ToastInv'
  <1>1. /\ LaneFits(action, waiting, keys) /\ keys' = keys + 1 /\ Lanes(Showing(item))
        /\ HeldBy(item) = {}
    BY DEF ToastInv, New, NextKey, HeldBy
  <1>2. /\ LaneFits(Showing(item).action, Showing(item).waiting, keys')
        /\ HeldBy(Showing(item).action) \subseteq HeldBy(action)
        /\ Lanes([action |-> Showing(item).action, waiting |-> Showing(item).waiting])
    BY <1>1, ShowingFits DEF NextKey
  <1>3. QED
    BY <1>2, HistoryAndLane

\* A toast less.
LEMMA ClosingKeepsToasts ==
    ASSUME ToastInv, NEW key \in Nat \ {0}, keys' = keys, Lanes(Closing(key)),
           \/ InPlaces(past', future', running', HeldBy(action), scopes')
           \/ KeyOf(action) = key /\ InPlaces(past', future', running', {}, scopes'),
           scope' \in Pages \cup {Nothing}
    PROVE  ToastInv'
  <1>1. /\ LaneFits(Closing(key).action, Closing(key).waiting, keys')
        /\ HeldBy(Closing(key).action) \subseteq HeldBy(action)
        /\ KeyOf(action) = key => HeldBy(Closing(key).action) = {}
        /\ Lanes([action |-> Closing(key).action, waiting |-> Closing(key).waiting])
    BY ClosingFits DEF ToastInv
  <1>2. CASE InPlaces(past', future', running', HeldBy(action), scopes')
    BY <1>1, <1>2, HistoryAndLane
  <1>3. CASE KeyOf(action) = key /\ InPlaces(past', future', running', {}, scopes')
    BY <1>1, <1>3, HistoryAndLane
  <1>4. QED
    BY <1>2, <1>3

\* The keys of toasts in progress are keys.
LEMMA ProgressKeys ==
    ASSUME ToastInv
    PROVE  InProgress \subseteq Nat \ {0}
  BY DEF ToastInv, LaneFits, InProgress, ToastKind, Items

\* A toast on screen has a key and an operation its kind says.
LEMMA ActionIsItem ==
    ASSUME ToastInv, ToastKind(action) # "none"
    PROVE  action # Nothing /\ action \in Items /\ action.key \in Nat \ {0} /\ KeyOf(action) = action.key
  BY DEF ToastInv, LaneFits, ToastKind, KeyOf, Items

\* New toasts, for what the history already has or for nothing in it.
LEMMA SayingKeeps ==
    ASSUME ToastInv,
           \/ \E op \in Ops, everywhere \in BOOLEAN : Undo(op, everywhere)
           \/ \E op \in Ops : UndoAgain(op)
           \/ Progress \/ Error \/ Note
    PROVE  ToastInv'
  <1>1. NextKey \in Nat \ {0}
    BY DEF ToastInv, LaneFits, NextKey
  <1>2. /\ \A op \in Ops : UndoItem(NextKey, op) \in Items
        /\ ErrorItem(NextKey, Nothing) \in Items /\ ProgressItem(NextKey) \in Items
        /\ NoteItem(NextKey) \in Items
    BY <1>1, MadeItems
  <1> DEFINE Plain(item) == item.key = NextKey /\ item.retry = Nothing
  <1>3. /\ \A op \in Ops : Plain(UndoItem(NextKey, op))
        /\ Plain(ErrorItem(NextKey, Nothing)) /\ Plain(ProgressItem(NextKey)) /\ Plain(NoteItem(NextKey))
    BY DEF UndoItem, ErrorItem, ProgressItem, NoteItem, Item
  <1>4. ASSUME NEW op \in Ops, NEW everywhere \in BOOLEAN, Undo(op, everywhere)
        PROVE  ToastInv'
    <2>1. InPlaces(past', future', running', HeldBy(action), scopes') /\ scope' \in Pages \cup {Nothing}
      BY <1>4, PushKeepsPlaces DEF Undo
    <2>2. QED
      BY <1>2, <1>3, <1>4, <2>1, NewKeeps DEF Undo
  <1>5. ASSUME UNCHANGED history, NEW item \in Items, Plain(item), New(item)
        PROVE  ToastInv'
    BY <1>5, SamePlaces, NewKeeps
  <1>6. ASSUME NEW op \in Ops, UndoAgain(op) PROVE ToastInv'
    BY <1>2, <1>3, <1>5, <1>6 DEF UndoAgain
  <1>7. CASE Progress \/ Error \/ Note
    BY <1>2, <1>3, <1>5, <1>7 DEF Progress, Error, Note
  <1>8. QED
    BY <1>4, <1>6, <1>7

\* A toast in progress becomes its result.
LEMMA ResultKeeps ==
    ASSUME ToastInv, (\E op \in Ops : Succeed(op)) \/ Fail
    PROVE  ToastInv'
  <1>1. LaneFits(action, waiting, keys) /\ keys' = keys
    BY DEF ToastInv, Succeed, Fail
  <1>2. ASSUME NEW key \in InProgress, NEW item \in Items, item.key = key, item.retry = Nothing,
               Lanes(Patching(key, item)),
               InPlaces(past', future', running', HeldBy(action), scopes'), scope' \in Pages \cup {Nothing}
        PROVE  ToastInv'
    <2>1. /\ LaneFits(Patching(key, item).action, Patching(key, item).waiting, keys')
          /\ HeldBy(Patching(key, item).action) \subseteq HeldBy(action)
          /\ Lanes([action |-> Patching(key, item).action, waiting |-> Patching(key, item).waiting])
      BY <1>1, <1>2, PatchingFits
    <2>2. QED
      BY <1>2, <2>1, HistoryAndLane
  <1>3. ASSUME NEW op \in Ops, Succeed(op) PROVE ToastInv'
    <2>1. PICK key \in InProgress : Push(op, FALSE) /\ Lanes(Patching(key, UndoItem(key, op)))
      BY <1>3 DEF Succeed
    <2>2. InPlaces(past', future', running', HeldBy(action), scopes') /\ scope' \in Pages \cup {Nothing}
      BY <2>1, PushKeepsPlaces
    <2>3. UndoItem(key, op) \in Items /\ UndoItem(key, op).key = key /\ UndoItem(key, op).retry = Nothing
      BY ProgressKeys, MadeItems DEF UndoItem, Item
    <2>4. QED
      BY <1>2, <2>1, <2>2, <2>3
  <1>4. CASE Fail
    <2>1. PICK key \in InProgress : UNCHANGED history /\ Lanes(Patching(key, ErrorItem(key, Nothing)))
      BY <1>4 DEF Fail
    <2>2. InPlaces(past', future', running', HeldBy(action), scopes') /\ scope' \in Pages \cup {Nothing}
      BY <2>1, SamePlaces
    <2>3. /\ ErrorItem(key, Nothing) \in Items /\ ErrorItem(key, Nothing).key = key
          /\ ErrorItem(key, Nothing).retry = Nothing
      BY ProgressKeys, MadeItems DEF ErrorItem, Item
    <2>4. QED
      BY <1>2, <2>1, <2>2, <2>3
  <1>5. QED
    BY <1>3, <1>4

\* A toast closes, by whoever closes it.
LEMMA CloseKeeps ==
    ASSUME ToastInv,
           (\E key \in 1 .. MaxToasts : Dismiss(key)) \/ CloseAction \/ CancelProgress \/ ExpireAction
    PROVE  ToastInv'
  <1>1. PICK key \in Nat \ {0} : UNCHANGED history /\ keys' = keys /\ Lanes(Closing(key))
    <2>1. CASE \E key \in 1 .. MaxToasts : Dismiss(key)
      BY <2>1, ToastAssumption DEF Dismiss
    <2>2. CASE CloseAction \/ CancelProgress \/ ExpireAction
      <3>1. ToastKind(action) # "none"
        BY <2>2 DEF CloseAction, CancelProgress, ExpireAction
      <3>2. action.key \in Nat \ {0}
        BY <3>1, ActionIsItem
      <3>3. QED
        BY <2>2, <3>2 DEF CloseAction, CancelProgress, ExpireAction
    <2>3. QED
      BY <2>1, <2>2
  <1>2. QED
    BY <1>1, SamePlaces, ClosingKeepsToasts

\* A failed step tried again is out of the toast that held it.
LEMMA RetryKeeps ==
    ASSUME ToastInv, ClickRetry
    PROVE  ToastInv'
  <1> DEFINE run == action.retry
  <1>1. action # Nothing /\ action \in Items /\ action.key \in Nat \ {0} /\ KeyOf(action) = action.key
        /\ run # Nothing
    BY ActionIsItem DEF ClickRetry
  <1>2. run \in ToastRuns /\ run.op \in Ops /\ HeldBy(action) = {run.op}
    BY <1>1 DEF Items, ToastRuns, HeldBy
  <1>3. /\ InPlaces(past, future, running, HeldBy(action), scopes) /\ scope \in Pages \cup {Nothing}
        /\ running' = running \cup {run} /\ past' = past /\ future' = future /\ scopes' = scopes
        /\ scope' = scope /\ keys' = keys /\ Lanes(Closing(action.key))
    BY DEF ToastInv, ClickRetry
  <1> HIDE DEF run
  <1>4. InPlaces(past', future', running', {}, scopes')
    BY <1>2, <1>3 DEF InPlaces
  <1>5. QED
    BY <1>1, <1>3, <1>4, ClosingKeepsToasts

\* A step that fails is held by the error that says so.
LEMMA FailedStepKeeps ==
    ASSUME ToastInv, NEW run \in ToastRuns, StepFails(run)
    PROVE  ToastInv'
  <1> DEFINE item == ErrorItem(NextKey, run)
             held == HeldBy(action) \cup {run.op}
  <1>1. /\ InPlaces(past, future, running, HeldBy(action), scopes) /\ scope \in Pages \cup {Nothing}
        /\ LaneFits(action, waiting, keys) /\ NextKey = keys + 1 /\ NextKey \in Nat \ {0}
    BY DEF ToastInv, LaneFits, NextKey
  <1>2. /\ run \in running /\ running' = running \ {run} /\ past' = past /\ future' = future
        /\ scopes' = scopes /\ scope' = scope /\ New(item)
    BY DEF StepFails
  <1>3. item \in Items /\ item.key = keys + 1 /\ item.kind = "error" /\ HeldBy(item) = {run.op}
    BY <1>1, MadeItems DEF ErrorItem, Item
  <1>4. InPlaces(past', future', running', held, scopes')
    BY <1>1, <1>2 DEF InPlaces, ToastRuns
  <1> HIDE DEF item, held
  <1>5. /\ keys' = keys + 1 /\ Lanes(Showing(item))
    BY <1>2, <1>3 DEF New
  <1>6. /\ LaneFits(Showing(item).action, Showing(item).waiting, keys')
        /\ HeldBy(Showing(item).action) \subseteq held
        /\ Lanes([action |-> Showing(item).action, waiting |-> Showing(item).waiting])
    BY <1>1, <1>3, <1>5, ShowingFits DEF held
  <1>7. scope' \in Pages \cup {Nothing}
    BY <1>1, <1>2
  <1>8. QED
    BY <1>4, <1>6, <1>7, HistoryAndLane

\* What is undone, redone, done or forgotten.
LEMMA HistoryKeeps ==
    ASSUME ToastInv,
           \/ KeyUndo \/ KeyRedo \/ ClickUndo
           \/ \E run \in ToastRuns : StepDone(run)
           \/ \E ops \in SUBSET Ops : Forget(ops)
    PROVE  ToastInv'
  <1>1. InPlaces(past, future, running, HeldBy(action), scopes) /\ scope \in Pages \cup {Nothing}
    BY DEF ToastInv
  <1>2. ToSet(past) \subseteq Ops
    BY <1>1, PlacesAreElements DEF InPlaces
  <1>3. CASE KeyUndo
    <2>1. NextOf("undo") \in Ops
      BY <1>1, <1>2, <1>3, NextIsThere DEF KeyUndo, InPlaces
    <2>2. QED
      BY <1>3, <2>1, UndoKeepsPlaces, HistoryStepKeeps DEF KeyUndo
  <1>4. CASE KeyRedo
    BY <1>4, RedoKeepsPlaces, HistoryStepKeeps DEF KeyRedo
  <1>5. CASE ClickUndo
    <2>1. action.op \in Ops
      BY <1>2, <1>5 DEF ClickUndo, ToastInv, OfferCanBeTaken, Range, ToSet
    <2>2. QED
      BY <1>5, <2>1, UndoKeepsPlaces, HistoryStepKeeps DEF ClickUndo
  <1>6. CASE \E run \in ToastRuns : StepDone(run)
    BY <1>6, StepKeepsPlaces, HistoryStepKeeps DEF StepDone
  <1>7. ASSUME NEW ops \in SUBSET Ops, Forget(ops) PROVE ToastInv'
    <2>1. /\ past' = Those(past, Ops \ ops) /\ future' = Those(future, Ops \ ops) /\ running' = running
          /\ scopes' = scopes /\ scope' = scope /\ KeepLanes
      BY <1>7 DEF Forget
    <2>2. /\ past' \in Seq(Ops) /\ IsInjective(past') /\ ToSet(past') \subseteq ToSet(past)
          /\ future' \in Seq(Ops) /\ IsInjective(future') /\ ToSet(future') \subseteq ToSet(future)
      BY <1>1, <2>1, FilteredHistory DEF InPlaces
    <2>3. InPlaces(past', future', running', HeldBy(action), scopes')
      BY <1>1, <2>1, <2>2 DEF InPlaces
    <2>4. QED
      BY <1>1, <2>1, <2>3, HistoryStepKeeps
  <1>8. QED
    BY <1>3, <1>4, <1>5, <1>6, <1>7

\* What moves the app, the focus, the notification or the tab.
LEMMA AttentionKeeps ==
    ASSUME ToastInv, past' = past, future' = future, scopes' = scopes, running' = running,
           scope' \in Pages \cup {Nothing}, UNCHANGED lanes
    PROVE  ToastInv'
  <1>1. action' = action /\ waiting' = waiting /\ keys' = keys
    BY DEF lanes
  <1>2. QED
    BY <1>1 DEF ToastInv, OfferCanBeTaken

\* Every step.
LEMMA ToastInvNext == ToastInv /\ [ToastNext]_toastVars => ToastInv'
  <1> SUFFICES ASSUME ToastInv, [ToastNext]_toastVars PROVE ToastInv'
    OBVIOUS
  <1>1. CASE \/ \E op \in Ops, everywhere \in BOOLEAN : Undo(op, everywhere)
             \/ \E op \in Ops : UndoAgain(op)
             \/ Progress \/ Error \/ Note
    BY <1>1, SayingKeeps
  <1>2. CASE (\E op \in Ops : Succeed(op)) \/ Fail
    BY <1>2, ResultKeeps
  <1>3. CASE (\E key \in 1 .. MaxToasts : Dismiss(key)) \/ CloseAction \/ CancelProgress \/ ExpireAction
    BY <1>3, CloseKeeps
  <1>4. CASE KeyUndo \/ KeyRedo \/ ClickUndo \/ (\E op \in Ops : Forget({op})) \/ Forget(Ops)
    <2>1. \/ KeyUndo \/ KeyRedo \/ ClickUndo
          \/ \E ops \in SUBSET Ops : Forget(ops)
      <3>1. Ops \in SUBSET Ops /\ \A op \in Ops : {op} \in SUBSET Ops
        OBVIOUS
      <3>2. QED
        BY <1>4, <3>1
    <2>2. QED
      BY <2>1, HistoryKeeps
  <1>5. CASE ClickRetry
    BY <1>5, RetryKeeps
  <1>6. ASSUME NEW op \in Ops, NEW step \in Steps,
               StepDone([op |-> op, step |-> step]) \/ StepFails([op |-> op, step |-> step])
        PROVE  ToastInv'
    <2>1. [op |-> op, step |-> step] \in ToastRuns
      BY DEF ToastRuns
    <2>2. QED
      BY <1>6, <2>1, HistoryKeeps, FailedStepKeeps
  <1>7. CASE \/ \E s \in Pages \cup {Nothing} : SetScope(s)
             \/ \E id \in Notices : Notify(id)
             \/ \E id \in Notices : Withdraw(id)
             \/ GapPasses \/ LeaveProgress \/ CloseNotice \/ KeyF8 \/ ExpireNotice \/ HideTab
             \/ UNCHANGED toastVars
    <2>1. /\ past' = past /\ future' = future /\ scopes' = scopes /\ running' = running
          /\ UNCHANGED lanes /\ scope' \in Pages \cup {Nothing}
      <3>1. CASE \E s \in Pages \cup {Nothing} : SetScope(s)
        BY <3>1 DEF SetScope
      <3>2. CASE UNCHANGED toastVars
        BY <3>2 DEF toastVars, lanes, ToastInv
      <3>3. CASE \/ \E id \in Notices : Notify(id)
                 \/ \E id \in Notices : Withdraw(id)
                 \/ GapPasses \/ LeaveProgress \/ CloseNotice \/ KeyF8 \/ ExpireNotice \/ HideTab
        <4>1. UNCHANGED <<history, lanes>>
          BY <3>3 DEF Notify, Withdraw, GapPasses, LeaveProgress, CloseNotice, KeyF8, ExpireNotice, HideTab
        <4>2. QED
          BY <4>1 DEF history, ToastInv
      <3>4. QED
        BY <1>7, <3>1, <3>2, <3>3
    <2>2. QED
      BY <2>1, AttentionKeeps
  <1>8. QED
    BY <1>1, <1>2, <1>3, <1>4, <1>5, <1>6, <1>7 DEF ToastNext

\* The history and the lane as they begin.
LEMMA ToastInvInit == ToastInit => ToastInv
  <1> SUFFICES ASSUME ToastInit PROVE ToastInv
    OBVIOUS
  <1>1. /\ past = <<>> /\ future = <<>> /\ scope = Nothing /\ scopes = [op \in Ops |-> Nothing]
        /\ running = {} /\ action = Nothing /\ waiting = Nothing /\ keys = 0
    BY DEF ToastInit, HistoryInit, LanesInit
  <1>2. /\ <<>> \in Seq(Ops) /\ IsInjective(<<>>) /\ ToSet(<<>>) = {}
    BY DEF IsInjective, ToSet
  <1>3. HeldBy(action) = {}
    BY <1>1 DEF HeldBy
  <1>4. InPlaces(past, future, running, HeldBy(action), scopes)
    BY <1>1, <1>2, <1>3 DEF InPlaces
  <1>5. QED
    BY <1>1, <1>4 DEF ToastInv, LaneFits, OfferCanBeTaken, ToastKind

\* In a history that names an operation once, it is there once or not at all.
LEMMA TimesOnce ==
    ASSUME NEW s \in Seq(Ops), IsInjective(s), NEW op
    PROVE  Times(op, s) = IF op \in ToSet(s) THEN 1 ELSE 0
  <1> DEFINE at == {i \in DOMAIN s : s[i] = op}
  <1>1. CASE op \in ToSet(s)
    <2>1. PICK i \in DOMAIN s : s[i] = op
      BY <1>1 DEF ToSet
    <2>2. at = {i}
      BY <2>1 DEF IsInjective
    <2>3. QED
      BY <1>1, <2>2, FS_Singleton DEF Times
  <1>2. CASE op \notin ToSet(s)
    <2>1. at = {}
      BY <1>2 DEF ToSet
    <2>2. QED
      BY <1>2, <2>1, FS_EmptySet DEF Times
  <1>3. QED
    BY <1>1, <1>2

\* The invariant says that an operation is in one place.
LEMMA PlacesAreOne == ToastInv => OperationInOnePlace
  <1> SUFFICES ASSUME ToastInv, NEW op \in Ops
               PROVE  Times(op, past) + Times(op, future) + Cardinality({run \in running : run.op = op})
                        + Held(op, action) + Held(op, waiting) <= 1
    BY DEF OperationInOnePlace
  <1> DEFINE ran == {run \in running : run.op = op}
  <1>1. InPlaces(past, future, running, HeldBy(action), scopes) /\ LaneFits(action, waiting, keys)
    BY DEF ToastInv
  <1>2. /\ Times(op, past) = IF op \in ToSet(past) THEN 1 ELSE 0
        /\ Times(op, future) = IF op \in ToSet(future) THEN 1 ELSE 0
    BY <1>1, TimesOnce DEF InPlaces
  <1>3. Cardinality(ran) = IF \E run \in running : run.op = op THEN 1 ELSE 0
    <2>1. CASE \E run \in running : run.op = op
      <3>1. PICK run \in running : run.op = op
        BY <2>1
      <3>2. ran = {run}
        BY <1>1, <3>1 DEF InPlaces
      <3>3. QED
        BY <2>1, <3>2, FS_Singleton
    <2>2. CASE ~\E run \in running : run.op = op
      <3>1. ran = {}
        BY <2>2
      <3>2. QED
        BY <2>2, <3>1, FS_EmptySet
    <2>3. QED
      BY <2>1, <2>2
  <1> HIDE DEF ran
  <1>4. Held(op, action) = IF op \in HeldBy(action) THEN 1 ELSE 0
    BY DEF Held, HeldBy
  <1>5. Held(op, waiting) = 0
    BY <1>1 DEF Held, LaneFits
  <1>6. /\ ~(op \in ToSet(past) /\ op \in ToSet(future))
        /\ op \in HeldBy(action) => op \notin ToSet(past) \cup ToSet(future)
        /\ (\E run \in running : run.op = op) => op \notin ToSet(past) \cup ToSet(future) \cup HeldBy(action)
    BY <1>1 DEF InPlaces
  <1>7. QED
    BY <1>2, <1>3, <1>4, <1>5, <1>6 DEF ran

\* Whatever is done, undone, redone, retried, dismissed and forgotten, in whatever order steps end and
\* toasts close, for any number of operations, toasts and pages: an operation is in one place, an undo
\* toast on screen can be undone, and what waits, waits for an error (Toast/store.ts, undo/store.ts).
THEOREM ToastsHold == ToastSpec => []ToastsAgree
  <1>1. ToastInv => ToastsAgree
    BY PlacesAreOne DEF ToastInv, LaneFits, ToastsAgree, WaitsForAnError, ToastKind
  <1>2. QED
    BY <1>1, ToastInvInit, ToastInvNext, PTL DEF ToastSpec
=============================================================================
