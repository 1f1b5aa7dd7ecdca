-------------------------- MODULE UserSessionsProofs --------------------------
(* What holds of UserSessions for any users, addresses, numbers of client ids  *)
(* and bounds.                                                                 *)
EXTENDS UserSessions, TLAPS

LEMMA InitTypes == Init => TypeOK
<1> SUFFICES ASSUME Init PROVE TypeOK
  OBVIOUS
<1> USE DEF Init
<1>1. DOMAIN hosts = {} /\ DOMAIN LimboClients = {}
  OBVIOUS
<1>2. hosts \in [DOMAIN hosts -> Session]
  BY <1>1
<1>3. LimboClients \in [DOMAIN LimboClients -> [addr : Addresses, quitId : 1 .. MaxQuitId]]
  BY <1>1
<1>4. /\ lastQuit \in [Users -> 0 .. MaxQuitId] /\ connects \in [Users -> Nat]
      /\ wsPlayers \in [Users -> Int]
  BY BoundsAssumption
<1>5. Live = DOMAIN hosts
  BY <1>1 DEF Live
<1>6. EGSTypeOK
  <2>1. toEGS \in [Users -> Seq(Messages)] /\ toFE \in [Users -> Nat]
    OBVIOUS
  <2>2. DOMAIN players = {} /\ players \in [DOMAIN players -> [inGame : BOOLEAN, timed : BOOLEAN]]
    OBVIOUS
  <2> QED BY <2>1, <2>2 DEF EGSTypeOK
<1> QED
  BY <1>1, <1>2, <1>3, <1>4, <1>5, <1>6 DEF TypeOK

\* What each helper makes has the type its variable has.
LEMMA TellEGSTypes ==
  ASSUME TypeOK, NEW gone, NEW come, TellEGS(gone, come)
  PROVE  connects' \in [Users -> Nat] /\ toEGS' \in [Users -> Seq(Messages)]
<1>1. connects' \in [Users -> Nat]
  BY DEF TypeOK, TellEGS, Count
<1>2. ASSUME NEW u \in Users
      PROVE  toEGS[u] \o One(u \in gone, "CL_DISCONNECT") \o One(u \in come, "CL_CONNECT")
               \in Seq(Messages)
  <2>1. toEGS[u] \in Seq(Messages)
    BY DEF TypeOK, EGSTypeOK
  <2>2. /\ <<"CL_DISCONNECT">> \in Seq(Messages) /\ <<"CL_CONNECT">> \in Seq(Messages)
        /\ <<>> \in Seq(Messages)
    BY DEF Messages
  <2>3. /\ One(u \in gone, "CL_DISCONNECT") \in Seq(Messages)
        /\ One(u \in come, "CL_CONNECT") \in Seq(Messages)
    BY <2>2 DEF One
  <2> QED BY <2>1, <2>3
<1>3. toEGS' \in [Users -> Seq(Messages)]
  BY <1>2 DEF TypeOK, EGSTypeOK, TellEGS
<1> QED BY <1>1, <1>3

LEMMA TellWSTypes ==
  ASSUME TypeOK, NEW gone, NEW come \in SUBSET Users, NEW refused, TellWS(gone, come, refused)
  PROVE  wsPlayers' \in [Users -> Int] /\ wsOnline' \subseteq Users
BY DEF TypeOK, TellWS, Count

LEMMA WithLeftTypes ==
  ASSUME TypeOK, NEW ids
  PROVE  WithLeft(ids) \in [DOMAIN hosts -> Session]
BY DEF TypeOK, WithLeft, Session

LEMMA WithoutLimboTypes ==
  ASSUME TypeOK, NEW users
  PROVE  /\ DOMAIN WithoutLimbo(users) \subseteq Users
         /\ WithoutLimbo(users) \in [DOMAIN WithoutLimbo(users) ->
                                      [addr : Addresses, quitId : 1 .. MaxQuitId]]
BY DEF TypeOK, WithoutLimbo, Restrict

LEMMA WithRemovalsTypes ==
  ASSUME TypeOK, NEW ids \in SUBSET DOMAIN hosts
  PROVE  WithRemovals(ids) \subseteq [id : Ids, wait : 0 .. RemovalDelay, for : Users]
BY NbClientsAssumption DEF TypeOK, WithRemovals, Session

LEMMA DisconnectClientTypes ==
  ASSUME TypeOK, EGSTypeOK', NEW u \in Users, DisconnectClient(u),
         UNCHANGED <<phase, PendingUsers, MaxNbClients, ShardDown, egsUp>>
  PROVE  TypeOK'
<1>1. toRemove' \subseteq [id : Ids, wait : 0 .. RemovalDelay, for : Users]
  BY WithRemovalsTypes DEF DisconnectClient, HostsOf, Live
<1>2. /\ DOMAIN LimboClients' \subseteq Users
      /\ LimboClients' \in [DOMAIN LimboClients' -> [addr : Addresses, quitId : 1 .. MaxQuitId]]
  BY WithoutLimboTypes DEF DisconnectClient, TypeOK
<1>3. /\ wsPlayers' \in [Users -> Int] /\ connects' \in [Users -> Nat]
      /\ wsOnline' \subseteq Users
  BY TellEGSTypes, TellWSTypes, Zenon DEF DisconnectClient, TellGone, toldVars, TypeOK
<1> QED
  BY <1>1, <1>2, <1>3 DEF DisconnectClient, TypeOK, Live, Ids

\* The FE changes only the mail of the EGS, and toFE when it takes from it.
LEMMA FEKeepsEGSTypes == TypeOK /\ FE => EGSTypeOK'
<1> SUFFICES ASSUME TypeOK, FE PROVE EGSTypeOK'
  OBVIOUS
<1>1. toEGS' = toEGS \/ \E gone, come : TellEGS(gone, come)
  BY DEF FE, BeginTick, Disconnection, AddClient, RefuseClient, RejectClient, Quit, EndTick,
         ChooseShard, Restore, CannotRestore, LimboTimeOut, DisconnectClientOfEGS,
         DisconnectClientOfWS, DisconnectClient, DisconnectAllClients, EGSDown, TellGone,
         TellNotRestored, toldVars
<1>2. toEGS' \in [Users -> Seq(Messages)]
  BY <1>1, TellEGSTypes DEF TypeOK, EGSTypeOK
<1>3. /\ UNCHANGED <<players, DisconnectedUser, sentAway>>
      /\ \/ toFE' = toFE
         \/ \E u \in Users : toFE[u] > 0 /\ toFE' = [toFE EXCEPT ![u] = @ - 1]
  BY DEF FE, BeginTick, Disconnection, AddClient, RefuseClient, RejectClient, Quit, EndTick,
         ChooseShard, Restore, CannotRestore, ExitFromLimbo, LimboTimeOut, DisconnectClientOfEGS,
         DisconnectClientOfWS, DisconnectAllClients, EGSDown, Login, egsVars
<1>4. toFE' \in [Users -> Nat]
  BY <1>3 DEF TypeOK, EGSTypeOK
<1> QED BY <1>2, <1>3, <1>4 DEF TypeOK, EGSTypeOK

\* One step of this proof for each action of the FE.
LEMMA FETypes == TypeOK /\ FE => TypeOK'
<1> SUFFICES ASSUME TypeOK, FE PROVE TypeOK'
  OBVIOUS
<1>0. EGSTypeOK'
  BY FEKeepsEGSTypes
<1> USE <1>0
<1> USE DEF egsVars
<1>1. CASE BeginTick
  <2>1. hosts' \in [DOMAIN hosts -> Session]
    BY <1>1, WithLeftTypes DEF BeginTick
  <2>2. wsPlayers' \in [Users -> Int] /\ connects' \in [Users -> Nat] /\ wsOnline' \subseteq Users
    BY <1>1, TellEGSTypes, TellWSTypes DEF BeginTick, TellGone
  <2>3. toRemove' \subseteq [id : Ids, wait : 0 .. RemovalDelay, for : Users]
    BY <1>1, NbClientsAssumption DEF BeginTick, TypeOK, Ids
  <2> QED BY <1>1, <2>1, <2>2, <2>3 DEF BeginTick, TypeOK, Ids
<1>2. ASSUME NEW a \in Addresses, Disconnection(a) PROVE TypeOK'
  <2>1. hosts' \in [DOMAIN hosts -> Session]
    BY <1>2, WithLeftTypes DEF Disconnection
  <2>2. wsPlayers' \in [Users -> Int] /\ connects' \in [Users -> Nat] /\ wsOnline' \subseteq Users
    BY <1>2, TellEGSTypes, TellWSTypes DEF Disconnection, TellGone
  <2>3. toRemove' \subseteq toRemove
    BY <1>2 DEF Disconnection, WithoutRemovals
  <2> QED BY <1>2, <2>1, <2>2, <2>3, WithoutLimboTypes DEF Disconnection, TypeOK, Ids, loopVars
<1>3. ASSUME NEW a \in Addresses, NEW u \in Users, AddClient(u, a) PROVE TypeOK'
  <2>1. DOMAIN hosts' \subseteq Ids /\ hosts' \in [DOMAIN hosts' -> Session]
    BY <1>3, BoundsAssumption DEF AddClient, Added, Host, Session, TypeOK
  <2>2. wsPlayers' \in [Users -> Int] /\ connects' \in [Users -> Nat] /\ wsOnline' \subseteq Users
    BY <1>3, TellEGSTypes, TellWSTypes DEF AddClient
  <2>3. lastQuit' \in [Users -> 0 .. MaxQuitId]
    BY <1>3, BoundsAssumption DEF AddClient, TypeOK
  <2> QED BY <1>3, <2>1, <2>2, <2>3, WithoutLimboTypes DEF AddClient, Login, TypeOK, Ids
<1>4. ASSUME NEW a \in Addresses, NEW u \in Users, RefuseClient(u, a) PROVE TypeOK'
  <2>2. wsPlayers' \in [Users -> Int] /\ connects' \in [Users -> Nat] /\ wsOnline' \subseteq Users
    BY <1>4, TellEGSTypes, TellWSTypes DEF RefuseClient
  <2>3. toRemove' \subseteq [id : Ids, wait : 0 .. RemovalDelay, for : Users]
    BY <1>4, WithRemovalsTypes DEF RefuseClient, HostsOf, Live
  <2> QED BY <1>4, <2>2, <2>3, WithoutLimboTypes DEF RefuseClient, Login, TypeOK, Ids
<1>5. ASSUME NEW c \in Ids, RejectClient(c) PROVE TypeOK'
  <2>3. toRemove' \subseteq [id : Ids, wait : 0 .. RemovalDelay, for : Users]
    BY <1>5, WithRemovalsTypes DEF RejectClient, Live
  <2> QED BY <1>5, <2>3 DEF RejectClient, TypeOK, Ids, Live, loopVars, toldVars
<1>6. ASSUME NEW c \in Ids, NEW q \in 1 .. MaxQuitId, Quit(c, q) PROVE TypeOK'
  <2>1. DOMAIN hosts' \subseteq Ids /\ hosts' \in [DOMAIN hosts' -> Session]
    BY <1>6 DEF Quit, Restrict, TypeOK, Ids
  <2>2. connects' \in [Users -> Nat]
    BY <1>6, TellEGSTypes DEF Quit
  <2>3. lastQuit' \in [Users -> 0 .. MaxQuitId]
    <3>1. lastQuit' = [lastQuit EXCEPT ![hosts[c].uid] = q]
      BY <1>6 DEF Quit
    <3>2. q \in 0 .. MaxQuitId
      BY BoundsAssumption
    <3> QED BY <3>1, <3>2 DEF TypeOK
  <2>4. /\ DOMAIN LimboClients' \subseteq Users
        /\ LimboClients' \in [DOMAIN LimboClients' -> [addr : Addresses, quitId : 1 .. MaxQuitId]]
    <3> DEFINE u == hosts[c].uid
               entry == [addr |-> hosts[c].addr, quitId |-> q]
    <3>1. u \in Users /\ entry \in [addr : Addresses, quitId : 1 .. MaxQuitId]
      BY <1>6 DEF Quit, TypeOK, Session, Live
    <3>2. LimboClients' = [v \in DOMAIN LimboClients \cup {u} |->
                             IF v = u THEN entry ELSE LimboClients[v]]
      BY <1>6 DEF Quit
    <3> QED BY <3>1, <3>2 DEF TypeOK
  <2> QED BY <1>6, <2>1, <2>2, <2>3, <2>4 DEF Quit, TypeOK, Ids, loopVars
<1>7. ASSUME NEW dead \in SUBSET Live, EndTick(dead) PROVE TypeOK'
  <2>1. hosts' \in [DOMAIN hosts' -> Session] /\ DOMAIN hosts' = Live \ dead
    BY <1>7 DEF EndTick, Restrict, TypeOK, Live
  <2>2. wsPlayers' \in [Users -> Int] /\ connects' \in [Users -> Nat] /\ wsOnline' \subseteq Users
    BY <1>7, TellEGSTypes, TellWSTypes DEF EndTick, TellGone
  <2>3. toRemove' \subseteq toRemove
    BY <1>7 DEF EndTick, WithoutRemovals
  <2>4. Live' = DOMAIN hosts'
    BY <1>7, <2>1 DEF EndTick, Restrict, Live
  <2>5. DOMAIN hosts' \subseteq Ids
    BY <2>1 DEF Live, TypeOK
  <2> QED BY <1>7, <2>1, <2>2, <2>3, <2>4, <2>5 DEF EndTick, TypeOK, Ids
<1>8. ASSUME NEW u \in Users, ChooseShard(u) PROVE TypeOK'
  BY <1>8 DEF ChooseShard, TypeOK, Ids, Live, sessionVars, toldVars
<1>9. ASSUME NEW u \in Users, Restore(u) PROVE TypeOK'
  <2>1. DOMAIN hosts' \subseteq Ids /\ hosts' \in [DOMAIN hosts' -> Session]
    BY <1>9 DEF Restore, ExitFromLimbo, Added, Host, Restored, Session, TypeOK
  <2>4. Live' = DOMAIN hosts'
    BY <1>9 DEF Restore, ExitFromLimbo, Added, Host, Restored, Live, TypeOK
  <2> QED BY <1>9, <2>1, <2>4, WithoutLimboTypes
          DEF Restore, ExitFromLimbo, TypeOK, Ids, loopVars, toldVars
<1>10. ASSUME NEW u \in Users, CannotRestore(u) PROVE TypeOK'
  <2>2. wsPlayers' \in [Users -> Int] /\ connects' \in [Users -> Nat] /\ wsOnline' \subseteq Users
    BY <1>10, TellEGSTypes, TellWSTypes DEF CannotRestore, TellNotRestored
  <2>3. toRemove' \subseteq [id : Ids, wait : 0 .. RemovalDelay, for : Users]
    BY <1>10, WithRemovalsTypes DEF CannotRestore, HostsOf, Live
  <2> QED BY <1>10, <2>2, <2>3, WithoutLimboTypes
          DEF CannotRestore, ExitFromLimbo, TypeOK, Ids, Live, loopVars
<1>11. ASSUME NEW u \in Users, LimboTimeOut(u) PROVE TypeOK'
  <2>2. wsPlayers' \in [Users -> Int] /\ connects' \in [Users -> Nat] /\ wsOnline' \subseteq Users
    BY <1>11, TellEGSTypes, TellWSTypes DEF LimboTimeOut, TellGone
  <2> QED BY <1>11, <2>2, WithoutLimboTypes DEF LimboTimeOut, TypeOK, Ids, Live, loopVars
<1>12. ASSUME NEW u \in Users, DisconnectClientOfEGS(u) PROVE TypeOK'
  BY <1>12, DisconnectClientTypes DEF DisconnectClientOfEGS, loopVars
<1>13. ASSUME NEW u \in Users, DisconnectClientOfWS(u) PROVE TypeOK'
  BY <1>13, DisconnectClientTypes DEF DisconnectClientOfWS, loopVars
<1>14. CASE DisconnectAllClients
  <2>2. wsPlayers' \in [Users -> Int] /\ connects' \in [Users -> Nat] /\ wsOnline' \subseteq Users
    BY <1>14, TellEGSTypes, TellWSTypes DEF DisconnectAllClients, TellGone
  <2>3. toRemove' \subseteq [id : Ids, wait : 0 .. RemovalDelay, for : Users]
    BY <1>14, WithRemovalsTypes DEF DisconnectAllClients, Live
  <2> QED BY <1>14, <2>2, <2>3, WithoutLimboTypes
          DEF DisconnectAllClients, TypeOK, Ids, Live, loopVars
<1>15. CASE EGSDown
  <2>1. DOMAIN LimboClients' = {}
    BY <1>15 DEF EGSDown
  <2>2. LimboClients' \in [DOMAIN LimboClients' -> [addr : Addresses, quitId : 1 .. MaxQuitId]]
    BY <1>15, <2>1 DEF EGSDown
  <2>3. wsPlayers' \in [Users -> Int] /\ wsOnline' \subseteq Users
    BY <1>15, TellWSTypes DEF EGSDown
  <2>4. connects' \in [Users -> Nat]
    BY <1>15 DEF EGSDown
  <2> QED BY <1>15, <2>1, <2>2, <2>3, <2>4 DEF EGSDown, TypeOK, Ids, Live
<1> QED
  BY <1>1, <1>2, <1>3, <1>4, <1>5, <1>6, <1>7, <1>8, <1>9, <1>10, <1>11, <1>12, <1>13, <1>14,
     <1>15 DEF FE

\* What a step of the EGS does to its mail and its players.
LEMMA TakeMessageTypes ==
  ASSUME TypeOK, NEW u \in Users, NEW message, TakeMessage(u, message)
  PROVE  toEGS' \in [Users -> Seq(Messages)]
BY DEF TypeOK, EGSTypeOK, TakeMessage

LEMMA WithoutPlayerTypes ==
  ASSUME TypeOK, NEW u
  PROVE  /\ DOMAIN WithoutPlayer(u) \subseteq Users
         /\ WithoutPlayer(u) \in [DOMAIN WithoutPlayer(u) -> [inGame : BOOLEAN, timed : BOOLEAN]]
BY DEF TypeOK, EGSTypeOK, WithoutPlayer, Restrict

\* One step of this proof for each action of the EGS.
LEMMA EGSTypes == TypeOK /\ EGS => TypeOK'
<1> SUFFICES ASSUME TypeOK, EGS PROVE TypeOK'
  OBVIOUS
<1>1. /\ UNCHANGED <<phase, PendingUsers, MaxNbClients, sessionVars, connects, wsPlayers, wsOnline>>
      /\ egsUp' \in BOOLEAN /\ ShardDown' \in BOOLEAN
  BY DEF EGS, EGSUp, EGSCrash, ClientConnection, ClientRefused, ClientDisconnection, SelectChar,
         TickUpdate, QuitCountdown, CharRefused, SendAway, TakeMessage, EGSOnly, loopVars,
         sessionVars, toldVars, TypeOK
<1>2. EGSTypeOK'
  <2>1. CASE EGSUp
    BY <2>1 DEF EGSUp, TypeOK, EGSTypeOK, toldVars
  <2>2. CASE EGSCrash
    <3>1. /\ toEGS' \in [Users -> Seq(Messages)] /\ toFE' = toFE
          /\ DOMAIN players' = {} /\ DisconnectedUser' = {} /\ sentAway' = {}
      BY <2>2 DEF EGSCrash
    <3>2. players' \in [DOMAIN players' -> [inGame : BOOLEAN, timed : BOOLEAN]]
      BY <2>2 DEF EGSCrash
    <3> QED BY <3>1, <3>2 DEF TypeOK, EGSTypeOK
  <2>3. ASSUME NEW u \in Users, ClientConnection(u) PROVE EGSTypeOK'
    <3>1. toEGS' \in [Users -> Seq(Messages)]
      BY <2>3, TakeMessageTypes DEF ClientConnection
    <3> QED BY <2>3, <3>1 DEF ClientConnection, TypeOK, EGSTypeOK
  <2>4. ASSUME NEW u \in Users, ClientRefused(u) PROVE EGSTypeOK'
    <3>1. toEGS' \in [Users -> Seq(Messages)]
      BY <2>4, TakeMessageTypes DEF ClientRefused
    <3>2. toFE' \in [Users -> Nat]
      BY <2>4 DEF ClientRefused, Refuse, TypeOK, EGSTypeOK
    <3>3. UNCHANGED <<players, DisconnectedUser>> /\ sentAway' = sentAway \ {u}
      BY <2>4 DEF ClientRefused
    <3> QED BY <3>1, <3>2, <3>3 DEF TypeOK, EGSTypeOK
  <2>5. ASSUME NEW u \in Users, ClientDisconnection(u) PROVE EGSTypeOK'
    <3>1. toEGS' \in [Users -> Seq(Messages)]
      BY <2>5, TakeMessageTypes DEF ClientDisconnection
    <3>2. UNCHANGED <<toFE, sentAway>> /\ DisconnectedUser' \subseteq Users
      BY <2>5 DEF ClientDisconnection, TypeOK, EGSTypeOK
    <3>3. \/ players' = players \/ players' = WithoutPlayer(u)
          \/ u \in DOMAIN players /\ players' = [players EXCEPT ![u].timed = TRUE]
      BY <2>5 DEF ClientDisconnection
    <3>4. /\ DOMAIN players' \subseteq Users
          /\ players' \in [DOMAIN players' -> [inGame : BOOLEAN, timed : BOOLEAN]]
      <4>1. CASE players' = WithoutPlayer(u)
        BY <4>1, WithoutPlayerTypes
      <4>2. CASE u \in DOMAIN players /\ players' = [players EXCEPT ![u].timed = TRUE]
        BY <4>2 DEF TypeOK, EGSTypeOK
      <4> QED BY <3>3, <4>1, <4>2 DEF TypeOK, EGSTypeOK
    <3> QED BY <3>1, <3>2, <3>4 DEF TypeOK, EGSTypeOK
  <2>6. ASSUME NEW u \in Users, SelectChar(u) PROVE EGSTypeOK'
    BY <2>6 DEF SelectChar, TypeOK, EGSTypeOK
  <2>7. ASSUME NEW u \in Users, TickUpdate(u) PROVE EGSTypeOK'
    BY <2>7, WithoutPlayerTypes DEF TickUpdate, TypeOK, EGSTypeOK
  <2>8. ASSUME NEW u \in Users, QuitCountdown(u) \/ CharRefused(u) PROVE EGSTypeOK'
    BY <2>8, WithoutPlayerTypes DEF QuitCountdown, CharRefused, SendAway, TypeOK, EGSTypeOK
  <2> QED BY <2>1, <2>2, <2>3, <2>4, <2>5, <2>6, <2>7, <2>8 DEF EGS
<1> QED
  BY <1>1, <1>2 DEF sessionVars, TypeOK, Ids, Live

LEMMA StutterTypes == TypeOK /\ UNCHANGED vars => TypeOK'
BY DEF vars, loopVars, sessionVars, egsVars, toldVars, TypeOK, EGSTypeOK, Live, Ids

\* The variables keep their types, and between two ticks no client that was
\* removed still has its id.
THEOREM SessionTypes == Spec => []TypeOK
<1>1. TypeOK /\ [Next]_vars => TypeOK'
  BY FETypes, EGSTypes, StutterTypes DEF Next
<1> QED BY InitTypes, <1>1, PTL DEF Spec

--------------------------------------------------------------------------------
\* The sessions.  An entry of limbo mode has to remember the last QUIT for the
\* client host that is made of it.
LimboRemembersQuit == \A u \in DOMAIN LimboClients : LimboClients[u].quitId = lastQuit[u]

SessionInv == OneSession /\ RemovalReachesItsClient /\ QuitServedOnce /\ LimboRemembersQuit

\* A step leaves the client host c what it is, but for its removal.
SameHost(c) == hosts'[c].uid = hosts[c].uid /\ hosts'[c].addr = hosts[c].addr
                 /\ hosts'[c].quitId = hosts[c].quitId

\* What the ways to change the client hosts and the limbo mode do.
LEMMA LeftHosts ==
  ASSUME TypeOK, NEW ids, hosts' = WithLeft(ids)
  PROVE  Live' = Live \ ids /\ \A c \in DOMAIN hosts : SameHost(c)
BY DEF TypeOK, WithLeft, Live, Session, SameHost

LEMMA RestrictedHosts ==
  ASSUME TypeOK, NEW S \in SUBSET DOMAIN hosts, hosts' = Restrict(hosts, S)
  PROVE  Live' = Live \cap S /\ \A c \in S : SameHost(c)
BY DEF TypeOK, Restrict, Live, SameHost

LEMMA AddedHost ==
  ASSUME TypeOK, NEW c \in Ids \ DOMAIN hosts, NEW u, NEW a, NEW q, hosts' = Added(c, Host(u, a, q))
  PROVE  /\ Live' = Live \cup {c} /\ c \notin Live
         /\ hosts'[c].uid = u /\ hosts'[c].addr = a /\ hosts'[c].quitId = q
         /\ \A d \in Live : SameHost(d)
BY DEF TypeOK, Added, Host, Live, SameHost

LEMMA LimboWithout ==
  ASSUME NEW users, LimboClients' = WithoutLimbo(users)
  PROVE  /\ DOMAIN LimboClients' = DOMAIN LimboClients \ users
         /\ \A u \in DOMAIN LimboClients' : LimboClients'[u] = LimboClients[u]
BY DEF WithoutLimbo, Restrict

\* Steps that make no session and change none that goes on.
SessionsShrink ==
  /\ \A c \in Live' : c \in Live /\ SameHost(c)
  /\ \A u \in DOMAIN LimboClients' : u \in DOMAIN LimboClients /\ LimboClients'[u] = LimboClients[u]
  /\ lastQuit' = lastQuit

LEMMA Shrinking ==
  ASSUME SessionInv, SessionsShrink
  PROVE  OneSession' /\ QuitServedOnce' /\ LimboRemembersQuit'
BY DEF SessionInv, SessionsShrink, SameHost, OneSession, QuitServedOnce, LimboRemembersQuit

LEMMA NewRemovals ==
  ASSUME TypeOK, SessionInv, NEW ids \in SUBSET Live, toRemove' = WithRemovals(ids), UNCHANGED hosts
  PROVE  RemovalReachesItsClient'
BY DEF SessionInv, RemovalReachesItsClient, WithRemovals, IsInRemoveList, Live

LEMMA DisconnectClientSessions ==
  ASSUME TypeOK, SessionInv, NEW u \in Users, DisconnectClient(u)
  PROVE  SessionInv'
<1>1. SessionsShrink
  BY LimboWithout DEF DisconnectClient, SessionsShrink, SameHost, Live
<1>2. RemovalReachesItsClient'
  BY NewRemovals DEF DisconnectClient, HostsOf
<1> QED BY <1>1, <1>2, Shrinking DEF SessionInv

\* Sessions are made by AddClient, Quit and Restore.
LEMMA FESessions == TypeOK /\ SessionInv /\ FE => SessionInv'
<1> SUFFICES ASSUME TypeOK, SessionInv, FE PROVE SessionInv'
  OBVIOUS
<1> USE DEF egsVars
<1>1. CASE BeginTick
  <2> DEFINE due == {e.id : e \in {e \in toRemove : e.wait = 0}} \cap Live
  <2>1. hosts' = WithLeft(due) /\ UNCHANGED <<LimboClients, lastQuit>>
    BY <1>1 DEF BeginTick
  <2>2. Live' = Live \ due /\ \A c \in DOMAIN hosts : SameHost(c)
    BY <2>1, LeftHosts
  <2>3. SessionsShrink
    BY <2>1, <2>2 DEF SessionsShrink, Live
  <2>4. RemovalReachesItsClient'
    <3>1. toRemove' = {[e EXCEPT !.wait = @ - 1] : e \in {e \in toRemove : e.wait > 0}}
      BY <1>1 DEF BeginTick
    <3>2. \A e \in toRemove' : \E f \in toRemove :
            f.wait > 0 /\ e.id = f.id /\ e.for = f.for /\ e = [f EXCEPT !.wait = @ - 1]
      BY <3>1 DEF TypeOK
    <3>3. \A f \in toRemove : f.wait > 0 => f.id \notin due
      BY DEF SessionInv, RemovalReachesItsClient
    <3> QED BY <3>2, <3>3, <2>2 DEF SessionInv, RemovalReachesItsClient, SameHost, Live
  <2> QED BY <2>3, <2>4, Shrinking DEF SessionInv
<1>2. ASSUME NEW a \in Addresses, Disconnection(a) PROVE SessionInv'
  <2>1. /\ hosts' = WithLeft(HostsAt(a)) /\ toRemove' = WithoutRemovals(HostsAt(a))
        /\ lastQuit' = lastQuit
    BY <1>2 DEF Disconnection
  <2>2. Live' = Live \ HostsAt(a) /\ \A c \in DOMAIN hosts : SameHost(c)
    BY <2>1, LeftHosts
  <2>3. SessionsShrink
    BY <1>2, <2>1, <2>2, LimboWithout DEF Disconnection, SessionsShrink, Live
  <2>4. RemovalReachesItsClient'
    BY <2>1, <2>2 DEF SessionInv, RemovalReachesItsClient, WithoutRemovals, SameHost, Live
  <2> QED BY <2>3, <2>4, Shrinking DEF SessionInv
<1>3. ASSUME NEW a \in Addresses, NEW u \in Users, AddClient(u, a) PROVE SessionInv'
  <2>1. PICK c \in Ids \ DOMAIN hosts : hosts' = Added(c, Host(u, a, 0))
    BY <1>3 DEF AddClient, IsNewClientId
  <2>2. /\ Live' = Live \cup {c} /\ c \notin Live
        /\ hosts'[c].uid = u /\ hosts'[c].addr = a /\ hosts'[c].quitId = 0
        /\ \A d \in Live : SameHost(d)
    BY <2>1, AddedHost
  <2>3. \A d \in Live : hosts[d].uid # u /\ hosts[d].addr # a
    BY <1>3 DEF AddClient, Login, HostsOf, HostsAt
  <2>4. /\ DOMAIN LimboClients' = DOMAIN LimboClients \ LeavesLimbo(u, a)
        /\ \A v \in DOMAIN LimboClients' : LimboClients'[v] = LimboClients[v]
    BY <1>3, LimboWithout DEF AddClient, Login
  <2>5. \A v \in DOMAIN LimboClients' : v # u /\ LimboClients[v].addr # a /\ v \in DOMAIN LimboClients
    BY <2>4 DEF LeavesLimbo, LimboAt
  <2>6. lastQuit'[u] = 0 /\ \A v \in Users : v # u => lastQuit'[v] = lastQuit[v]
    BY <1>3 DEF AddClient, TypeOK
  <2>7. OneSession'
    BY <2>2, <2>3, <2>4, <2>5 DEF SessionInv, OneSession, SameHost
  <2>8. RemovalReachesItsClient'
    BY <1>3, <2>2 DEF AddClient, SessionInv, RemovalReachesItsClient, SameHost
  <2>9. QuitServedOnce' /\ LimboRemembersQuit'
    <3>1. \A d \in Live : hosts[d].uid \in Users
      BY DEF TypeOK, Session, Live
    <3> QED BY <2>2, <2>3, <2>4, <2>5, <2>6, <3>1
            DEF SessionInv, QuitServedOnce, LimboRemembersQuit, SameHost, TypeOK
  <2> QED BY <2>7, <2>8, <2>9 DEF SessionInv
<1>4. ASSUME NEW a \in Addresses, NEW u \in Users, RefuseClient(u, a) PROVE SessionInv'
  <2>1. SessionsShrink
    BY <1>4, LimboWithout DEF RefuseClient, Login, SessionsShrink, SameHost, Live
  <2>2. RemovalReachesItsClient'
    BY <1>4, NewRemovals DEF RefuseClient, HostsOf
  <2> QED BY <2>1, <2>2, Shrinking DEF SessionInv
<1>5. ASSUME NEW c \in Ids, RejectClient(c) PROVE SessionInv'
  <2>1. SessionsShrink
    BY <1>5 DEF RejectClient, SessionsShrink, SameHost, Live
  <2>2. RemovalReachesItsClient'
    BY <1>5, NewRemovals DEF RejectClient
  <2> QED BY <2>1, <2>2, Shrinking DEF SessionInv
<1>6. ASSUME NEW c \in Ids, NEW q \in 1 .. MaxQuitId, Quit(c, q) PROVE SessionInv'
  <2> DEFINE u == hosts[c].uid
             entry == [addr |-> hosts[c].addr, quitId |-> q]
  <2>1. /\ hosts' = Restrict(hosts, DOMAIN hosts \ {c}) /\ toRemove' = toRemove
        /\ LimboClients' = [v \in DOMAIN LimboClients \cup {u} |->
                              IF v = u THEN entry ELSE LimboClients[v]]
        /\ c \in Live /\ ~IsInRemoveList(c)
    BY <1>6 DEF Quit, ServesQuit
  <2>2. Live' = Live \ {c} /\ \A d \in DOMAIN hosts \ {c} : SameHost(d)
    <3>1. Live' = Live \cap (DOMAIN hosts \ {c}) /\ \A d \in DOMAIN hosts \ {c} : SameHost(d)
      BY <2>1, RestrictedHosts
    <3> QED BY <3>1 DEF Live
  <2>3. /\ DOMAIN LimboClients' = DOMAIN LimboClients \cup {u}
        /\ LimboClients'[u].addr = hosts[c].addr /\ LimboClients'[u].quitId = q
        /\ \A v \in DOMAIN LimboClients : v # u => LimboClients'[v] = LimboClients[v]
    BY <2>1
  <2>4. OneSession'
    <3>1. \A d \in Live \ {c} : d \in DOMAIN hosts \ {c}
      BY DEF Live
    <3>2. \A d \in Live' : /\ d \in Live /\ d # c /\ hosts'[d].uid = hosts[d].uid
                          /\ hosts'[d].addr = hosts[d].addr
      BY <2>2, <3>1 DEF SameHost
    <3>3. \A v \in DOMAIN LimboClients : v # u /\ LimboClients'[v].addr # hosts[c].addr
      BY <2>1, <2>3 DEF SessionInv, OneSession
    <3>4. \A d, e \in Live' :
            hosts'[d].uid = hosts'[e].uid \/ hosts'[d].addr = hosts'[e].addr => d = e
      BY <3>2 DEF SessionInv, OneSession
    <3>5. \A v \in DOMAIN LimboClients' : v # u => /\ v \in DOMAIN LimboClients
                                                   /\ LimboClients'[v] = LimboClients[v]
      BY <2>3
    <3>6. \A d \in Live : d # c => hosts[d].uid # u /\ hosts[d].addr # hosts[c].addr
      BY <2>1 DEF SessionInv, OneSession
    <3>7. \A v \in DOMAIN LimboClients' : v # u => LimboClients'[v].addr # LimboClients'[u].addr
      BY <2>3, <3>3, <3>5
    <3>8. LimboClients'[u].addr = hosts[c].addr
      BY <2>3
    <3> HIDE DEF u
    <3>9. \A d \in Live', v \in DOMAIN LimboClients' :
            hosts'[d].uid # v /\ hosts'[d].addr # LimboClients'[v].addr
      <4>1. \A d \in Live : \A v \in DOMAIN LimboClients :
              hosts[d].uid # v /\ hosts[d].addr # LimboClients[v].addr
        BY DEF SessionInv, OneSession
      <4> QED BY <3>2, <3>5, <3>6, <3>8, <4>1
    <3>10. \A v, w \in DOMAIN LimboClients' : LimboClients'[v].addr = LimboClients'[w].addr => v = w
      BY <3>5, <3>7 DEF SessionInv, OneSession
    <3> QED BY <3>4, <3>9, <3>10 DEF OneSession
  <2>5. RemovalReachesItsClient'
    BY <2>1, <2>2 DEF SessionInv, RemovalReachesItsClient, SameHost, IsInRemoveList, Live
  <2>6. QuitServedOnce' /\ LimboRemembersQuit'
    <3>1. lastQuit' = [lastQuit EXCEPT ![hosts[c].uid] = q]
      BY <1>6 DEF Quit
    <3>2. \A d \in Live : hosts[d].uid \in Users
      BY DEF TypeOK, Session, Live
    <3>3. lastQuit'[u] = q /\ \A v \in Users : v # u => lastQuit'[v] = lastQuit[v]
      BY <2>1, <3>1, <3>2 DEF TypeOK
    <3>4. \A d \in Live \ {c} : hosts[d].uid # u
      BY <2>1 DEF SessionInv, OneSession
    <3>5. DOMAIN LimboClients \subseteq Users
      BY DEF TypeOK
    <3>6. QuitServedOnce'
      BY <2>2, <3>2, <3>3, <3>4 DEF SessionInv, QuitServedOnce, SameHost, Live
    <3>7. LimboRemembersQuit'
      BY <2>3, <3>3, <3>5 DEF SessionInv, LimboRemembersQuit
    <3> QED BY <3>6, <3>7
  <2> QED BY <2>4, <2>5, <2>6 DEF SessionInv
<1>7. ASSUME NEW dead \in SUBSET Live, EndTick(dead) PROVE SessionInv'
  <2>1. hosts' = Restrict(hosts, Live \ dead) /\ toRemove' = WithoutRemovals(dead)
        /\ UNCHANGED <<LimboClients, lastQuit>>
    BY <1>7 DEF EndTick
  <2>2. Live' = Live \ dead /\ \A c \in Live \ dead : SameHost(c)
    BY <2>1, RestrictedHosts DEF Live
  <2>3. SessionsShrink
    BY <2>1, <2>2 DEF SessionsShrink
  <2>4. RemovalReachesItsClient'
    BY <2>1, <2>2 DEF SessionInv, RemovalReachesItsClient, WithoutRemovals, SameHost
  <2> QED BY <2>3, <2>4, Shrinking DEF SessionInv
<1>8. ASSUME NEW u \in Users, ChooseShard(u) PROVE SessionInv'
  BY <1>8 DEF ChooseShard, sessionVars, SessionInv, OneSession, RemovalReachesItsClient,
              QuitServedOnce, LimboRemembersQuit, Live
<1>9. ASSUME NEW u \in Users, Restore(u) PROVE SessionInv'
  <2>1. PICK c \in Ids \ DOMAIN hosts : hosts' = Added(c, Restored(u))
    BY <1>9 DEF Restore, IsNewClientId
  <2>2. /\ Live' = Live \cup {c} /\ c \notin Live
        /\ hosts'[c].uid = u /\ hosts'[c].addr = LimboClients[u].addr
        /\ hosts'[c].quitId = LimboClients[u].quitId
        /\ \A d \in Live : SameHost(d)
    BY <2>1, AddedHost DEF Restored
  <2>3. /\ DOMAIN LimboClients' = DOMAIN LimboClients \ {u} /\ u \in DOMAIN LimboClients
        /\ \A v \in DOMAIN LimboClients' : LimboClients'[v] = LimboClients[v]
        /\ UNCHANGED <<toRemove, lastQuit>>
    BY <1>9, LimboWithout DEF Restore, ExitFromLimbo
  <2>4. OneSession'
    BY <2>2, <2>3 DEF SessionInv, OneSession, SameHost
  <2>5. RemovalReachesItsClient'
    BY <2>2, <2>3 DEF SessionInv, RemovalReachesItsClient, SameHost
  <2>6. QuitServedOnce' /\ LimboRemembersQuit'
    BY <2>2, <2>3 DEF SessionInv, QuitServedOnce, LimboRemembersQuit, SameHost
  <2> QED BY <2>4, <2>5, <2>6 DEF SessionInv
<1>10. ASSUME NEW u \in Users, CannotRestore(u) PROVE SessionInv'
  <2>1. SessionsShrink
    BY <1>10, LimboWithout DEF CannotRestore, ExitFromLimbo, SessionsShrink, SameHost, Live
  <2>2. RemovalReachesItsClient'
    BY <1>10, NewRemovals DEF CannotRestore, HostsOf
  <2> QED BY <2>1, <2>2, Shrinking DEF SessionInv
<1>11. ASSUME NEW u \in Users, LimboTimeOut(u) PROVE SessionInv'
  <2>1. SessionsShrink
    BY <1>11, LimboWithout DEF LimboTimeOut, SessionsShrink, SameHost, Live
  <2>2. RemovalReachesItsClient'
    BY <1>11 DEF LimboTimeOut, SessionInv, RemovalReachesItsClient, Live
  <2> QED BY <2>1, <2>2, Shrinking DEF SessionInv
<1>12. ASSUME NEW u \in Users, DisconnectClientOfEGS(u) PROVE SessionInv'
  BY <1>12, DisconnectClientSessions DEF DisconnectClientOfEGS
<1>13. ASSUME NEW u \in Users, DisconnectClientOfWS(u) PROVE SessionInv'
  BY <1>13, DisconnectClientSessions DEF DisconnectClientOfWS
<1>14. CASE DisconnectAllClients
  <2>1. SessionsShrink
    BY <1>14, LimboWithout DEF DisconnectAllClients, SessionsShrink, SameHost, Live
  <2>2. RemovalReachesItsClient'
    BY <1>14, NewRemovals DEF DisconnectAllClients
  <2> QED BY <2>1, <2>2, Shrinking DEF SessionInv
<1>15. CASE EGSDown
  <2>1. SessionsShrink
    BY <1>15 DEF EGSDown, SessionsShrink, SameHost, Live
  <2>2. RemovalReachesItsClient'
    BY <1>15 DEF EGSDown, SessionInv, RemovalReachesItsClient, Live
  <2> QED BY <2>1, <2>2, Shrinking DEF SessionInv
<1> QED
  BY <1>1, <1>2, <1>3, <1>4, <1>5, <1>6, <1>7, <1>8, <1>9, <1>10, <1>11, <1>12, <1>13, <1>14,
     <1>15 DEF FE

\* The initial state and the steps of the EGS.
LEMMA InitSessions == Init => SessionInv
BY DEF Init, SessionInv, OneSession, RemovalReachesItsClient, QuitServedOnce,
       LimboRemembersQuit, Live

LEMMA EGSSessions == SessionInv /\ EGS => SessionInv' /\ UNCHANGED sessionVars
<1> SUFFICES ASSUME SessionInv, EGS PROVE SessionInv' /\ UNCHANGED sessionVars
  OBVIOUS
<1>1. UNCHANGED sessionVars
  BY DEF EGS, EGSUp, EGSCrash, ClientConnection, ClientRefused, ClientDisconnection, SelectChar,
         TickUpdate, QuitCountdown, CharRefused, SendAway, TakeMessage, EGSOnly
<1> QED
  BY <1>1 DEF sessionVars, SessionInv, OneSession, RemovalReachesItsClient, QuitServedOnce,
              LimboRemembersQuit, Live

LEMMA SessionInvHolds == Spec => [](TypeOK /\ SessionInv)
<1>1. Init => TypeOK /\ SessionInv
  BY InitTypes, InitSessions
<1>2. SessionInv /\ UNCHANGED vars => SessionInv'
  BY DEF vars, sessionVars, SessionInv, OneSession, RemovalReachesItsClient, QuitServedOnce,
         LimboRemembersQuit, Live
<1>3. TypeOK /\ SessionInv /\ [Next]_vars => (TypeOK /\ SessionInv)'
  BY <1>2, FETypes, EGSTypes, StutterTypes, FESessions, EGSSessions DEF Next
<1> QED BY <1>1, <1>3, PTL DEF Spec

\* However logins, quits, removals, limbo mode and crashes of the EGS follow each
\* other, a user has one session and each session an address of its own.
THEOREM SessionsApart == Spec => []OneSession
<1>1. TypeOK /\ SessionInv => OneSession
  BY DEF SessionInv
<1> QED BY <1>1, SessionInvHolds, PTL

\* A delayed removal never hits the next client that has the same client id.
THEOREM RemovalsMeetTheirClient == Spec => []RemovalReachesItsClient
<1>1. TypeOK /\ SessionInv => RemovalReachesItsClient
  BY DEF SessionInv
<1> QED BY <1>1, SessionInvHolds, PTL

\* A client host has the id of the last QUIT served in the session of its user,
\* which limbo mode does not make it forget.
THEOREM QuitsServedOnce == Spec => []QuitServedOnce
<1>1. TypeOK /\ SessionInv => QuitServedOnce
  BY DEF SessionInv
<1> QED BY <1>1, SessionInvHolds, PTL

--------------------------------------------------------------------------------
\* What is told.  A step is described by what it does to two sets of users.
WithSession == {u \in Users : HasSession(u)}
UnderRemoval == {u \in Users : BeingRemoved(u)}

ToldInv == WSCountsSessions /\ WSKnowsWhoIsOnline /\ ToldOnce

\* Sessions that end: of the client hosts in ids and the users in limbo mode.
LEMMA SessionsGone ==
  ASSUME TypeOK, SessionInv, NEW ids \in SUBSET Live, NEW users \in SUBSET DOMAIN LimboClients,
         Live' = Live \ ids, \A c \in Live' : SameHost(c),
         DOMAIN LimboClients' = DOMAIN LimboClients \ users,
         \A e \in toRemove : e.id \notin ids => \E f \in toRemove' : f.id = e.id
  PROVE  /\ UsersOf(ids) \cup users \subseteq WithSession
         /\ WithSession' = WithSession \ (UsersOf(ids) \cup users)
         /\ UnderRemoval \ (UsersOf(ids) \cup users) \subseteq UnderRemoval'
<1>1. \A c \in Live : hosts[c].uid \in Users
  BY DEF TypeOK, Session, Live
<1>2. UsersOf(ids) \cup users \subseteq WithSession
  BY <1>1 DEF WithSession, UsersOf, HasSession, HostsOf, TypeOK
<1>3. ASSUME NEW u \in Users
      PROVE  HasSession(u)' <=> HasSession(u) /\ u \notin UsersOf(ids) \cup users
  <2>1. HostsOf(u)' = HostsOf(u) \ ids
    BY DEF HostsOf, SameHost
  <2>2. u \in UsersOf(ids) <=> HostsOf(u) \cap ids # {}
    BY DEF HostsOf, UsersOf
  <2>3. \A c, d \in HostsOf(u) : c = d
    BY DEF SessionInv, OneSession, HostsOf
  <2>4. u \in DOMAIN LimboClients => HostsOf(u) = {}
    BY DEF SessionInv, OneSession, HostsOf
  <2> QED BY <2>1, <2>2, <2>3, <2>4 DEF HasSession
<1>4. WithSession' = WithSession \ (UsersOf(ids) \cup users)
  BY <1>3 DEF WithSession
<1>5. ASSUME NEW u \in UnderRemoval, u \notin UsersOf(ids) PROVE u \in UnderRemoval'
  <2>1. PICK c \in HostsOf(u) : IsInRemoveList(c)
    BY DEF UnderRemoval, BeingRemoved
  <2>2. c \notin ids /\ c \in Live
    BY <1>5, <2>1 DEF HostsOf, UsersOf
  <2>3. c \in HostsOf(u)'
    BY <2>1, <2>2 DEF HostsOf, SameHost
  <2>4. IsInRemoveList(c)'
    BY <2>1, <2>2 DEF IsInRemoveList
  <2> QED BY <2>3, <2>4 DEF UnderRemoval, BeingRemoved
<1> QED BY <1>2, <1>4, <1>5

LEMMA ToldGone ==
  ASSUME TypeOK, ToldInv, NEW gone \in SUBSET WithSession,
         WithSession' = WithSession \ gone, UnderRemoval \ gone \subseteq UnderRemoval',
         TellWS(gone, {}, {}),
         \A u \in Users : connects'[u] = 0 \/ (u \notin gone /\ connects'[u] = connects[u])
  PROVE  ToldInv'
<1>1. \A u \in Users : HasSession(u)' <=> HasSession(u) /\ u \notin gone
  BY DEF WithSession
<1>2. \A u \in gone : u \in Users /\ HasSession(u)
  BY DEF WithSession
<1>3. WSCountsSessions'
  BY <1>1, <1>2 DEF ToldInv, WSCountsSessions, TellWS, Count, TypeOK
<1>4. WSKnowsWhoIsOnline'
  BY <1>1, <1>2 DEF ToldInv, WSKnowsWhoIsOnline, TellWS, UnderRemoval
<1>5. ToldOnce'
  BY <1>1, <1>2 DEF ToldInv, ToldOnce, Count
<1> QED BY <1>3, <1>4, <1>5 DEF ToldInv

\* The case of users in limbo mode alone.
LEMMA LimboGone ==
  ASSUME TypeOK, SessionInv, NEW users \in SUBSET DOMAIN LimboClients,
         Live' = Live, \A c \in Live : SameHost(c),
         DOMAIN LimboClients' = DOMAIN LimboClients \ users, toRemove \subseteq toRemove'
  PROVE  /\ users \subseteq WithSession
         /\ WithSession' = WithSession \ users
         /\ UnderRemoval \ users \subseteq UnderRemoval'
<1>1. UsersOf({}) \cup users = users
  BY DEF UsersOf
<1>2. Live' = Live \ {} /\ \A c \in Live' : SameHost(c)
  OBVIOUS
<1>3. \A e \in toRemove : e.id \notin {} => \E f \in toRemove' : f.id = e.id
  OBVIOUS
<1>4. {} \subseteq Live
  OBVIOUS
<1> HIDE DEF WithSession, UnderRemoval
<1> QED BY <1>1, <1>2, <1>3, <1>4, SessionsGone

\* The case of client hosts alone.
LEMMA HostsGone ==
  ASSUME TypeOK, SessionInv, NEW ids \in SUBSET Live,
         Live' = Live \ ids, \A c \in Live' : SameHost(c), LimboClients' = LimboClients,
         \A e \in toRemove : e.id \notin ids => \E f \in toRemove' : f.id = e.id
  PROVE  /\ UsersOf(ids) \subseteq WithSession
         /\ WithSession' = WithSession \ UsersOf(ids)
         /\ UnderRemoval \ UsersOf(ids) \subseteq UnderRemoval'
<1>1. DOMAIN LimboClients' = DOMAIN LimboClients \ {} /\ {} \subseteq DOMAIN LimboClients
  OBVIOUS
<1> DEFINE users == {}
<1>2. UsersOf(ids) \cup users = UsersOf(ids)
  OBVIOUS
<1>3. /\ UsersOf(ids) \cup users \subseteq WithSession
      /\ WithSession' = WithSession \ (UsersOf(ids) \cup users)
      /\ UnderRemoval \ (UsersOf(ids) \cup users) \subseteq UnderRemoval'
  <2>1. users \in SUBSET DOMAIN LimboClients /\ DOMAIN LimboClients' = DOMAIN LimboClients \ users
    BY <1>1
  <2> HIDE DEF users
  <2> QED BY <2>1, SessionsGone
<1> QED BY <1>2, <1>3

\* The case of none.
LEMMA NoneGone ==
  ASSUME Live' = Live, \A c \in Live : SameHost(c),
         DOMAIN LimboClients' = DOMAIN LimboClients, toRemove \subseteq toRemove'
  PROVE  WithSession' = WithSession /\ UnderRemoval \subseteq UnderRemoval'
<1>1. \A u \in Users : HostsOf(u)' = HostsOf(u)
  BY DEF HostsOf, SameHost
<1>2. \A c : IsInRemoveList(c) => IsInRemoveList(c)'
  BY DEF IsInRemoveList
<1> QED BY <1>1, <1>2 DEF WithSession, UnderRemoval, HasSession, BeingRemoved

LEMMA RemovalsAdded ==
  ASSUME NEW ids
  PROVE  /\ toRemove \subseteq WithRemovals(ids)
         /\ \A c \in ids : \E e \in WithRemovals(ids) : e.id = c
<1>1. ASSUME NEW c \in ids, ~IsInRemoveList(c) PROVE \E e \in WithRemovals(ids) : e.id = c
  <2> DEFINE e == [id |-> c, wait |-> RemovalDelay, for |-> hosts[c].uid]
  <2>1. e \in WithRemovals(ids) /\ e.id = c
    BY <1>1 DEF WithRemovals
  <2> QED BY <2>1
<1>2. toRemove \subseteq WithRemovals(ids)
  BY DEF WithRemovals
<1> QED BY <1>1, <1>2 DEF IsInRemoveList

\* The effect of the messages, user by user.
LEMMA EGSIsTold ==
  ASSUME TypeOK, NEW gone, NEW come, TellEGS(gone, come), NEW u \in Users
  PROVE  /\ connects[u] \in Nat
         /\ connects'[u] = (IF u \in gone THEN 0 ELSE connects[u]) + (IF u \in come THEN 1 ELSE 0)
BY DEF TellEGS, TypeOK, Count

\* A mail whose last message says that the user has left; who has no session after
\* a step has such a mail, or one as before, or there is no EGS.
EndsWith(mail, message) == mail # <<>> /\ mail[Len(mail)] = message
EndsLeft(mail) == EndsWith(mail, "CL_DISCONNECT")

LeaversTold ==
  /\ ~egsUp => toEGS' = toEGS
  /\ \A u \in Users \ WithSession' :
       egsUp => \/ EndsLeft(toEGS'[u])
                \/ u \notin WithSession /\ toEGS'[u] = toEGS[u]

LEMMA LeaversMail ==
  ASSUME TypeOK, NEW gone, NEW come, TellEGS(gone, come),
         \A u \in Users \ WithSession' : u \notin come /\ (u \in gone \/ u \notin WithSession)
  PROVE  LeaversTold
<1>1. ASSUME NEW u \in Users \ WithSession', egsUp
      PROVE  \/ EndsLeft(toEGS'[u])
             \/ u \notin WithSession /\ toEGS'[u] = toEGS[u]
  <2>1. toEGS[u] \in Seq(Messages) /\ "CL_DISCONNECT" \in Messages
    BY DEF TypeOK, EGSTypeOK, Messages
  <2>2. toEGS'[u] = toEGS[u] \o One(u \in gone, "CL_DISCONNECT") \o <<>>
    BY <1>1 DEF TellEGS, One
  <2>3. CASE u \in gone
    <3>1. toEGS'[u] = toEGS[u] \o <<"CL_DISCONNECT">> \o <<>>
      BY <2>2, <2>3 DEF One
    <3>2. toEGS'[u] = Append(toEGS[u], "CL_DISCONNECT")
      BY <2>1, <3>1
    <3> QED BY <2>1, <3>2 DEF EndsLeft, EndsWith
  <2>4. CASE u \notin gone
    <3>1. toEGS'[u] = toEGS[u] \o <<>> \o <<>>
      BY <2>2, <2>4 DEF One
    <3>2. toEGS'[u] = toEGS[u]
      BY <2>1, <3>1
    <3> QED BY <2>4, <3>2
  <2> QED BY <2>3, <2>4
<1>2. ~egsUp => toEGS' = toEGS
  BY DEF TellEGS
<1> QED BY <1>1, <1>2 DEF LeaversTold

\* Of a user that the EGS is told of after a step, either the last message says
\* that it comes, or nothing has changed and a removal goes on.
EndsCame(mail) == EndsWith(mail, "CL_CONNECT")

GuestsTold ==
  \A u \in Users :
    egsUp /\ connects'[u] = 1 =>
      \/ EndsCame(toEGS'[u])
      \/ /\ connects[u] = 1 /\ toEGS'[u] = toEGS[u]
         /\ u \in UnderRemoval => u \in UnderRemoval'

LEMMA GuestsMail ==
  ASSUME TypeOK, NEW gone, NEW come, TellEGS(gone, come),
         \A u \in UnderRemoval : u \in gone \/ u \in come \/ u \in UnderRemoval'
  PROVE  GuestsTold
<1> SUFFICES ASSUME NEW u \in Users, egsUp, connects'[u] = 1
             PROVE  \/ EndsCame(toEGS'[u])
                    \/ /\ connects[u] = 1 /\ toEGS'[u] = toEGS[u]
                       /\ u \in UnderRemoval => u \in UnderRemoval'
  BY DEF GuestsTold
<1>1. /\ connects[u] \in Nat
      /\ connects'[u] = (IF u \in gone THEN 0 ELSE connects[u]) + (IF u \in come THEN 1 ELSE 0)
  BY EGSIsTold
<1>2. toEGS[u] \in Seq(Messages) /\ "CL_DISCONNECT" \in Messages /\ "CL_CONNECT" \in Messages
  BY DEF TypeOK, EGSTypeOK, Messages
<1>3. toEGS'[u] = toEGS[u] \o One(u \in gone, "CL_DISCONNECT") \o One(u \in come, "CL_CONNECT")
  BY DEF TellEGS
<1>4. CASE u \in come
  <2>1. PICK mail \in Seq(Messages) : mail = toEGS[u] \o One(u \in gone, "CL_DISCONNECT")
    <3>1. One(u \in gone, "CL_DISCONNECT") \in Seq(Messages)
      BY <1>2 DEF One
    <3> HIDE DEF One
    <3>2. toEGS[u] \o One(u \in gone, "CL_DISCONNECT") \in Seq(Messages)
      BY <1>2, <3>1
    <3> QED BY <3>2
  <2>2. toEGS'[u] = mail \o <<"CL_CONNECT">>
    BY <1>3, <1>4, <2>1 DEF One
  <2>3. toEGS'[u] = Append(mail, "CL_CONNECT")
    BY <1>2, <2>2
  <2> QED BY <1>2, <2>3 DEF EndsCame, EndsWith
<1>5. CASE u \notin come
  <2>1. u \notin gone /\ connects[u] = 1
    BY <1>1, <1>5
  <2>2. toEGS'[u] = toEGS[u] \o <<>> \o <<>>
    BY <1>3, <1>5, <2>1 DEF One
  <2>3. toEGS'[u] = toEGS[u]
    BY <1>2, <2>2
  <2> QED BY <1>5, <2>1, <2>3
<1> QED BY <1>4, <1>5

LEMMA WSIsTold ==
  ASSUME TypeOK, NEW gone, NEW come, NEW refused, TellWS(gone, come, refused), NEW u \in Users
  PROVE  /\ wsPlayers[u] \in Int
         /\ wsPlayers'[u] = wsPlayers[u] - (IF u \in gone THEN 1 ELSE 0)
                              + (IF u \in come THEN 1 ELSE 0) - (IF u \in refused THEN 1 ELSE 0)
         /\ u \in wsOnline' <=> ((u \in wsOnline /\ u \notin gone) \/ u \in come) /\ u \notin refused
BY DEF TellWS, TypeOK, Count

\* A step that tells nothing and ends no session.
LEMMA NothingToTell ==
  ASSUME TypeOK, ToldInv, WithSession' = WithSession, UnderRemoval \subseteq UnderRemoval',
         UNCHANGED <<connects, wsPlayers, wsOnline>>
  PROVE  ToldInv' /\ (toEGS' = toEGS => LeaversTold /\ GuestsTold)
<1>1. \A u \in Users : HasSession(u)' <=> HasSession(u)
  BY DEF WithSession
<1>2. WSCountsSessions' /\ ToldOnce'
  BY <1>1 DEF ToldInv, WSCountsSessions, ToldOnce, Count
<1>3. WSKnowsWhoIsOnline'
  BY <1>1 DEF ToldInv, WSKnowsWhoIsOnline, UnderRemoval
<1>4. toEGS' = toEGS => LeaversTold /\ GuestsTold
  BY DEF LeaversTold, GuestsTold
<1> QED BY <1>2, <1>3, <1>4 DEF ToldInv

\* What the steps of the FE tell is what they do to the sessions.
LEMMA ToldGoneOf ==
  ASSUME TypeOK, ToldInv, NEW gone \in SUBSET WithSession,
         WithSession' = WithSession \ gone, UnderRemoval \ gone \subseteq UnderRemoval',
         TellGone(gone)
  PROVE  ToldInv' /\ LeaversTold /\ GuestsTold
<1>1. ASSUME NEW u \in Users
      PROVE  connects'[u] = 0 \/ (u \notin gone /\ connects'[u] = connects[u])
  <2>1. TellEGS(gone, {})
    BY DEF TellGone
  <2>2. /\ connects[u] \in Nat
        /\ connects'[u] = (IF u \in gone THEN 0 ELSE connects[u]) + (IF u \in {} THEN 1 ELSE 0)
    BY <2>1, EGSIsTold
  <2> QED BY <2>2
<1>2. LeaversTold
  <2>1. TellEGS(gone, {})
    BY DEF TellGone
  <2>2. \A u \in Users \ WithSession' : u \notin {} /\ (u \in gone \/ u \notin WithSession)
    OBVIOUS
  <2> QED BY <2>1, <2>2, LeaversMail
<1>3. GuestsTold
  <2>1. TellEGS(gone, {})
    BY DEF TellGone
  <2>2. \A u \in UnderRemoval : u \in gone \/ u \in {} \/ u \in UnderRemoval'
    OBVIOUS
  <2> QED BY <2>1, <2>2, GuestsMail
<1> QED BY <1>1, <1>2, <1>3, ToldGone DEF TellGone

LEMMA DisconnectClientTold ==
  ASSUME TypeOK, SessionInv, ToldInv, NEW u \in Users, DisconnectClient(u)
  PROVE  ToldInv' /\ LeaversTold /\ GuestsTold
<1>1. Live' = Live /\ (\A c \in Live : SameHost(c)) /\ toRemove \subseteq toRemove'
  BY DEF DisconnectClient, Live, SameHost, WithRemovals
<1>2. CASE HostsOf(u) = {} /\ u \in DOMAIN LimboClients
  <2>1. LimboClients' = WithoutLimbo({u}) /\ TellGone({u})
    BY <1>2 DEF DisconnectClient
  <2>2. /\ {u} \subseteq WithSession /\ WithSession' = WithSession \ {u}
        /\ UnderRemoval \ {u} \subseteq UnderRemoval'
    <3>1. {u} \subseteq DOMAIN LimboClients /\ DOMAIN LimboClients' = DOMAIN LimboClients \ {u}
      BY <1>2, <2>1, LimboWithout
    <3> QED BY <1>1, <3>1, LimboGone
  <2> QED BY <2>1, <2>2, ToldGoneOf
<1>3. CASE ~(HostsOf(u) = {} /\ u \in DOMAIN LimboClients)
  <2>1. UNCHANGED <<LimboClients, toldVars>>
    BY <1>3 DEF DisconnectClient
  <2>2. WithSession' = WithSession /\ UnderRemoval \subseteq UnderRemoval'
    BY <1>1, <2>1, NoneGone
  <2> QED BY <2>1, <2>2, NothingToTell DEF toldVars
<1> QED BY <1>2, <1>3

\* The steps of the FE keep what was told true of the sessions.
LEMMA FETold ==
  TypeOK /\ SessionInv /\ ToldInv /\ FE => ToldInv' /\ LeaversTold /\ GuestsTold
<1> SUFFICES ASSUME TypeOK, SessionInv, ToldInv, FE PROVE ToldInv' /\ LeaversTold /\ GuestsTold
  OBVIOUS
<1> USE DEF egsVars
<1>1. CASE BeginTick
  <2> DEFINE due == {e.id : e \in {e \in toRemove : e.wait = 0}} \cap Live
  <2>1. hosts' = WithLeft(due) /\ UNCHANGED LimboClients /\ TellGone(UsersOf(due))
    BY <1>1 DEF BeginTick
  <2>2. Live' = Live \ due /\ \A c \in Live' : SameHost(c)
    BY <2>1, LeftHosts DEF Live
  <2>3. \A e \in toRemove : e.id \notin due => \E f \in toRemove' : f.id = e.id
    <3>1. toRemove' = {[e EXCEPT !.wait = @ - 1] : e \in {e \in toRemove : e.wait > 0}}
      BY <1>1 DEF BeginTick
    <3>2. \A e \in toRemove : e.id \notin due => e.wait > 0
      BY NbClientsAssumption DEF SessionInv, RemovalReachesItsClient, TypeOK
    <3>3. ASSUME NEW e \in toRemove, e.id \notin due PROVE \E f \in toRemove' : f.id = e.id
      <4> DEFINE f == [e EXCEPT !.wait = @ - 1]
      <4>1. f \in toRemove' /\ f.id = e.id
        BY <3>1, <3>2, <3>3 DEF TypeOK
      <4> QED BY <4>1
    <3> QED BY <3>3
  <2> HIDE DEF due
  <2>4. due \subseteq Live
    BY DEF due
  <2>5. /\ UsersOf(due) \subseteq WithSession /\ WithSession' = WithSession \ UsersOf(due)
        /\ UnderRemoval \ UsersOf(due) \subseteq UnderRemoval'
    BY <2>1, <2>2, <2>3, <2>4, HostsGone
  <2> QED BY <2>1, <2>5, ToldGoneOf
<1>2. ASSUME NEW a \in Addresses, Disconnection(a) PROVE ToldInv' /\ LeaversTold /\ GuestsTold
  <2> DEFINE ids == HostsAt(a)
             gone == IF ids # {} THEN {} ELSE LimboAt(a)
  <2>1. /\ hosts' = WithLeft(ids) /\ LimboClients' = WithoutLimbo(gone)
        /\ TellGone(UsersOf(ids) \cup gone) /\ toRemove' = WithoutRemovals(ids)
    BY <1>2 DEF Disconnection
  <2>2. ids \subseteq Live /\ gone \subseteq DOMAIN LimboClients
    BY DEF HostsAt, LimboAt
  <2> HIDE DEF ids, gone
  <2>3. Live' = Live \ ids /\ \A c \in Live' : SameHost(c)
    BY <2>1, LeftHosts DEF Live
  <2>4. \A e \in toRemove : e.id \notin ids => \E f \in toRemove' : f.id = e.id
    BY <2>1 DEF WithoutRemovals
  <2>5. /\ UsersOf(ids) \cup gone \subseteq WithSession
        /\ WithSession' = WithSession \ (UsersOf(ids) \cup gone)
        /\ UnderRemoval \ (UsersOf(ids) \cup gone) \subseteq UnderRemoval'
    BY <2>1, <2>2, <2>3, <2>4, LimboWithout, SessionsGone
  <2> QED BY <2>1, <2>5, ToldGoneOf
<1>3. ASSUME NEW a \in Addresses, NEW u \in Users, AddClient(u, a) PROVE ToldInv' /\ LeaversTold /\ GuestsTold
  <2> DEFINE gone == LeavesLimbo(u, a)
  <2>1. PICK c \in Ids \ DOMAIN hosts : hosts' = Added(c, Host(u, a, 0))
    BY <1>3 DEF AddClient, IsNewClientId
  <2>2. /\ Live' = Live \cup {c} /\ c \notin Live /\ hosts'[c].uid = u
        /\ \A d \in Live : SameHost(d)
    BY <2>1, AddedHost
  <2>3. /\ LimboClients' = WithoutLimbo(gone) /\ HostsOf(u) = {} /\ toRemove' = toRemove
        /\ TellEGS(gone, {}) \/ TellEGS(gone, {u})
        /\ TellWS(gone, {u}, {})
    BY <1>3 DEF AddClient, Login
  <2>4. gone \subseteq DOMAIN LimboClients /\ (u \in DOMAIN LimboClients => u \in gone)
    BY DEF LeavesLimbo, LimboAt
  <2> HIDE DEF gone
  <2>5. \A v \in Users : HostsOf(v)' = IF v = u THEN {c} ELSE HostsOf(v)
    BY <2>2, <2>3 DEF HostsOf, SameHost
  <2>6. DOMAIN LimboClients' = DOMAIN LimboClients \ gone
    BY <2>3, LimboWithout
  <2>7. \A v \in gone : v \in Users /\ HasSession(v) /\ HostsOf(v) = {}
    BY <2>4 DEF HasSession, SessionInv, OneSession, HostsOf, TypeOK
  <2>8. ASSUME NEW v \in Users, v # u
        PROVE  HasSession(v)' <=> HasSession(v) /\ v \notin gone
    BY <2>5, <2>6, <2>7, <2>8 DEF HasSession
  <2>9. ASSUME NEW v \in Users, v # u, BeingRemoved(v) PROVE BeingRemoved(v)'
    BY <2>3, <2>5, <2>9 DEF BeingRemoved, IsInRemoveList
  <2>10. HasSession(u) <=> u \in gone
    BY <2>3, <2>4, <2>7 DEF HasSession
  <2>11. HasSession(u)'
    BY <2>5 DEF HasSession
  <2>12. ASSUME NEW v \in Users
         PROVE  /\ wsPlayers[v] \in Int
                /\ wsPlayers'[v] = wsPlayers[v] - (IF v \in gone THEN 1 ELSE 0)
                                     + (IF v \in {u} THEN 1 ELSE 0)
                /\ v \in wsOnline' <=> (v \in wsOnline /\ v \notin gone) \/ v = u
    <3>1. TellWS(gone, {u}, {})
      BY <2>3
    <3>2. /\ wsPlayers[v] \in Int
          /\ wsPlayers'[v] = wsPlayers[v] - (IF v \in gone THEN 1 ELSE 0)
                               + (IF v \in {u} THEN 1 ELSE 0) - (IF v \in {} THEN 1 ELSE 0)
          /\ v \in wsOnline' <=> ((v \in wsOnline /\ v \notin gone) \/ v \in {u}) /\ v \notin {}
      BY <3>1, WSIsTold
    <3> QED BY <3>2
  <2>13. ASSUME NEW v \in Users
         PROVE  /\ connects[v] \in Nat
                /\ \/ connects'[v] = IF v \in gone THEN 0 ELSE connects[v]
                   \/ v = u /\ connects'[v] = (IF v \in gone THEN 0 ELSE connects[v]) + 1
    <3>1. CASE TellEGS(gone, {})
      <4>1. /\ connects[v] \in Nat
            /\ connects'[v] = (IF v \in gone THEN 0 ELSE connects[v]) + (IF v \in {} THEN 1 ELSE 0)
        BY <3>1, EGSIsTold
      <4> QED BY <4>1
    <3>2. CASE TellEGS(gone, {u})
      <4>1. /\ connects[v] \in Nat
            /\ connects'[v] = (IF v \in gone THEN 0 ELSE connects[v]) + (IF v \in {u} THEN 1 ELSE 0)
        BY <3>2, EGSIsTold
      <4> QED BY <4>1
    <3> QED BY <2>3, <3>1, <3>2
  <2>14. ASSUME NEW v \in Users
         PROVE  /\ wsPlayers'[v] = Count(HasSession(v)') /\ connects'[v] <= Count(HasSession(v)')
                /\ IF HasSession(v)' THEN BeingRemoved(v)' \/ v \in wsOnline' ELSE v \notin wsOnline'
    <3>1. /\ wsPlayers[v] = Count(HasSession(v)) /\ connects[v] <= Count(HasSession(v))
          /\ IF HasSession(v) THEN BeingRemoved(v) \/ v \in wsOnline ELSE v \notin wsOnline
      BY DEF ToldInv, WSCountsSessions, WSKnowsWhoIsOnline, ToldOnce
    <3>2. CASE v = u
      <4>1. HasSession(v)' /\ (HasSession(v) <=> v \in gone)
        BY <2>10, <2>11, <3>2
      <4> QED BY <2>12, <2>13, <3>1, <3>2, <4>1 DEF Count
    <3>3. CASE v # u
      <4>1. HasSession(v)' <=> HasSession(v) /\ v \notin gone
        BY <2>8, <3>3
      <4>2. BeingRemoved(v) => BeingRemoved(v)'
        BY <2>9, <3>3
      <4>3. v \in gone => HasSession(v)
        BY <2>7
      <4> QED BY <2>12, <2>13, <3>1, <3>3, <4>1, <4>2, <4>3 DEF Count
    <3> QED BY <3>2, <3>3
  <2>15. LeaversTold
    <3>1. \A v \in Users \ WithSession' : v # u /\ (v \in gone \/ v \notin WithSession)
      BY <2>8, <2>11 DEF WithSession
    <3>2. CASE TellEGS(gone, {})
      BY <3>1, <3>2, LeaversMail
    <3>3. CASE TellEGS(gone, {u})
      BY <3>1, <3>3, LeaversMail
    <3> QED BY <2>3, <3>2, <3>3
  <2>16. GuestsTold
    <3>1. \A v \in UnderRemoval : v \in UnderRemoval'
      BY <2>3, <2>9 DEF UnderRemoval, BeingRemoved
    <3>2. CASE TellEGS(gone, {})
      BY <3>1, <3>2, GuestsMail
    <3>3. CASE TellEGS(gone, {u})
      BY <3>1, <3>3, GuestsMail
    <3> QED BY <2>3, <3>2, <3>3
  <2> QED BY <2>14, <2>15, <2>16 DEF ToldInv, WSCountsSessions, WSKnowsWhoIsOnline, ToldOnce
<1>4. ASSUME NEW a \in Addresses, NEW u \in Users, RefuseClient(u, a) PROVE ToldInv' /\ LeaversTold /\ GuestsTold
  <2> DEFINE gone == LeavesLimbo(u, a)
  <2>1. /\ Live' = Live /\ (\A d \in Live : SameHost(d)) /\ toRemove' = WithRemovals(HostsOf(u))
        /\ LimboClients' = WithoutLimbo(gone)
        /\ TellEGS(gone, {}) /\ TellWS(gone, {u}, {u})
    BY <1>4 DEF RefuseClient, Login, Live, SameHost
  <2>2. gone \subseteq DOMAIN LimboClients /\ (u \in DOMAIN LimboClients => u \in gone)
    BY DEF LeavesLimbo, LimboAt
  <2> HIDE DEF gone
  <2>3. /\ gone \subseteq WithSession /\ WithSession' = WithSession \ gone
        /\ UnderRemoval \ gone \subseteq UnderRemoval'
    <3>1. DOMAIN LimboClients' = DOMAIN LimboClients \ gone /\ toRemove \subseteq toRemove'
      BY <2>1, LimboWithout, RemovalsAdded
    <3> QED BY <2>1, <2>2, <3>1, LimboGone
  <2>4. \A v \in Users : HasSession(v)' <=> HasSession(v) /\ v \notin gone
    BY <2>3 DEF WithSession
  <2>5. \A v \in gone : v \in Users /\ HasSession(v)
    BY <2>3 DEF WithSession
  <2>6. HasSession(u)' => BeingRemoved(u)'
    <3>1. HasSession(u)' => HostsOf(u) # {}
      BY <2>2, <2>4 DEF HasSession
    <3>2. HostsOf(u)' = HostsOf(u)
      BY <2>1 DEF HostsOf, SameHost
    <3>3. \A d \in HostsOf(u) : IsInRemoveList(d)'
      BY <2>1, RemovalsAdded DEF IsInRemoveList
    <3> QED BY <3>1, <3>2, <3>3 DEF BeingRemoved
  <2>7. WSCountsSessions'
    BY <2>1, <2>4, <2>5 DEF ToldInv, WSCountsSessions, TellWS, Count, TypeOK
  <2>8. WSKnowsWhoIsOnline'
    BY <2>1, <2>3, <2>4, <2>6 DEF ToldInv, WSKnowsWhoIsOnline, TellWS, UnderRemoval
  <2>9. ToldOnce'
    <3>1. \A v \in Users : connects'[v] = IF v \in gone THEN 0 ELSE connects[v]
      BY <2>1 DEF TellEGS, Count, TypeOK
    <3> QED BY <2>4, <3>1 DEF ToldInv, ToldOnce, Count
  <2>10. LeaversTold
    <3>1. \A v \in Users \ WithSession' : v \notin {} /\ (v \in gone \/ v \notin WithSession)
      BY <2>3
    <3> QED BY <2>1, <3>1, LeaversMail
  <2>11. GuestsTold
    <3>1. \A v \in UnderRemoval : v \in gone \/ v \in {} \/ v \in UnderRemoval'
      BY <2>3
    <3> QED BY <2>1, <3>1, GuestsMail
  <2> QED BY <2>7, <2>8, <2>9, <2>10, <2>11 DEF ToldInv
<1>5. ASSUME NEW c \in Ids, RejectClient(c) PROVE ToldInv' /\ LeaversTold /\ GuestsTold
  <2>1. /\ Live' = Live /\ (\A d \in Live : SameHost(d)) /\ toRemove \subseteq toRemove'
        /\ UNCHANGED <<LimboClients, toldVars>>
    BY <1>5 DEF RejectClient, Live, SameHost, WithRemovals, toldVars
  <2>2. WithSession' = WithSession /\ UnderRemoval \subseteq UnderRemoval'
    BY <2>1, NoneGone
  <2> QED BY <2>1, <2>2, NothingToTell DEF toldVars
<1>6. ASSUME NEW c \in Ids, NEW q \in 1 .. MaxQuitId, Quit(c, q) PROVE ToldInv' /\ LeaversTold /\ GuestsTold
  <2>1. /\ hosts' = Restrict(hosts, DOMAIN hosts \ {c}) /\ toRemove' = toRemove
        /\ DOMAIN LimboClients' = DOMAIN LimboClients \cup {hosts[c].uid}
        /\ c \in Live /\ ~IsInRemoveList(c)
        /\ TellEGS({hosts[c].uid}, {hosts[c].uid}) /\ UNCHANGED <<wsPlayers, wsOnline>>
    BY <1>6 DEF Quit, ServesQuit
  <2>2. Live' = Live \ {c} /\ \A d \in Live \ {c} : SameHost(d)
    <3>1. Live' = Live \cap (DOMAIN hosts \ {c}) /\ \A d \in DOMAIN hosts \ {c} : SameHost(d)
      BY <2>1, RestrictedHosts
    <3> QED BY <3>1 DEF Live
  <2>3. \A v \in Users : HostsOf(v)' = HostsOf(v) \ {c}
    BY <2>2 DEF HostsOf, SameHost
  <2>4. hosts[c].uid \in Users /\ \A v \in Users : c \in HostsOf(v) <=> v = hosts[c].uid
    BY <2>1 DEF HostsOf, TypeOK, Session, Live
  <2>5. \A v \in Users : HasSession(v)' <=> HasSession(v)
    BY <2>1, <2>3, <2>4 DEF HasSession
  <2>6. \A v \in Users : BeingRemoved(v) => BeingRemoved(v)'
    BY <2>1, <2>3 DEF BeingRemoved, IsInRemoveList
  <2>7. HasSession(hosts[c].uid)
    BY <2>4 DEF HasSession
  <2>8. ToldOnce'
    <3>1. \A v \in Users : connects'[v] = IF v = hosts[c].uid THEN 1 ELSE connects[v]
      BY <2>1 DEF TellEGS, Count, TypeOK
    <3> QED BY <2>4, <2>5, <2>7, <3>1 DEF ToldInv, ToldOnce, Count
  <2>9. LeaversTold
    <3>1. \A v \in Users \ WithSession' : v \notin {hosts[c].uid} /\ v \notin WithSession
      BY <2>4, <2>5, <2>7 DEF WithSession
    <3> QED BY <2>1, <3>1, LeaversMail
  <2>10. GuestsTold
    <3>1. \A v \in UnderRemoval : v \in UnderRemoval'
      BY <2>6 DEF UnderRemoval
    <3> QED BY <2>1, <3>1, GuestsMail
  <2> QED BY <2>1, <2>5, <2>6, <2>8, <2>9, <2>10
          DEF ToldInv, WSCountsSessions, WSKnowsWhoIsOnline, Count
<1>7. ASSUME NEW dead \in SUBSET Live, EndTick(dead) PROVE ToldInv' /\ LeaversTold /\ GuestsTold
  <2>1. hosts' = Restrict(hosts, Live \ dead) /\ toRemove' = WithoutRemovals(dead)
        /\ TellGone(UsersOf(dead)) /\ UNCHANGED LimboClients
    BY <1>7 DEF EndTick
  <2>2. Live' = Live \ dead /\ \A c \in Live' : SameHost(c)
    BY <2>1, RestrictedHosts DEF Live
  <2>3. \A e \in toRemove : e.id \notin dead => \E f \in toRemove' : f.id = e.id
    BY <2>1 DEF WithoutRemovals
  <2>4. /\ UsersOf(dead) \subseteq WithSession /\ WithSession' = WithSession \ UsersOf(dead)
        /\ UnderRemoval \ UsersOf(dead) \subseteq UnderRemoval'
    BY <2>1, <2>2, <2>3, HostsGone
  <2> QED BY <2>1, <2>4, ToldGoneOf
<1>8. ASSUME NEW u \in Users, ChooseShard(u) PROVE ToldInv' /\ LeaversTold /\ GuestsTold
  <2>1. WithSession' = WithSession /\ UnderRemoval' = UnderRemoval
    BY <1>8 DEF ChooseShard, sessionVars, WithSession, UnderRemoval, HasSession, BeingRemoved,
                HostsOf, IsInRemoveList, Live
  <2> QED BY <1>8, <2>1, NothingToTell DEF ChooseShard, toldVars
<1>9. ASSUME NEW u \in Users, Restore(u) PROVE ToldInv' /\ LeaversTold /\ GuestsTold
  <2>1. PICK c \in Ids \ DOMAIN hosts : hosts' = Added(c, Restored(u))
    BY <1>9 DEF Restore, IsNewClientId
  <2>2. /\ Live' = Live \cup {c} /\ c \notin Live /\ hosts'[c].uid = u
        /\ \A d \in Live : SameHost(d)
    BY <2>1, AddedHost DEF Restored
  <2>3. /\ DOMAIN LimboClients' = DOMAIN LimboClients \ {u} /\ u \in DOMAIN LimboClients
        /\ UNCHANGED <<toRemove, toldVars>>
    BY <1>9, LimboWithout DEF Restore, ExitFromLimbo, toldVars
  <2>4. \A v \in Users : /\ HostsOf(v)' = IF v = u THEN HostsOf(v) \cup {c} ELSE HostsOf(v)
    BY <2>2 DEF HostsOf, SameHost
  <2>5. WithSession' = WithSession
    BY <2>3, <2>4 DEF WithSession, HasSession
  <2>6. UnderRemoval \subseteq UnderRemoval'
    BY <2>3, <2>4 DEF UnderRemoval, BeingRemoved, IsInRemoveList
  <2> QED BY <2>3, <2>5, <2>6, NothingToTell DEF toldVars
<1>10. ASSUME NEW u \in Users, CannotRestore(u) PROVE ToldInv' /\ LeaversTold /\ GuestsTold
  <2>1. /\ Live' = Live /\ (\A c \in Live : SameHost(c)) /\ toRemove \subseteq toRemove'
        /\ LimboClients' = WithoutLimbo({u}) /\ u \in DOMAIN LimboClients
        /\ TellEGS({u}, {}) /\ TellWS({}, {}, {u})
    BY <1>10 DEF CannotRestore, ExitFromLimbo, TellNotRestored, Live, SameHost, WithRemovals
  <2>2. /\ {u} \subseteq WithSession /\ WithSession' = WithSession \ {u}
        /\ UnderRemoval \ {u} \subseteq UnderRemoval'
    <3>1. {u} \subseteq DOMAIN LimboClients /\ DOMAIN LimboClients' = DOMAIN LimboClients \ {u}
      BY <2>1, LimboWithout
    <3> QED BY <2>1, <3>1, LimboGone
  <2>3. TellWS({u}, {}, {})
    BY <2>1 DEF TellWS, Count, TypeOK
  <2>4. ASSUME NEW v \in Users
        PROVE  connects'[v] = 0 \/ (v \notin {u} /\ connects'[v] = connects[v])
    <3>1. /\ connects[v] \in Nat
          /\ connects'[v] = (IF v \in {u} THEN 0 ELSE connects[v]) + (IF v \in {} THEN 1 ELSE 0)
      BY <2>1, EGSIsTold
    <3> QED BY <3>1
  <2>5. LeaversTold
    <3>1. \A v \in Users \ WithSession' : v \notin {} /\ (v \in {u} \/ v \notin WithSession)
      BY <2>2
    <3> QED BY <2>1, <3>1, LeaversMail
  <2>6. GuestsTold
    <3>1. \A v \in UnderRemoval : v \in {u} \/ v \in {} \/ v \in UnderRemoval'
      BY <2>2
    <3> QED BY <2>1, <3>1, GuestsMail
  <2> QED BY <2>2, <2>3, <2>4, <2>5, <2>6, ToldGone
<1>11. ASSUME NEW u \in Users, LimboTimeOut(u) PROVE ToldInv' /\ LeaversTold /\ GuestsTold
  <2>1. Live' = Live /\ (\A c \in Live : SameHost(c)) /\ toRemove' = toRemove
    BY <1>11 DEF LimboTimeOut, Live, SameHost
  <2>2. u \in DOMAIN LimboClients /\ LimboClients' = WithoutLimbo({u}) /\ TellGone({u})
    BY <1>11 DEF LimboTimeOut
  <2>3. /\ {u} \subseteq WithSession /\ WithSession' = WithSession \ {u}
        /\ UnderRemoval \ {u} \subseteq UnderRemoval'
    <3>1. {u} \subseteq DOMAIN LimboClients /\ DOMAIN LimboClients' = DOMAIN LimboClients \ {u}
      BY <2>2, LimboWithout
    <3> QED BY <2>1, <3>1, LimboGone
  <2> QED BY <2>2, <2>3, ToldGoneOf
<1>12. ASSUME NEW u \in Users, DisconnectClientOfEGS(u) PROVE ToldInv' /\ LeaversTold /\ GuestsTold
  BY <1>12, DisconnectClientTold DEF DisconnectClientOfEGS
<1>13. ASSUME NEW u \in Users, DisconnectClientOfWS(u) PROVE ToldInv' /\ LeaversTold /\ GuestsTold
  BY <1>13, DisconnectClientTold DEF DisconnectClientOfWS
<1>14. CASE DisconnectAllClients
  <2> DEFINE gone == DOMAIN LimboClients
  <2>1. Live' = Live /\ (\A c \in Live : SameHost(c)) /\ toRemove \subseteq toRemove'
    BY <1>14 DEF DisconnectAllClients, Live, SameHost, WithRemovals
  <2>2. LimboClients' = WithoutLimbo(gone) /\ TellGone(gone)
    BY <1>14 DEF DisconnectAllClients
  <2>3. /\ gone \subseteq WithSession /\ WithSession' = WithSession \ gone
        /\ UnderRemoval \ gone \subseteq UnderRemoval'
    <3>1. gone \subseteq DOMAIN LimboClients /\ DOMAIN LimboClients' = DOMAIN LimboClients \ gone
      BY <2>2, LimboWithout
    <3> HIDE DEF gone
    <3> QED BY <2>1, <3>1, LimboGone
  <2> HIDE DEF gone
  <2> QED BY <2>2, <2>3, ToldGoneOf
<1>15. CASE EGSDown
  <2> DEFINE gone == DOMAIN LimboClients
  <2>1. Live' = Live /\ (\A c \in Live : SameHost(c)) /\ toRemove' = toRemove
    BY <1>15 DEF EGSDown, Live, SameHost
  <2>2. /\ gone \subseteq DOMAIN LimboClients /\ DOMAIN LimboClients' = DOMAIN LimboClients \ gone
        /\ TellWS(gone, {}, {})
        /\ \A u \in Users : connects'[u] = 0
    BY <1>15 DEF EGSDown
  <2> HIDE DEF gone
  <2>3. /\ gone \subseteq WithSession /\ WithSession' = WithSession \ gone
        /\ UnderRemoval \ gone \subseteq UnderRemoval'
    BY <2>1, <2>2, LimboGone
  <2>4. \A u \in Users : connects'[u] = 0 \/ (u \notin gone /\ connects'[u] = connects[u])
    BY <2>2
  <2>5. LeaversTold /\ GuestsTold
    BY <1>15 DEF EGSDown, LeaversTold, GuestsTold
  <2> QED BY <2>2, <2>3, <2>4, <2>5, ToldGone
<1> QED
  BY <1>1, <1>2, <1>3, <1>4, <1>5, <1>6, <1>7, <1>8, <1>9, <1>10, <1>11, <1>12, <1>13, <1>14,
     <1>15 DEF FE

LEMMA EGSTold == TypeOK /\ SessionInv /\ ToldInv /\ EGS => ToldInv'
<1> SUFFICES ASSUME TypeOK, SessionInv, ToldInv, EGS PROVE ToldInv'
  OBVIOUS
<1>1. UNCHANGED <<sessionVars, connects, wsPlayers, wsOnline>>
  BY EGSSessions DEF EGS, EGSUp, EGSCrash, ClientConnection, ClientRefused, ClientDisconnection,
         SelectChar, TickUpdate, QuitCountdown, CharRefused, SendAway, TakeMessage, EGSOnly, toldVars
<1>2. WithSession' = WithSession /\ UnderRemoval' = UnderRemoval
  BY <1>1 DEF sessionVars, WithSession, UnderRemoval, HasSession, BeingRemoved, HostsOf,
              IsInRemoveList, Live
<1> QED BY <1>1, <1>2, NothingToTell

LEMMA InitTold == Init => ToldInv
BY DEF Init, ToldInv, WSCountsSessions, WSKnowsWhoIsOnline, ToldOnce, HasSession, HostsOf, Live,
       Count

LEMMA ToldInvHolds == Spec => []ToldInv
<1>1. Init => TypeOK /\ SessionInv /\ ToldInv
  BY InitTypes, InitSessions, InitTold
<1>2. ToldInv /\ UNCHANGED vars => ToldInv'
  BY DEF vars, sessionVars, toldVars, ToldInv, WSCountsSessions, WSKnowsWhoIsOnline, ToldOnce,
         HasSession, BeingRemoved, IsInRemoveList, HostsOf, Live
<1>3. TypeOK /\ SessionInv /\ ToldInv /\ [Next]_vars => ToldInv'
  BY <1>2, FETold, EGSTold DEF Next
<1> QED BY <1>1, <1>3, SessionInvHolds, PTL DEF Spec

\* The number of players the WS keeps for the frontend is that of the sessions.
THEOREM PlayersCounted == Spec => []WSCountsSessions
<1>1. ToldInv => WSCountsSessions
  BY DEF ToldInv
<1> QED BY <1>1, ToldInvHolds, PTL

\* The WS takes nobody for offline who plays, and nobody for online who does not.
THEOREM OnlineKnown == Spec => []WSKnowsWhoIsOnline
<1>1. ToldInv => WSKnowsWhoIsOnline
  BY DEF ToldInv
<1> QED BY <1>1, ToldInvHolds, PTL

\* An EGS is never told twice that a user comes, and is told of all that leave.
THEOREM ConnectionsToldOnce == Spec => []ToldOnce
<1>1. ToldInv => ToldOnce
  BY DEF ToldInv
<1> QED BY <1>1, ToldInvHolds, PTL

--------------------------------------------------------------------------------
\* The players.  Who has no session is told of by the last message under way, or
\* there is none and the player, if any, is being sent away.
GhostInv ==
  \A u \in Users :
    /\ ~egsUp => toEGS[u] = <<>> /\ u \notin DOMAIN players
    /\ u \notin WithSession =>
         /\ toEGS[u] = <<>> \/ EndsLeft(toEGS[u])
         /\ u \in DOMAIN players \ DisconnectedUser => EndsLeft(toEGS[u])

LEMMA FEGhosts == TypeOK /\ SessionInv /\ ToldInv /\ GhostInv /\ FE => GhostInv'
<1> SUFFICES ASSUME TypeOK, SessionInv, ToldInv, GhostInv, FE PROVE GhostInv'
  OBVIOUS
<1>1. UNCHANGED <<egsUp, players, DisconnectedUser>>
  BY DEF FE, BeginTick, Disconnection, AddClient, RefuseClient, RejectClient, Quit, EndTick,
         ChooseShard, Restore, CannotRestore, ExitFromLimbo, LimboTimeOut, DisconnectClientOfEGS,
         DisconnectClientOfWS, DisconnectAllClients, EGSDown, Login, egsVars
<1>2. LeaversTold
  BY FETold
<1> HIDE DEF WithSession
<1> QED BY <1>1, <1>2 DEF GhostInv, LeaversTold, EndsLeft, EndsWith

\* Taking a message leaves the last one, or nothing.
LEMMA NoMail ==
  ASSUME NEW s \in Seq(Messages), Len(s) = 0
  PROVE  s = <<>>
OBVIOUS

LEMMA TailOfMail ==
  ASSUME NEW s \in Seq(Messages), NEW last, EndsWith(s, last)
  PROVE  EndsWith(Tail(s), last) \/ (Tail(s) = <<>> /\ Head(s) = last)
<1>1. s # <<>> /\ s[Len(s)] = last
  BY DEF EndsWith
<1>2. PICK n \in Nat : n = Len(s)
  OBVIOUS
<1>3. n # 0
  BY <1>1, <1>2
<1>4. Len(Tail(s)) = n - 1 /\ Tail(s) \in Seq(Messages)
  BY <1>1, <1>2
<1>5. CASE n = 1
  <2>1. Len(Tail(s)) = 0
    BY <1>4, <1>5
  <2>2. Tail(s) = <<>>
    BY <1>4, <2>1, NoMail
  <2>3. Head(s) = s[1] /\ s[1] = last
    BY <1>1, <1>2, <1>5
  <2> QED BY <2>2, <2>3
<1>6. CASE n > 1
  <2>1. n - 1 \in 1 .. Len(Tail(s)) /\ Tail(s) # <<>>
    BY <1>4, <1>6
  <2>2. Tail(s)[n - 1] = s[n]
    BY <1>1, <1>2, <2>1
  <2> QED BY <1>1, <1>2, <1>4, <2>1, <2>2 DEF EndsWith
<1> QED BY <1>3, <1>5, <1>6

LEMMA MailTaken ==
  ASSUME TypeOK, NEW u \in Users, NEW message, TakeMessage(u, message),
         NEW last, EndsWith(toEGS[u], last)
  PROVE  \/ EndsWith(toEGS'[u], last)
         \/ message = last /\ toEGS'[u] = <<>>
<1>1. toEGS[u] \in Seq(Messages) /\ Head(toEGS[u]) = message /\ toEGS'[u] = Tail(toEGS[u])
  BY DEF TypeOK, EGSTypeOK, TakeMessage
<1> QED BY <1>1, TailOfMail

LEMMA EGSGhosts == TypeOK /\ SessionInv /\ GhostInv /\ EGS => GhostInv'
<1> SUFFICES ASSUME TypeOK, SessionInv, GhostInv, EGS PROVE GhostInv'
  OBVIOUS
<1>1. WithSession' = WithSession
  BY EGSSessions DEF sessionVars, WithSession, HasSession, HostsOf, Live
<1> HIDE DEF WithSession
<1>2. CASE EGSUp
  BY <1>1, <1>2 DEF EGSUp, GhostInv, toldVars, EndsLeft
<1>3. CASE EGSCrash
  BY <1>1, <1>3 DEF EGSCrash, GhostInv
<1>4. ASSUME NEW u \in Users, NEW message \in Messages, TakeMessage(u, message),
             DOMAIN players' \subseteq DOMAIN players \cup {u},
             DisconnectedUser \subseteq DisconnectedUser',
             message = "CL_DISCONNECT" => u \notin DOMAIN players' \ DisconnectedUser'
      PROVE  GhostInv'
  <2>1. egsUp' = egsUp /\ egsUp
    BY <1>4 DEF TakeMessage, EGSOnly, GhostInv
  <2>2. \A v \in Users : v # u => /\ toEGS'[v] = toEGS[v]
                                  /\ v \in DOMAIN players' => v \in DOMAIN players
    BY <1>4 DEF TakeMessage, TypeOK, EGSTypeOK
  <2>3. ASSUME u \notin WithSession
        PROVE  EndsLeft(toEGS'[u]) \/ (message = "CL_DISCONNECT" /\ toEGS'[u] = <<>>)
    <3>1. EndsLeft(toEGS[u])
      BY <1>4, <2>3 DEF GhostInv, TakeMessage
    <3> QED BY <1>4, <3>1, MailTaken DEF EndsLeft
  <2>4. ASSUME NEW v \in Users, v \notin WithSession
        PROVE  /\ toEGS'[v] = <<>> \/ EndsLeft(toEGS'[v])
               /\ v \in DOMAIN players' \ DisconnectedUser' => EndsLeft(toEGS'[v])
    <3>1. CASE v = u
      BY <1>4, <2>3, <2>4, <3>1
    <3>2. CASE v # u
      BY <1>4, <2>2, <2>4, <3>2 DEF GhostInv
    <3> QED BY <3>1, <3>2
  <2> QED BY <1>1, <2>1, <2>4 DEF GhostInv, EndsLeft, EndsWith
<1>5. ASSUME NEW u \in Users, ClientConnection(u) PROVE GhostInv'
  BY <1>4, <1>5 DEF ClientConnection, Messages
<1>6. ASSUME NEW u \in Users, ClientRefused(u) PROVE GhostInv'
  BY <1>4, <1>6 DEF ClientRefused, Messages
<1>7. ASSUME NEW u \in Users, ClientDisconnection(u) PROVE GhostInv'
  <2>1. DOMAIN players' \subseteq DOMAIN players
    BY <1>7 DEF ClientDisconnection, WithoutPlayer, Restrict
  <2>2. DisconnectedUser \subseteq DisconnectedUser' /\ u \notin DOMAIN players' \ DisconnectedUser'
    BY <1>7 DEF ClientDisconnection, WithoutPlayer, Restrict
  <2>3. TakeMessage(u, "CL_DISCONNECT") /\ "CL_DISCONNECT" \in Messages
    BY <1>7 DEF ClientDisconnection, Messages
  <2> QED BY <1>4, <2>1, <2>2, <2>3
<1>8. ASSUME NEW u \in Users, SelectChar(u) PROVE GhostInv'
  BY <1>1, <1>8 DEF SelectChar, EGSOnly, GhostInv, EndsLeft, EndsWith
<1>9. ASSUME NEW u \in Users, TickUpdate(u) PROVE GhostInv'
  BY <1>1, <1>9 DEF TickUpdate, EGSOnly, GhostInv, EndsLeft, EndsWith, WithoutPlayer, Restrict
<1>10. ASSUME NEW u \in Users, QuitCountdown(u) \/ CharRefused(u) PROVE GhostInv'
  BY <1>1, <1>10 DEF QuitCountdown, CharRefused, SendAway, EGSOnly, GhostInv, EndsLeft, EndsWith,
                   WithoutPlayer, Restrict
<1> QED BY <1>2, <1>3, <1>5, <1>6, <1>7, <1>8, <1>9, <1>10 DEF EGS

\* No player is left behind: once the messages are delivered, a player of the EGS
\* has a session, or it is the EGS itself that sends it away.
THEOREM NoPlayerForgotten == Spec => []NoGhostPlayer
<1>1. Init => GhostInv
  BY DEF Init, GhostInv
<1>2. GhostInv /\ UNCHANGED vars => GhostInv'
  BY DEF vars, sessionVars, egsVars, toldVars, GhostInv, EndsLeft, EndsWith, WithSession, HasSession,
         HostsOf, Live
<1>3. TypeOK /\ SessionInv /\ ToldInv /\ GhostInv /\ [Next]_vars => GhostInv'
  BY <1>2, FEGhosts, EGSGhosts DEF Next
<1>4. TypeOK /\ GhostInv => NoGhostPlayer
  BY DEF TypeOK, EGSTypeOK, GhostInv, NoGhostPlayer, WithSession, EndsLeft, EndsWith
<1> QED BY <1>1, <1>3, <1>4, SessionInvHolds, ToldInvHolds, PTL DEF Spec

--------------------------------------------------------------------------------
\* Those who come.  An EGS has been told of them by the last message under way; or
\* it has none left, and they have got a player, or are on their way out.
GuestInv ==
  \A u \in Users :
    /\ ShardDown => connects[u] = 0
    /\ egsUp /\ connects[u] = 1 =>
         \/ EndsCame(toEGS[u])
         \/ /\ toEGS[u] = <<>>
            /\ toFE[u] = 0 => u \in DOMAIN players \cup sentAway \cup UnderRemoval

\* Nobody is told of while there is no EGS.
LEMMA FEShardDown ==
  ASSUME TypeOK, FE, NEW u \in Users, ShardDown'
  PROVE  connects'[u] = 0 \/ (ShardDown /\ connects'[u] = connects[u])
<1>1. ASSUME NEW gone, TellEGS(gone, {}) PROVE connects'[u] = 0 \/ connects'[u] = connects[u]
  <2>1. /\ connects[u] \in Nat
        /\ connects'[u] = (IF u \in gone THEN 0 ELSE connects[u]) + (IF u \in {} THEN 1 ELSE 0)
    BY <1>1, EGSIsTold
  <2> QED BY <2>1
<1>2. \/ UNCHANGED ShardDown /\ \E gone : TellEGS(gone, {})
      \/ UNCHANGED <<ShardDown, connects>>
      \/ connects'[u] = 0
  <2>1. CASE BeginTick \/ \E dead \in SUBSET Live : EndTick(dead)
    BY <2>1 DEF BeginTick, EndTick, TellGone
  <2>2. CASE \E a \in Addresses : Disconnection(a)
    BY <2>2 DEF Disconnection, TellGone, loopVars
  <2>3. ASSUME NEW a \in Addresses, NEW v \in Users, AddClient(v, a)
        PROVE  UNCHANGED ShardDown /\ \E gone : TellEGS(gone, {})
    BY <2>3 DEF AddClient, Login
  <2>4. CASE \E a \in Addresses, v \in Users : RefuseClient(v, a)
    BY <2>4 DEF RefuseClient, Login
  <2>5. ASSUME NEW c \in Ids, NEW q \in 1 .. MaxQuitId, Quit(c, q) PROVE FALSE
    BY <2>5 DEF Quit, ServesQuit, loopVars
  <2>6. CASE \E c \in Ids : RejectClient(c)
    BY <2>6 DEF RejectClient, loopVars, toldVars
  <2>7. CASE \E v \in Users : ChooseShard(v) \/ Restore(v)
    BY <2>7 DEF ChooseShard, Restore, ExitFromLimbo, loopVars, toldVars
  <2>8. CASE \E v \in Users : CannotRestore(v) \/ LimboTimeOut(v)
    BY <2>8 DEF CannotRestore, TellNotRestored, LimboTimeOut, TellGone, ExitFromLimbo, loopVars
  <2>9. CASE \E v \in Users : DisconnectClientOfEGS(v) \/ DisconnectClientOfWS(v)
    BY <2>9 DEF DisconnectClientOfEGS, DisconnectClientOfWS, DisconnectClient, TellGone, loopVars,
                toldVars
  <2>10. CASE DisconnectAllClients
    BY <2>10 DEF DisconnectAllClients, TellGone, loopVars
  <2>11. CASE EGSDown
    BY <2>11 DEF EGSDown
  <2> QED BY <2>1, <2>2, <2>3, <2>4, <2>5, <2>6, <2>7, <2>8, <2>9, <2>10, <2>11 DEF FE
<1> QED BY <1>1, <1>2

\* The order of an EGS that refused a user is used up when a removal goes on.
LEMMA FEAnswers ==
  ASSUME TypeOK, ToldInv, FE, NEW u \in Users, connects'[u] = 1
  PROVE  toFE'[u] = toFE[u] \/ u \in UnderRemoval'
<1>1. CASE DisconnectClientOfEGS(u)
  <2>1. toRemove' = WithRemovals(HostsOf(u)) /\ UNCHANGED hosts
    BY <1>1 DEF DisconnectClientOfEGS, DisconnectClient
  <2>2. CASE HostsOf(u) # {}
    <3>1. HostsOf(u)' = HostsOf(u)
      BY <2>1 DEF HostsOf, Live
    <3>2. \A c \in HostsOf(u) : IsInRemoveList(c)'
      BY <2>1, RemovalsAdded DEF IsInRemoveList
    <3> QED BY <2>2, <3>1, <3>2 DEF UnderRemoval, BeingRemoved
  <2>3. CASE HostsOf(u) = {} /\ u \in DOMAIN LimboClients
    <3>1. TellEGS({u}, {})
      BY <1>1, <2>3 DEF DisconnectClientOfEGS, DisconnectClient, TellGone
    <3>2. connects'[u] = (IF u \in {u} THEN 0 ELSE connects[u]) + (IF u \in {} THEN 1 ELSE 0)
      BY <3>1, EGSIsTold
    <3> QED BY <3>2
  <2>4. CASE ~HasSession(u)
    <3>1. connects' = connects
      BY <1>1, <2>4 DEF DisconnectClientOfEGS, DisconnectClient, HasSession, toldVars
    <3>2. connects[u] \in Nat /\ connects[u] <= 0
      BY <2>4 DEF ToldInv, ToldOnce, Count, TypeOK
    <3> QED BY <3>1, <3>2
  <2> QED BY <2>2, <2>3, <2>4 DEF HasSession
<1>2. ASSUME NEW v \in Users, v # u, DisconnectClientOfEGS(v) PROVE toFE'[u] = toFE[u]
  BY <1>2 DEF DisconnectClientOfEGS, TypeOK, EGSTypeOK
<1>3. CASE ~\E v \in Users : DisconnectClientOfEGS(v)
  BY <1>3 DEF FE, BeginTick, Disconnection, AddClient, RefuseClient, RejectClient, Quit, EndTick,
         ChooseShard, Restore, CannotRestore, ExitFromLimbo, LimboTimeOut,
         DisconnectClientOfWS, DisconnectAllClients, EGSDown, Login, egsVars
<1> QED BY <1>1, <1>2, <1>3

LEMMA FEGuests == TypeOK /\ SessionInv /\ ToldInv /\ GuestInv /\ FE => GuestInv'
<1> SUFFICES ASSUME TypeOK, SessionInv, ToldInv, GuestInv, FE, NEW u \in Users
             PROVE  /\ ShardDown' => connects'[u] = 0
                    /\ egsUp' /\ connects'[u] = 1 =>
                         \/ EndsCame(toEGS'[u])
                         \/ /\ toEGS'[u] = <<>>
                            /\ toFE'[u] = 0 =>
                                 u \in DOMAIN players' \cup sentAway' \cup UnderRemoval'
  BY DEF GuestInv, EndsCame, EndsWith
<1>1. UNCHANGED <<egsUp, players, sentAway>>
  BY DEF FE, BeginTick, Disconnection, AddClient, RefuseClient, RejectClient, Quit, EndTick,
         ChooseShard, Restore, CannotRestore, ExitFromLimbo, LimboTimeOut, DisconnectClientOfEGS,
         DisconnectClientOfWS, DisconnectAllClients, EGSDown, Login, egsVars
<1>2. ShardDown' => connects'[u] = 0
  BY FEShardDown DEF GuestInv
<1>3. GuestsTold
  BY FETold
<1> HIDE DEF UnderRemoval
<1>4. connects'[u] = 1 => toFE'[u] = toFE[u] \/ u \in UnderRemoval'
  BY FEAnswers
<1> QED BY <1>1, <1>2, <1>3, <1>4 DEF GuestInv, GuestsTold

LEMMA EGSGuests == TypeOK /\ SessionInv /\ GuestInv /\ EGS => GuestInv'
<1> SUFFICES ASSUME TypeOK, SessionInv, GuestInv, EGS PROVE GuestInv'
  OBVIOUS
<1>1. UnderRemoval' = UnderRemoval
  BY EGSSessions DEF sessionVars, UnderRemoval, BeingRemoved, IsInRemoveList, HostsOf, Live
<1> HIDE DEF UnderRemoval
<1>2. CASE EGSUp
  BY <1>2 DEF EGSUp, GuestInv, toldVars
<1>3. CASE EGSCrash
  BY <1>3 DEF EGSCrash, GuestInv, loopVars
<1>4. ASSUME NEW u \in Users, NEW message \in Messages, TakeMessage(u, message),
             \A v \in Users : v # u => /\ v \in DOMAIN players => v \in DOMAIN players'
                                       /\ v \in sentAway => v \in sentAway'
                                       /\ toFE'[v] = toFE[v],
             message = "CL_CONNECT" => u \in DOMAIN players' \/ toFE'[u] # 0
      PROVE  GuestInv'
  <2>1. UNCHANGED <<ShardDown, egsUp, connects>> /\ toEGS' = [toEGS EXCEPT ![u] = Tail(@)]
        /\ toEGS[u] # <<>>
    BY <1>4 DEF TakeMessage, EGSOnly, loopVars
  <2>2. \A v \in Users : v # u => toEGS'[v] = toEGS[v]
    BY <2>1 DEF TypeOK, EGSTypeOK
  <2>3. ASSUME egsUp, connects[u] = 1
        PROVE  EndsCame(toEGS'[u]) \/ (message = "CL_CONNECT" /\ toEGS'[u] = <<>>)
    <3>1. EndsCame(toEGS[u])
      BY <2>1, <2>3 DEF GuestInv
    <3> QED BY <1>4, <3>1, MailTaken DEF EndsCame
  <2>4. ASSUME NEW v \in Users
        PROVE  /\ ShardDown' => connects'[v] = 0
               /\ egsUp' /\ connects'[v] = 1 =>
                    \/ EndsCame(toEGS'[v])
                    \/ /\ toEGS'[v] = <<>>
                       /\ toFE'[v] = 0 =>
                            v \in DOMAIN players' \cup sentAway' \cup UnderRemoval'
    <3>1. CASE v = u
      BY <1>4, <2>1, <2>3, <3>1 DEF GuestInv
    <3>2. CASE v # u
      BY <1>1, <1>4, <2>1, <2>2, <3>2 DEF GuestInv
    <3> QED BY <3>1, <3>2
  <2> QED BY <2>4 DEF GuestInv, EndsCame, EndsWith
<1>5. ASSUME NEW u \in Users, ClientConnection(u) PROVE GuestInv'
  BY <1>4, <1>5 DEF ClientConnection, Messages
<1>6. ASSUME NEW u \in Users, ClientRefused(u) PROVE GuestInv'
  <2>1. toFE[u] \in Nat /\ toFE'[u] = toFE[u] + 1 /\ \A v \in Users : v # u => toFE'[v] = toFE[v]
    BY <1>6 DEF ClientRefused, Refuse, TypeOK, EGSTypeOK
  <2>2. toFE'[u] # 0
    BY <2>1
  <2>3. TakeMessage(u, "CL_CONNECT") /\ "CL_CONNECT" \in Messages /\ players' = players
        /\ sentAway' = sentAway \ {u}
    BY <1>6 DEF ClientRefused, Messages
  <2> QED BY <1>4, <2>1, <2>2, <2>3
<1>7. ASSUME NEW u \in Users, ClientDisconnection(u) PROVE GuestInv'
  <2>1. \A v \in Users : v # u /\ v \in DOMAIN players => v \in DOMAIN players'
    BY <1>7 DEF ClientDisconnection, WithoutPlayer, Restrict
  <2>2. TakeMessage(u, "CL_DISCONNECT") /\ "CL_DISCONNECT" \in Messages
        /\ UNCHANGED <<toFE, sentAway>>
    BY <1>7 DEF ClientDisconnection, Messages
  <2> QED BY <1>4, <2>1, <2>2
<1>8. ASSUME NEW u \in Users, UNCHANGED <<toEGS, toFE>>, EGSOnly,
             DOMAIN players \subseteq DOMAIN players' \cup sentAway', sentAway \subseteq sentAway'
      PROVE  GuestInv'
  BY <1>1, <1>8 DEF EGSOnly, loopVars, GuestInv, EndsCame, EndsWith
<1>9. ASSUME NEW u \in Users, SelectChar(u) PROVE GuestInv'
  BY <1>8, <1>9 DEF SelectChar
<1>10. ASSUME NEW u \in Users, TickUpdate(u) PROVE GuestInv'
  BY <1>8, <1>10 DEF TickUpdate, WithoutPlayer, Restrict
<1>11. ASSUME NEW u \in Users, QuitCountdown(u) \/ CharRefused(u) PROVE GuestInv'
  BY <1>8, <1>11 DEF QuitCountdown, CharRefused, SendAway, WithoutPlayer, Restrict
<1> QED BY <1>2, <1>3, <1>5, <1>6, <1>7, <1>9, <1>10, <1>11 DEF EGS

\* No refused client stays: a user that the EGS was told of, and has read of, has a
\* player, or had one since, or the FE is removing its client, or is about to.
THEOREM RefusedAreRemoved == Spec => []RefusedLeaves
<1>1. Init => GuestInv
  BY DEF Init, GuestInv
<1>2. GuestInv /\ UNCHANGED vars => GuestInv'
  BY DEF vars, loopVars, sessionVars, egsVars, toldVars, GuestInv, EndsCame, EndsWith, UnderRemoval,
         BeingRemoved, IsInRemoveList, HostsOf, Live
<1>3. TypeOK /\ SessionInv /\ ToldInv /\ GuestInv /\ [Next]_vars => GuestInv'
  BY <1>2, FEGuests, EGSGuests DEF Next
<1>4. GuestInv => RefusedLeaves
  BY DEF GuestInv, RefusedLeaves, EndsCame, EndsWith, UnderRemoval
<1> QED BY <1>1, <1>3, <1>4, SessionInvHolds, ToldInvHolds, PTL DEF Spec
================================================================================
