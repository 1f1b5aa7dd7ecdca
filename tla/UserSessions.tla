----------------------------- MODULE UserSessions -----------------------------
(* The sessions of the users on one frontend (FE): who has a client host, who   *)
(* is in limbo mode between two characters, who is being removed, and what the *)
(* FE tells the welcome service (WS) and the entities game service (EGS) about *)
(* it; on the other side the players of the EGS, which takes a user back,      *)
(* refuses it or lets its character stay in game for a while.                  *)
(*                                                                             *)
(* An address stands for an address and the QUIC connection it has.  Messages  *)
(* about different users have no effect on each other, so each user has a      *)
(* connection to the EGS of its own here.  Abstracted: what a client sends     *)
(* while its session lasts, times, and how a client host is synchronised (see  *)
(* ClientLink).  Development modes (invalid cookies, automatic user ids) are   *)
(* left out.                                                                   *)
EXTENDS Integers, Sequences, Functions

CONSTANTS
  Users, Addresses,
  ClientLimits,    \* values of the configuration variable ClientLimit
  RemovalDelay,    \* cycles between the order to remove a client and its removal: 3
  MaxCookies,      \* bound: cookies given by the WS
  MaxQuitId,       \* bound: QUITs of a client
  MaxEgsStarts     \* bound: times the EGS is started

ASSUME NbClientsAssumption == ClientLimits \subseteq Nat /\ RemovalDelay \in Nat
ASSUME BoundsAssumption == {MaxCookies, MaxQuitId, MaxEgsStarts} \subseteq Nat

VARIABLES
  \* the FE
  phase,         \* "Idle", or "Reading" the datagrams of a tick
  hosts,         \* the client hosts by id (_ClientIdCont); left: waits for its id to be freed
  LimboClients,  \* by user
  toRemove,      \* _ClientsToRemove, whose order says nothing; for is not in the code: the
                 \* user that is meant
  PendingUsers,  \* users with a cookie that no login has used
  ShardDown,
  MaxNbClients,  \* number of client ids, as configured
  \* the EGS
  egsUp,
  players,       \* the players by user; timed: setDisconnectionTime() was called
  DisconnectedUser,
  \* messages under way
  toEGS,         \* toEGS[u]: CL_CONNECT and CL_DISCONNECT of user u
  toFE,          \* toFE[u]: number of DISCONNECT_CLIENT
  \* what the FE has told, and history
  wsPlayers,     \* wsPlayers[u]: connections less disconnections told to the WS
  wsOnline,      \* users last told connected to the WS
  connects,      \* connects[u]: CL_CONNECTs to this EGS since the last CL_DISCONNECT
  lastQuit,      \* lastQuit[u]: the last QUIT served in the session of u
  sentAway,      \* users whose player the EGS has removed by itself since their CL_CONNECT
  cookies, egsStarts

loopVars == <<phase, PendingUsers, ShardDown, MaxNbClients, cookies>>
sessionVars == <<hosts, LimboClients, toRemove, lastQuit>>
egsVars == <<egsUp, players, DisconnectedUser, toFE, sentAway, egsStarts>>
toldVars == <<toEGS, connects, wsPlayers, wsOnline>>
vars == <<loopVars, sessionVars, egsVars, toldVars>>

Ids == 1 .. MaxNbClients

\* _ClientMap
Live == {c \in DOMAIN hosts : ~hosts[c].left}
HostsOf(u) == {c \in Live : hosts[c].uid = u}
HostsAt(a) == {c \in Live : hosts[c].addr = a}
LimboAt(a) == {u \in DOMAIN LimboClients : LimboClients[u].addr = a}
UsersOf(ids) == {hosts[c].uid : c \in ids}
HasSession(u) == HostsOf(u) # {} \/ u \in DOMAIN LimboClients

Host(u, a, quitId) == [uid |-> u, addr |-> a, quitId |-> quitId, left |-> FALSE]
Added(c, host) == [i \in DOMAIN hosts \cup {c} |-> IF i = c THEN host ELSE hosts[i]]

Init ==
  /\ phase = "Idle"
  /\ hosts = <<>> /\ LimboClients = <<>> /\ toRemove = {}
  /\ PendingUsers = {} /\ ShardDown = TRUE /\ MaxNbClients \in ClientLimits
  /\ egsUp = FALSE /\ players = <<>> /\ DisconnectedUser = {}
  /\ toEGS = [u \in Users |-> <<>>] /\ toFE = [u \in Users |-> 0]
  /\ wsPlayers = [u \in Users |-> 0] /\ wsOnline = {}
  /\ connects = [u \in Users |-> 0] /\ lastQuit = [u \in Users |-> 0] /\ sentAway = {}
  /\ cookies = 0 /\ egsStarts = 0

--------------------------------------------------------------------------------
Count(b) == IF b THEN 1 ELSE 0

\* Messages to the EGS, lost if it is down: a CL_DISCONNECT for each user in gone,
\* then a CL_CONNECT for each in come.
One(isSent, message) == IF isSent THEN <<message>> ELSE <<>>
TellEGS(gone, come) ==
  /\ toEGS' = IF ~egsUp THEN toEGS
              ELSE [u \in Users |-> toEGS[u] \o One(u \in gone, "CL_DISCONNECT")
                                             \o One(u \in come, "CL_CONNECT")]
  /\ connects' = [u \in Users |-> (IF u \in gone THEN 0 ELSE connects[u])
                                    + Count(u \in come)]

\* Mutant of TellWS: a user that comes is told before those who leave for it.
TellWSLate(gone, come, refused) ==
  /\ wsPlayers' = [u \in Users |-> wsPlayers[u] - Count(u \in gone) + Count(u \in come)
                                     - Count(u \in refused)]
  /\ wsOnline' = (wsOnline \cup come) \ (gone \cup refused)
\* Messages to the WS: users in gone leave, then those in come connect, of which
\* those in refused leave at once.
TellWS(gone, come, refused) ==
  /\ wsPlayers' = [u \in Users |-> wsPlayers[u] - Count(u \in gone) + Count(u \in come)
                                     - Count(u \in refused)]
  /\ wsOnline' = ((wsOnline \ gone) \cup come) \ refused

\* Users that are gone: doRemoveClient() and removeLimboClient() tell the same.
TellGone(users) == TellEGS(users, {}) /\ TellWS(users, {}, {})

WithoutLimbo(users) == Restrict(LimboClients, DOMAIN LimboClients \ users)

\* removeClientById() of several clients: their ids are freed at the end of the tick.
WithLeft(ids) ==
  [c \in DOMAIN hosts |-> [hosts[c] EXCEPT !.left = @ \/ c \in ids]]

\* isInRemoveList(); addToRemoveList() of clients that are not in it yet;
\* removeFromRemoveList()
IsInRemoveList(c) == \E e \in toRemove : e.id = c
WithRemovals(ids) ==
  toRemove \cup {[id |-> c, wait |-> RemovalDelay, for |-> hosts[c].uid] :
                  c \in {i \in ids : ~IsInRemoveList(i)}}
WithoutRemovals(ids) == {e \in toRemove : e.id \notin ids}

\* cbDisconnectClient(): the client host of the user is removed later, a user in
\* limbo mode at once.
DisconnectClient(u) ==
  /\ toRemove' = WithRemovals(HostsOf(u))
  /\ IF HostsOf(u) = {} /\ u \in DOMAIN LimboClients
     THEN LimboClients' = WithoutLimbo({u}) /\ TellGone({u})
     ELSE UNCHANGED <<LimboClients, toldVars>>
  /\ UNCHANGED <<hosts, lastQuit>>

--------------------------------------------------------------------------------
\* onTick() starts with the clients whose delay is over: readIncomingData().
BeginTick ==
  /\ phase = "Idle" /\ phase' = "Reading"
  /\ LET due == {e.id : e \in {e \in toRemove : e.wait = 0}} \cap Live
     IN hosts' = WithLeft(due) /\ TellGone(UsersOf(due))
  /\ toRemove' = {[e EXCEPT !.wait = @ - 1] : e \in {e \in toRemove : e.wait > 0}}
  /\ UNCHANGED <<PendingUsers, ShardDown, MaxNbClients, cookies, LimboClients, lastQuit, egsVars>>

\* getNewClientId()
IsNewClientId(c) ==
  c \in Ids \ DOMAIN hosts /\ \A d \in Ids \ DOMAIN hosts : c <= d
IsFull == Ids \subseteq DOMAIN hosts

\* Mutant of LeavesLimbo: another user in limbo mode at the address stays.
LeavesLimboByUser(u, a) == {u} \cap DOMAIN LimboClients
\* Users a login takes out of limbo mode: removeLimboClientOnLogin(), and whoever
\* is in limbo mode at the address.
LeavesLimbo(u, a) == ({u} \cap DOMAIN LimboClients) \cup LimboAt(a)

\* A LOGIN with a pending cookie, at an address without client host.
Login(u, a) ==
  /\ phase = "Reading" /\ u \in PendingUsers /\ HostsAt(a) = {}
  /\ PendingUsers' = PendingUsers \ {u}
  /\ LimboClients' = WithoutLimbo(LeavesLimbo(u, a))
  /\ UNCHANGED <<phase, ShardDown, MaxNbClients, cookies, egsVars>>

\* Mutant of AddClient: the EGS is not told that the previous session is over.
AddClientSilently(u, a) ==
  /\ Login(u, a)
  /\ HostsOf(u) = {}
  /\ \E c \in Ids : IsNewClientId(c) /\ hosts' = Added(c, Host(u, a, 0))
  /\ lastQuit' = [lastQuit EXCEPT ![u] = 0]
  /\ TellEGS({}, IF ShardDown THEN {} ELSE {u})
  /\ TellWS(LeavesLimbo(u, a), {u}, {})
  /\ UNCHANGED toRemove
AddClient(u, a) ==
  /\ Login(u, a)
  /\ HostsOf(u) = {}
  /\ \E c \in Ids : IsNewClientId(c) /\ hosts' = Added(c, Host(u, a, 0))
  /\ lastQuit' = [lastQuit EXCEPT ![u] = 0]
  /\ TellEGS(LeavesLimbo(u, a), IF ShardDown THEN {} ELSE {u})
  /\ TellWS(LeavesLimbo(u, a), {u}, {})
  /\ UNCHANGED toRemove

\* A user that has a client host already is refused, and this one removed; so is
\* everybody when there is no client id left.
RefuseClient(u, a) ==
  /\ Login(u, a)
  /\ HostsOf(u) # {} \/ IsFull
  /\ toRemove' = WithRemovals(HostsOf(u))
  /\ TellEGS(LeavesLimbo(u, a), {})
  /\ TellWS(LeavesLimbo(u, a), {u}, {u})
  /\ UNCHANGED <<hosts, lastQuit>>

\* A DISCONNECTION of the client at an address, or its QUIC connection closes.
Disconnection(a) ==
  /\ phase = "Reading"
  /\ HostsAt(a) \cup LimboAt(a) # {}
  /\ hosts' = WithLeft(HostsAt(a))
  /\ toRemove' = WithoutRemovals(HostsAt(a))
  /\ LET gone == IF HostsAt(a) # {} THEN {} ELSE LimboAt(a)
     IN LimboClients' = WithoutLimbo(gone) /\ TellGone(UsersOf(HostsAt(a)) \cup gone)
  /\ UNCHANGED <<loopVars, lastQuit, egsVars>>

\* Mutant of ServesQuit: also of a client that is being removed.
ServesQuitOfRemoved(c, quitId) == ~ShardDown /\ quitId > hosts[c].quitId
ServesQuit(c, quitId) == ~IsInRemoveList(c) /\ ~ShardDown /\ quitId > hosts[c].quitId

\* A QUIT that has not been served yet: the EGS is told that the user leaves and
\* comes, and the client goes to limbo mode, its id is free at once.
Quit(c, quitId) ==
  /\ phase = "Reading" /\ c \in Live /\ ServesQuit(c, quitId)
  /\ LET u == hosts[c].uid
     IN /\ LimboClients' = [v \in DOMAIN LimboClients \cup {u} |->
             IF v = u THEN [addr |-> hosts[c].addr, quitId |-> quitId] ELSE LimboClients[v]]
        /\ lastQuit' = [lastQuit EXCEPT ![u] = quitId]
        /\ TellEGS({u}, {u})
  /\ hosts' = Restrict(hosts, DOMAIN hosts \ {c})
  /\ UNCHANGED <<loopVars, toRemove, egsVars, wsPlayers, wsOnline>>

\* countRejectedMessage() at the limit.  (A service may ask for it as well.)
RejectClient(c) ==
  /\ c \in Live /\ ~IsInRemoveList(c)
  /\ toRemove' = WithRemovals({c})
  /\ UNCHANGED <<loopVars, hosts, LimboClients, lastQuit, egsVars, toldVars>>

\* Mutant of EndTick: the clients are removed, and their ids are not freed.
EndTickKeepsIds(dead) ==
  /\ phase = "Reading" /\ phase' = "Idle"
  /\ hosts' = WithLeft(dead)
  /\ toRemove' = WithoutRemovals(dead)
  /\ TellGone(UsersOf(dead))
  /\ UNCHANGED <<PendingUsers, ShardDown, MaxNbClients, cookies, LimboClients, lastQuit, egsVars>>
\* The end of onTick(): clients that seem dead are removed (updateClientsStates()),
\* then the ids of all removed clients are freed (freeIdsOfRemovedClients()).
EndTick(dead) ==
  /\ phase = "Reading" /\ phase' = "Idle"
  /\ hosts' = Restrict(hosts, Live \ dead)
  /\ toRemove' = WithoutRemovals(dead)
  /\ TellGone(UsersOf(dead))
  /\ UNCHANGED <<PendingUsers, ShardDown, MaxNbClients, cookies, LimboClients, lastQuit, egsVars>>

--------------------------------------------------------------------------------
\* Between the ticks: the messages of the services.

\* cbWSChooseShard()
ChooseShard(u) ==
  /\ phase = "Idle" /\ cookies < MaxCookies
  /\ cookies' = cookies + 1
  /\ PendingUsers' = PendingUsers \cup {u}
  /\ UNCHANGED <<phase, ShardDown, MaxNbClients, sessionVars, egsVars, toldVars>>

\* Mutant of Restored: the restored client forgets its last QUIT.
RestoredAnew(u) == Host(u, LimboClients[u].addr, 0)
Restored(u) == Host(u, LimboClients[u].addr, LimboClients[u].quitId)

\* An IMPULSION_UID for a user in limbo mode: the list of characters that the EGS
\* sends, or a late answer of the IOS.  It restores the client.
ExitFromLimbo(u) ==
  /\ phase = "Idle" /\ u \in DOMAIN LimboClients
  /\ LimboClients' = WithoutLimbo({u})
  /\ UNCHANGED <<loopVars, lastQuit, egsVars>>

Restore(u) ==
  /\ ExitFromLimbo(u)
  /\ HostsOf(u) = {}
  /\ \E c \in Ids : IsNewClientId(c) /\ hosts' = Added(c, Restored(u))
  /\ UNCHANGED <<toRemove, toldVars>>

\* Mutants of TellNotRestored: the WS is told twice; the EGS is not told.
TellNotRestoredTwice(u) == TellEGS({u}, {}) /\ TellWS({u}, {}, {u})
TellNotRestoredWS(u) == TellEGS({}, {}) /\ TellWS({}, {}, {u})
\* addClient() has told the WS, so removeLimboClient() only tells the EGS.
TellNotRestored(u) == TellEGS({u}, {}) /\ TellWS({}, {}, {u})
CannotRestore(u) ==
  /\ ExitFromLimbo(u)
  /\ HostsOf(u) # {} \/ IsFull
  /\ toRemove' = WithRemovals(HostsOf(u))
  /\ TellNotRestored(u)
  /\ UNCHANGED hosts

\* removeTimedOutLimboClients()
LimboTimeOut(u) ==
  /\ phase = "Idle" /\ u \in DOMAIN LimboClients
  /\ LimboClients' = WithoutLimbo({u})
  /\ TellGone({u})
  /\ UNCHANGED <<loopVars, hosts, toRemove, lastQuit, egsVars>>

\* DISCONNECT_CLIENT of the EGS.
DisconnectClientOfEGS(u) ==
  /\ phase = "Idle" /\ toFE[u] > 0
  /\ toFE' = [toFE EXCEPT ![u] = @ - 1]
  /\ DisconnectClient(u)
  /\ UNCHANGED <<loopVars, egsUp, players, DisconnectedUser, sentAway, egsStarts>>

\* The login system or another service asks for the same.
DisconnectClientOfWS(u) ==
  /\ phase = "Idle" /\ HasSession(u)
  /\ DisconnectClient(u)
  /\ UNCHANGED <<loopVars, egsVars>>

DisconnectAllClients ==
  /\ phase = "Idle"
  /\ toRemove' = WithRemovals(Live)
  /\ LimboClients' = WithoutLimbo(DOMAIN LimboClients)
  /\ TellGone(DOMAIN LimboClients)
  /\ UNCHANGED <<loopVars, hosts, lastQuit, egsVars>>

\* cbServiceDown(): the EGS is gone and needs not be told.
EGSDown ==
  /\ phase = "Idle" /\ ~egsUp /\ ~ShardDown
  /\ ShardDown' = TRUE
  /\ LimboClients' = <<>>
  /\ TellWS(DOMAIN LimboClients, {}, {})
  /\ connects' = [u \in Users |-> 0]
  /\ UNCHANGED <<phase, PendingUsers, MaxNbClients, cookies, hosts, toRemove, lastQuit, egsVars,
                 toEGS>>

--------------------------------------------------------------------------------
\* The EGS.

\* It starts and the FE sees it: cbServiceUp().
EGSUp ==
  /\ phase = "Idle" /\ ~egsUp /\ ShardDown /\ egsStarts < MaxEgsStarts
  /\ egsUp' = TRUE /\ egsStarts' = egsStarts + 1
  /\ ShardDown' = FALSE
  /\ UNCHANGED <<phase, PendingUsers, MaxNbClients, cookies, sessionVars, toldVars, players,
                 DisconnectedUser, toFE, sentAway>>

\* It ends or crashes; what was sent to it is lost, what it has sent arrives.
EGSCrash ==
  /\ egsUp
  /\ egsUp' = FALSE
  /\ players' = <<>> /\ DisconnectedUser' = {} /\ sentAway' = {}
  /\ toEGS' = [u \in Users |-> <<>>]
  /\ UNCHANGED <<loopVars, sessionVars, toFE, egsStarts, connects, wsPlayers, wsOnline>>

\* What a step of the EGS leaves alone, when it takes nothing or one message of u.
EGSOnly == UNCHANGED <<loopVars, sessionVars, egsUp, egsStarts, connects, wsPlayers, wsOnline>>
TakeMessage(u, message) ==
  /\ toEGS[u] # <<>> /\ Head(toEGS[u]) = message
  /\ toEGS' = [toEGS EXCEPT ![u] = Tail(@)]
  /\ EGSOnly

WithoutPlayer(u) == Restrict(players, DOMAIN players \ {u})

\* cbClientConnection(): the user gets a player, who selects a character.
ClientConnection(u) ==
  /\ TakeMessage(u, "CL_CONNECT")
  /\ u \notin DOMAIN players
  /\ players' = [v \in DOMAIN players \cup {u} |->
       IF v = u THEN [inGame |-> FALSE, timed |-> FALSE] ELSE players[v]]
  /\ sentAway' = sentAway \ {u}
  /\ UNCHANGED <<DisconnectedUser, toFE>>

\* Mutant of Refuse: the FE is not told.
RefuseSilently(u) == UNCHANGED toFE
Refuse(u) == toFE' = [toFE EXCEPT ![u] = @ + 1]

\* A user who still has a player is refused, and in stall mode everybody is who
\* has no privileges.
ClientRefused(u) ==
  /\ TakeMessage(u, "CL_CONNECT")
  /\ Refuse(u)
  /\ sentAway' = sentAway \ {u}
  /\ UNCHANGED <<players, DisconnectedUser>>

\* cbClientDisconnection(): a player in game stays for a while, others leave.
ClientDisconnection(u) ==
  /\ TakeMessage(u, "CL_DISCONNECT")
  /\ IF u \notin DOMAIN players
     THEN UNCHANGED <<players, DisconnectedUser>>
     ELSE IF players[u].inGame
          THEN /\ players' = [players EXCEPT ![u].timed = TRUE]
               /\ DisconnectedUser' = DisconnectedUser \cup {u}
          ELSE players' = WithoutPlayer(u) /\ UNCHANGED DisconnectedUser
  /\ UNCHANGED <<toFE, sentAway>>

\* The client, through the FE, selects its character.
SelectChar(u) ==
  /\ u \in DOMAIN players /\ toEGS[u] = <<>> /\ HostsOf(u) # {}
  /\ ~players[u].inGame
  /\ players' = [players EXCEPT ![u].inGame = TRUE]
  /\ EGSOnly
  /\ UNCHANGED <<DisconnectedUser, toFE, sentAway, toEGS>>

\* tickUpdate() for one of the disconnected users.  The time of a player who was
\* never disconnected is 0, so it is over.
TickUpdate(u) ==
  /\ u \in DisconnectedUser
  /\ DisconnectedUser' = DisconnectedUser \ {u}
  /\ players' = WithoutPlayer(u)
  /\ sentAway' = IF u \in DOMAIN players THEN sentAway \cup {u} ELSE sentAway
  /\ EGSOnly
  /\ UNCHANGED <<toFE, toEGS>>

\* disconnectPlayer() of a user that may not have been disconnected: the FE is not
\* told, and the client only by its character, if it has one.
SendAway(u) ==
  /\ players' = WithoutPlayer(u)
  /\ sentAway' = sentAway \cup {u}
  /\ EGSOnly
  /\ UNCHANGED <<DisconnectedUser, toFE, toEGS>>

\* The countdown of a quit ends, later in the same tick: CDisconnectTimedAction.
QuitCountdown(u) == u \in DOMAIN players /\ players[u].inGame /\ SendAway(u)

\* A character without position is selected; or the client is ready with one that
\* is unknown by now or cannot be put into the mirror: cbClientReady().
CharRefused(u) ==
  /\ u \in DOMAIN players /\ toEGS[u] = <<>> /\ HostsOf(u) # {}
  /\ SendAway(u)

--------------------------------------------------------------------------------
FE ==
  \/ BeginTick
  \/ \E a \in Addresses : Disconnection(a) \/ \E u \in Users : AddClient(u, a) \/ RefuseClient(u, a)
  \/ \E c \in Ids : RejectClient(c) \/ \E quitId \in 1 .. MaxQuitId : Quit(c, quitId)
  \/ \E dead \in SUBSET Live : EndTick(dead)
  \/ \E u \in Users : \/ ChooseShard(u) \/ Restore(u) \/ CannotRestore(u) \/ LimboTimeOut(u)
                      \/ DisconnectClientOfEGS(u) \/ DisconnectClientOfWS(u)
  \/ DisconnectAllClients \/ EGSDown

EGS ==
  \/ EGSUp \/ EGSCrash
  \/ \E u \in Users : \/ ClientConnection(u) \/ ClientRefused(u) \/ ClientDisconnection(u)
                      \/ SelectChar(u) \/ TickUpdate(u) \/ QuitCountdown(u) \/ CharRefused(u)

Next == FE \/ EGS
Spec == Init /\ [][Next]_vars

--------------------------------------------------------------------------------
Session == [uid : Users, addr : Addresses, quitId : 0 .. MaxQuitId, left : BOOLEAN]
Messages == {"CL_CONNECT", "CL_DISCONNECT"}

EGSTypeOK ==
  /\ toEGS \in [Users -> Seq(Messages)] /\ toFE \in [Users -> Nat]
  /\ DOMAIN players \subseteq Users
  /\ players \in [DOMAIN players -> [inGame : BOOLEAN, timed : BOOLEAN]]
  /\ DisconnectedUser \cup sentAway \subseteq Users

TypeOK ==
  /\ phase \in {"Idle", "Reading"}
  /\ DOMAIN hosts \subseteq Ids /\ hosts \in [DOMAIN hosts -> Session]
  /\ DOMAIN LimboClients \subseteq Users
  /\ LimboClients \in [DOMAIN LimboClients -> [addr : Addresses, quitId : 1 .. MaxQuitId]]
  /\ toRemove \subseteq [id : Ids, wait : 0 .. RemovalDelay, for : Users]
  /\ PendingUsers \subseteq Users /\ wsOnline \subseteq Users
  /\ wsPlayers \in [Users -> Int] /\ connects \in [Users -> Nat]
  /\ lastQuit \in [Users -> 0 .. MaxQuitId]
  /\ MaxNbClients \in ClientLimits /\ ShardDown \in BOOLEAN /\ egsUp \in BOOLEAN
  /\ EGSTypeOK
  /\ phase = "Idle" => Live = DOMAIN hosts

\* A user has at most one session, with a client host or in limbo mode, and so
\* has an address: no two sessions get each other's datagrams.
OneSession ==
  /\ \A c, d \in Live :
       hosts[c].uid = hosts[d].uid \/ hosts[c].addr = hosts[d].addr => c = d
  /\ \A c \in Live, u \in DOMAIN LimboClients :
       hosts[c].uid # u /\ hosts[c].addr # LimboClients[u].addr
  /\ \A u, v \in DOMAIN LimboClients : LimboClients[u].addr = LimboClients[v].addr => u = v

\* An order to remove a client, which goes by the client id, waits as long as
\* this client is there and has the id, and there is one.
RemovalReachesItsClient ==
  /\ \A e \in toRemove : e.id \in Live /\ hosts[e.id].uid = e.for
  /\ \A e, f \in toRemove : e.id = f.id => e = f

\* For the WS each session counts as one player, refused logins, limbo mode and
\* crashes of the EGS included.
WSCountsSessions == \A u \in Users : wsPlayers[u] = Count(HasSession(u))

\* The WS takes for online who has a session that is not being removed, and
\* nobody without session.
BeingRemoved(u) == \E c \in HostsOf(u) : IsInRemoveList(c)
WSKnowsWhoIsOnline ==
  \A u \in Users : IF HasSession(u) THEN BeingRemoved(u) \/ u \in wsOnline ELSE u \notin wsOnline

\* An EGS is told that a user comes only if the user left or never came before,
\* and of each user that is gone it is told.
ToldOnce == \A u \in Users : connects[u] <= Count(HasSession(u))

\* When all is delivered, a player of the EGS is one of a user with a session, or
\* one who leaves when its time is over.
NoGhostPlayer ==
  \A u \in DOMAIN players :
    toEGS[u] = <<>> => HasSession(u) \/ u \in DisconnectedUser

\* When all is delivered, a user that the EGS was told of has a player, or had
\* one since, or is being removed: no refused client stays.
RefusedLeaves ==
  \A u \in Users :
    egsUp /\ connects[u] = 1 /\ toEGS[u] = <<>> /\ toFE[u] = 0
      => u \in DOMAIN players \/ u \in sentAway \/ BeingRemoved(u)

\* A client host remembers the last QUIT of its user through limbo mode, so that
\* a QUIT repeated by the client is served once.
QuitServedOnce == \A c \in Live : hosts[c].quitId = lastQuit[hosts[c].uid]
================================================================================
