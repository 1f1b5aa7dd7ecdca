------------------------------ MODULE GameCycle ------------------------------
(* The game cycle of a whole shard: TICKS, the mirror services that register   *)
(* with it, and the client services that register with the mirror service of   *)
(* their machine (tick_event_handler.cpp).  They meet in first-in first-out    *)
(* connections; nothing else orders what happens on different connections.     *)
EXTENDS MirrorService, Integers

CONSTANTS
  MaxCycle,     \* bound: TICKS takes no TOCK after this cycle
  MaxCrashes,   \* bound: crashes of mirror and client services
  MayHalt,      \* whether somebody may halt and resume the ticks
  MirrorUsers   \* client services that use the mirror

ASSUME MaxCycleAssumption == MaxCycle \in Nat /\ MaxCycle < CycleMod - 1
ASSUME MaxCrashesAssumption == MaxCrashes \in Nat
ASSUME MirrorUsersAssumption == MirrorUsers \subseteq Services

VARIABLES
  svcUp,      \* the client services that run
  svcCycle,   \* svcCycle[s]: CTickEventHandler::_GameCycle
  svcDeclared, \* services that have sent DATASETS
  svcSynced,  \* services that have had REGISTERED on their present connection
  crashes

svcVars == <<svcUp, svcCycle, svcDeclared, svcSynced>>
shardVars == <<ticksVars, msVars, msNet, svcVars, crashes>>

ShardInit ==
  /\ Start("Continuous", 0)
  /\ toTicks = [m \in Hosts |-> <<>>]
  /\ toHost = [m \in Hosts |-> <<>>]
  /\ MSInit
  /\ svcUp = {}
  /\ svcCycle = [s \in Services |-> 0]
  /\ svcDeclared = {}
  /\ svcSynced = {}
  /\ crashes = 0

--------------------------------------------------------------------------------
\* Client services.
svcElse == <<ticksVars, msVars, peer, crashes>>

SvcStart(s) ==
  /\ s \notin svcUp /\ fromSvc[s] = <<>>
  /\ svcUp' = svcUp \cup {s}
  /\ svcCycle' = [svcCycle EXCEPT ![s] = 0]
  /\ UNCHANGED <<svcElse, fromSvc, toSvc, svcLinked, svcDeclared, svcSynced>>

\* The local mirror service is up.
CbTicksUp(s) ==
  /\ s \in svcUp \ svcLinked /\ Home[s] \in msUp
  /\ toSvc[s] = <<>>
  /\ fromSvc' = [fromSvc EXCEPT ![s] = Append(@, Register(TRUE, 0))]
  /\ svcLinked' = svcLinked \cup {s}
  /\ UNCHANGED <<svcElse, svcVars, toSvc>>

SvcHas(s, type) == s \in svcUp /\ toSvc[s] # <<>> /\ Head(toSvc[s]).type = type
SvcConsume(s) == toSvc' = [toSvc EXCEPT ![s] = Tail(@)]

CbRegistered(s) ==
  /\ SvcHas(s, "REGISTERED")
  /\ SvcConsume(s)
  /\ svcCycle' = [svcCycle EXCEPT ![s] = Head(toSvc[s]).cycle]
  /\ svcSynced' = svcSynced \cup {s}
  /\ UNCHANGED <<svcElse, fromSvc, svcLinked, svcUp, svcDeclared>>

\* doInitMirrorLevel1(), when the mirror service says that it is ready, which
\* depends on the range manager: at any moment after the registration.
DoInitMirrorLevel1(s) ==
  /\ s \in (MirrorUsers \cap svcLinked) \ svcDeclared
  /\ fromSvc' = [fromSvc EXCEPT ![s] = Append(@, DataSets)]
  /\ svcDeclared' = svcDeclared \cup {s}
  /\ UNCHANGED <<svcElse, toSvc, svcLinked, svcUp, svcCycle, svcSynced>>

\* receiveTracker(): each tracker is acknowledged.
ReceiveTracker(s) ==
  /\ SvcHas(s, "ATE")
  /\ SvcConsume(s)
  /\ fromSvc' = IF s \in svcLinked
                THEN [fromSvc EXCEPT ![s] = @ \o [i \in 1 .. Head(toSvc[s]).nb |-> FwdAck]]
                ELSE fromSvc
  /\ UNCHANGED <<svcElse, svcVars, svcLinked>>

\* The whole tick of a service, its user callback and its TOCK, is one handler.
TickUpdate(s) ==
  /\ SvcHas(s, "TICK")
  /\ SvcConsume(s)
  /\ svcCycle' = [svcCycle EXCEPT ![s] = @ + 1]
  /\ fromSvc' = IF s \in svcLinked THEN [fromSvc EXCEPT ![s] = Append(@, Tock)]
                                   ELSE fromSvc
  /\ UNCHANGED <<svcElse, svcLinked, svcUp, svcDeclared, svcSynced>>

\* A service that uses the mirror quits when its mirror service is down, one that
\* does not waits for the next, and so may one that has not declared itself yet.
CbTicksDown(s) ==
  /\ SvcHas(s, "DOWN")
  /\ SvcConsume(s)
  /\ svcSynced' = svcSynced \ {s}
  /\ svcUp' \in {svcUp, svcUp \ {s}} /\ svcUp' \cap svcDeclared \subseteq svcUp \ {s}
  /\ svcDeclared' = svcDeclared \ {s}
  /\ UNCHANGED <<svcElse, fromSvc, svcLinked, svcCycle>>

SvcCrash(s, kept) ==
  /\ s \in svcUp /\ crashes < MaxCrashes
  /\ crashes' = crashes + 1
  /\ svcUp' = svcUp \ {s}
  /\ svcDeclared' = svcDeclared \ {s}
  /\ svcSynced' = svcSynced \ {s}
  /\ svcLinked' = svcLinked \ {s}
  /\ toSvc' = [toSvc EXCEPT ![s] = <<>>]
  /\ fromSvc' = IF s \in svcLinked THEN [fromSvc EXCEPT ![s] = Cut(@, kept)]
                                   ELSE fromSvc
  /\ UNCHANGED <<ticksVars, msVars, peer, svcCycle>>

--------------------------------------------------------------------------------
TicksStep(m) ==
  /\ GameCycle < MaxCycle
  /\ CbRegister(m) \/ CbTock(m) \/ CbClientDisconnection(m)
  /\ UNCHANGED <<msVars, msNet, svcVars, crashes>>

TicksOperator ==
  /\ MayHalt /\ GameCycle < MaxCycle
  /\ HaltTick \/ ResumeTick
  /\ UNCHANGED <<msVars, msNet, svcVars, crashes>>

MSReceive(m) ==
  /\ \/ CbSyncFromMaster(m)
     \/ MasterTick(m)
     \/ \E s \in Local(m) :
          \/ CbRegisterToTickSystem(m, s) \/ CbClientTock(m, s) \/ CbServiceDown(m, s)
          \/ DeclareDataSets(m, s) \/ CbForwardACKATE(m, s)
     \/ \E n \in Hosts \ {m} :
          AddRemoteMS(n, m) \/ ReceiveDeltaFromRemoteMS(n, m) \/ RemoveRemoteMS(n, m)
  /\ UNCHANGED <<svcVars, crashes>>

MSConnects(m) == CbTPTicksUp(m) /\ UNCHANGED <<svcVars, crashes>>
MSStarts(m) == MSStart(m) /\ UNCHANGED <<svcVars, crashes>>
SentToNobody(m) ==
  m \notin msUp /\ LoseSent(m) /\ UNCHANGED <<msVars, msNet, svcVars, crashes>>

MSCrashes(m, kept) ==
  /\ crashes < MaxCrashes
  /\ crashes' = crashes + 1
  /\ MSCrash(m, kept)
  /\ UNCHANGED svcVars

SvcReceive(s) == CbRegistered(s) \/ TickUpdate(s) \/ CbTicksDown(s) \/ ReceiveTracker(s)

\* Everything but the loss of a mirror service.
ShardNextNoMSCrash ==
  \/ \E m \in Hosts : TicksStep(m) \/ MSReceive(m) \/ MSConnects(m) \/ MSStarts(m)
  \/ \E s \in Services : SvcReceive(s) \/ SvcStart(s) \/ CbTicksUp(s) \/ DoInitMirrorLevel1(s)
  \/ \E s \in Services, kept \in 0 .. 2 : SvcCrash(s, kept)
  \/ TicksOperator

ShardNext ==
  \/ ShardNextNoMSCrash
  \/ \E m \in Hosts : SentToNobody(m)
  \/ \E m \in Hosts, kept \in 0 .. 2 : MSCrashes(m, kept)

ShardSpec == ShardInit /\ [][ShardNext]_shardVars
NoMSCrashSpec == ShardInit /\ [][ShardNextNoMSCrash]_shardVars

\* Every process goes on reading its connections, and one that sees the server
\* it depends on registers with it; starts, crashes, halts and the moment a
\* service declares its data sets are free.
ShardFairness ==
  /\ \A m \in Hosts : /\ WF_shardVars(TicksStep(m))
                      /\ WF_shardVars(MSReceive(m))
                      /\ WF_shardVars(MSConnects(m))
  /\ \A s \in Services : /\ WF_shardVars(SvcReceive(s))
                         /\ WF_shardVars(CbTicksUp(s))
FairNoMSCrashSpec == NoMSCrashSpec /\ ShardFairness

--------------------------------------------------------------------------------
\* A service is in the game when it has its sync and its mirror service runs;
\* the last cycle it has played is the one its clock shows.
Played == [s \in Services |-> IF s \in svcSynced \cap svcLinked
                              THEN svcCycle[s] ELSE -1]
Lock == INSTANCE LockStep WITH Players <- Services, cycle <- GameCycle,
                               played <- Played

\* Through the three levels of processes, and whatever services and mirror
\* services come and crash, the services of the shard play in lock step.
ServicesPlayInLockStep == Lock!LockSpec

TypeOK ==
  /\ msUp \subseteq Hosts /\ msLinked \subseteq msUp
  /\ svcUp \subseteq Services /\ svcLinked \subseteq svcUp
  /\ svcSynced \subseteq svcUp
  /\ GameCycle \in 0 .. MaxCycle + 1
  /\ \A s \in Services : svcCycle[s] \in 0 .. MaxCycle + 1
  /\ \A m \in Hosts :
       /\ ms[m].Services \cup ms[m].TockedServices \subseteq Local(m)
       /\ ms[m].NbTocked \in 0 .. Cardinality(ms[m].Services)
       /\ ms[m].GameCycle \in 0 .. MaxCycle + 1
       /\ ms[m].RemoteMSList \cup ms[m].RemoteMSToWaitForDelta \subseteq Hosts \ {m}
       /\ ms[m].NbExpected = Cardinality(ms[m].RemoteMSToWaitForDelta)
       /\ ms[m].NbReceived \in 0 .. Cardinality(Hosts)
       /\ ms[m].ClientServices \subseteq Local(m)
       /\ ms[m].NbExpectedATAcknowledges \in [Services -> Nat]

\* nlassert of sendTicks(): a mirror service that gets a TICK has answered the
\* one before, with all its services and deltas.
MasterTickExpected ==
  \A m \in Hosts : MasterHas(m, "TICK") => ms[m].State = "ExpectingMasterTick"

\* nlassert of cbTock(): no TOCK of a service is left over for another tick,
\* although a service that comes during a tick counts as one that has tocked.
TockExpected ==
  \A s \in Services :
    ServiceHas(s, "TOCK") => ms[Home[s]].State = "ExpectingLocalTocks"

\* nlasserts of receiveDeltaFromRemoteMS(): a delta is never of a later cycle
\* than the next one between two ticks, the present one during a tick.
DeltaNotTooEarly ==
  \A m, n \in Hosts :
    PeerHas(n, m, "DELTA") /\ ~IsDeferred(ms[m]) =>
      Head(peer[<<n, m>>]).cycle <=
        ms[m].GameCycle + (IF ms[m].State = "ExpectingMasterTick" THEN 1 ELSE 0)

\* nlassert of doNextTask(): services that come or go while a mirror service
\* waits for deltas leave it with as many tocks as services.
TocksStandWithDeltaSent ==
  \A m \in Hosts : ms[m].DeltaSent => CheckIfAllClientTocksReceived(ms[m])

\* Step 3.5 of the cycle: a mirror service only answers the master when it has
\* the delta of this cycle from each mirror service it waits for.
Answers(m) ==
  ms[m].State = "ExpectingLocalTocks" /\ ms'[m].State = "ExpectingMasterTick"
    /\ m \in msUp'
HasDelta(m, n) ==
  \/ <<n, ms[m].GameCycle>> \in ms[m].PendingDeltas
  \/ PeerHas(n, m, "DELTA") /\ Head(peer[<<n, m>>]).cycle = ms[m].GameCycle
       /\ peer'[<<n, m>>] = Tail(peer[<<n, m>>])
AnswersWithAllDeltas ==
  [][\A m \in Hosts : Answers(m) =>
       \A n \in ms'[m].RemoteMSToWaitForDelta : HasDelta(m, n)]_shardVars

\* As long as TICKS runs and has clients the shard gets through its cycles: no service
\* that comes or crashes during a tick leaves the others waiting.
CyclesGoOn ==
  <>[](Clients # {} /\ CurrentMode = "TickRunning") => <>(GameCycle = MaxCycle)
================================================================================
