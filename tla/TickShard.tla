------------------------------- MODULE TickShard -------------------------------
(* The tick service with its clients.  A host is a mirror service reduced to   *)
(* what TICKS sees of its tick proxy (tick_proxy.cpp): it registers when it    *)
(* sees TICKS, is given a cycle, starts the work of a tick on a TICK and sends *)
(* its TOCK when the work is done.  MirrorService has the work itself.         *)
EXTENDS TickService

CONSTANTS
  Registrations,  \* the [tocking, threshold] a host may be configured with
  SendingModes,   \* the TickSendingMode of the configuration
  MaxQueue        \* bound: TICKS holds its next message while a queue is full

ASSUME RegistrationsAssumption ==
  Registrations \subseteq [tocking : BOOLEAN, threshold : Counts]
ASSUME SendingModesAssumption ==
  SendingModes \subseteq {"Continuous", "StepByStep"}
ASSUME MaxQueueAssumption == MaxQueue \in Nat \ {0}

VARIABLES
  hostState,   \* hostState[h]: "Down", or CTickProxy::State of the running host
  hostCycle,   \* hostCycle[h]: CTickProxy::_GameCycle
  linked,      \* hosts connected to TICKS, which have sent REGISTER
  synced       \* hosts that have had REGISTERED on their present connection

hostVars == <<hostState, hostCycle, linked, synced>>
vars == <<ticksVars, hostVars>>

HostStates == {"Down", "ExpectingMasterTick", "ExpectingLocalTocks"}

Init ==
  /\ \E mode \in SendingModes : Start(mode, 0)
  /\ toTicks = [h \in Hosts |-> <<>>]
  /\ toHost = [h \in Hosts |-> <<>>]
  /\ hostState = [h \in Hosts |-> "Down"]
  /\ hostCycle = [h \in Hosts |-> 0]
  /\ linked = {}
  /\ synced = {}

\* The connection of h with the TICKS that runs: it is not when the end of the
\* connection with an earlier one is still to be read.
Connected(h) == h \in linked /\ \A i \in DOMAIN toHost[h] : toHost[h][i] # Down

--------------------------------------------------------------------------------
\* A host process starts.  The naming service gives its id back only when the
\* end of the previous connection has been seen.
HostStart(h) ==
  /\ hostState[h] = "Down"
  /\ toTicks[h] = <<>> /\ toHost[h] = <<>>
  /\ hostState' = [hostState EXCEPT ![h] = "ExpectingMasterTick"]
  /\ hostCycle' = [hostCycle EXCEPT ![h] = 0]
  /\ UNCHANGED <<ticksVars, linked, synced>>

\* cbTPTicksUp: TICKS is seen, for the first time or again.
CbTPTicksUp(h) ==
  /\ ticksUp /\ hostState[h] # "Down" /\ h \notin linked
  /\ toHost[h] = <<>>
  /\ \E r \in Registrations :
       toTicks' = [toTicks EXCEPT ![h] = Append(@, Register(r.tocking, r.threshold))]
  /\ linked' = linked \cup {h}
  /\ UNCHANGED <<ticksControl, StepCount, ClientInfos, GameCycle, ticksSaved,
                 ticksUp, toHost, hostState, hostCycle, synced>>

HostHas(h, type) ==
  hostState[h] # "Down" /\ toHost[h] # <<>> /\ Head(toHost[h]).type = type
HostConsume(h) == toHost' = [toHost EXCEPT ![h] = Tail(@)]

\* Mutant of CbSyncFromMaster: a host that has a cycle keeps it.
CbSyncFromMasterOnce(h) ==
  /\ HostHas(h, "REGISTERED")
  /\ HostConsume(h)
  /\ hostCycle' = IF hostCycle[h] = 0
                  THEN [hostCycle EXCEPT ![h] = Head(toHost[h]).cycle] ELSE hostCycle
  /\ synced' = synced \cup {h}
  /\ UNCHANGED <<ticksControl, StepCount, ClientInfos, GameCycle, ticksSaved,
                 ticksUp, toTicks, hostState, linked>>

CbSyncFromMaster(h) ==
  /\ HostHas(h, "REGISTERED")
  /\ HostConsume(h)
  /\ hostCycle' = [hostCycle EXCEPT ![h] = Head(toHost[h]).cycle]
  /\ synced' = synced \cup {h}
  /\ UNCHANGED <<ticksControl, StepCount, ClientInfos, GameCycle, ticksSaved,
                 ticksUp, toTicks, hostState, linked>>

\* The end of the connection leaves the state of the proxy as it is.
CbTPTicksDown(h) ==
  /\ HostHas(h, "DOWN")
  /\ HostConsume(h)
  /\ linked' = linked \ {h}
  /\ synced' = synced \ {h}
  /\ UNCHANGED <<ticksControl, StepCount, ClientInfos, GameCycle, ticksSaved,
                 ticksUp, toTicks, hostState, hostCycle>>

\* A TICK is only taken in the state ExpectingMasterTick ...
MasterTickUpdate(h) ==
  /\ HostHas(h, "TICK") /\ hostState[h] = "ExpectingMasterTick"
  /\ HostConsume(h)
  /\ hostCycle' = [hostCycle EXCEPT ![h] = (@ + 1) % CycleMod]
  /\ hostState' = [hostState EXCEPT ![h] = "ExpectingLocalTocks"]
  /\ UNCHANGED <<ticksControl, StepCount, ClientInfos, GameCycle, ticksSaved,
                 ticksUp, toTicks, linked, synced>>

\* The process of h ends, and TICKS has the first kept of the messages that are
\* on their way before the end of the connection.
HostEnds(h, kept) ==
  /\ hostState' = [hostState EXCEPT ![h] = "Down"]
  /\ toHost' = [toHost EXCEPT ![h] = <<>>]
  /\ toTicks' = IF Connected(h)
                THEN [toTicks EXCEPT ![h] = Append(SubSeq(@, 1, kept), Down)]
                ELSE toTicks
  /\ linked' = linked \ {h}
  /\ synced' = synced \ {h}
  /\ UNCHANGED <<ticksControl, StepCount, ClientInfos, GameCycle, ticksSaved,
                 ticksUp, hostCycle>>

\* ... in any other state nlassert(State == ExpectingMasterTick) ends the host.
MasterTickAssertFails(h) ==
  /\ HostHas(h, "TICK") /\ hostState[h] = "ExpectingLocalTocks"
  /\ HostEnds(h, Len(toTicks[h]))

HostCrash(h) ==
  /\ hostState[h] # "Down"
  /\ \E kept \in 0 .. Len(toTicks[h]) : HostEnds(h, kept)

SentToNobody(h) == hostState[h] = "Down" /\ LoseSent(h) /\ UNCHANGED hostVars

\* The work of the tick is done; while TICKS is away the TOCK goes nowhere.
SendMasterTock(h) ==
  /\ hostState[h] = "ExpectingLocalTocks"
  /\ hostState' = [hostState EXCEPT ![h] = "ExpectingMasterTick"]
  /\ toTicks' = IF Connected(h)
                THEN [toTicks EXCEPT ![h] = Append(@, Tock)] ELSE toTicks
  /\ UNCHANGED <<ticksControl, StepCount, ClientInfos, GameCycle, ticksSaved,
                 ticksUp, toHost, hostCycle, linked, synced>>

TicksStop ==
  /\ \E saves \in BOOLEAN, kept \in [Hosts -> 0 .. MaxQueue] :
       /\ \A h \in Hosts : kept[h] <= Len(toHost[h])
       /\ Stop(saves, {h \in Hosts : Connected(h)}, kept)
  /\ UNCHANGED hostVars

TicksRestart == Restart /\ UNCHANGED hostVars

--------------------------------------------------------------------------------
\* The bound on the queues: a host that is not waited for would fill both.
Room == \A h \in Hosts : Len(toHost[h]) < MaxQueue
HostTock(h) == Len(toTicks[h]) < MaxQueue /\ SendMasterTock(h)

TicksReceive(h) ==
  /\ Room
  /\ CbRegister(h) \/ CbTock(h) \/ CbClientDisconnection(h)
  /\ UNCHANGED hostVars

Operator ==
  /\ Room
  /\ HaltTick \/ ResumeTick \/ TogglePause \/ EnableSend
  /\ UNCHANGED hostVars

TicksUpdate == Update /\ UNCHANGED hostVars

HostReceive(h) ==
  CbSyncFromMaster(h) \/ CbTPTicksDown(h) \/ MasterTickUpdate(h)
    \/ MasterTickAssertFails(h)

\* The steps of the shard while TICKS itself keeps running.
TicksAlive ==
  \/ \E h \in Hosts : \/ TicksReceive(h) \/ HostReceive(h) \/ HostStart(h)
                      \/ CbTPTicksUp(h) \/ HostTock(h) \/ HostCrash(h) \/ SentToNobody(h)
  \/ Operator
  \/ TicksUpdate

Next == TicksAlive \/ TicksStop \/ TicksRestart

Spec == Init /\ [][Next]_vars
AliveSpec == Init /\ [][TicksAlive]_vars

\* Processes run their receive loop and finish the work of a tick; nobody is
\* obliged to crash, to start, or to type a command.
Fairness ==
  /\ \A h \in Hosts : /\ WF_vars(TicksReceive(h))
                      /\ WF_vars(HostReceive(h))
                      /\ WF_vars(HostTock(h))
                      /\ WF_vars(SentToNobody(h))
FairSpec == AliveSpec /\ Fairness
FairRestartSpec == Spec /\ Fairness

--------------------------------------------------------------------------------
Messages == {Tick, Tock, Down} \cup {Registered(c) : c \in Cycles}
              \cup {Register(r.tocking, r.threshold) : r \in Registrations}

\* Every variable has its type: the slots hold a CClientInfos, the two cycles
\* and the counters their widths, the queues only messages of the protocol.
TypeOK ==
  /\ CurrentMode \in {"TickRunning", "TickHalted"}
  /\ Pause \in BOOLEAN
  /\ TickSendingMode \in {"Continuous", "StepByStep"}
  /\ StepCount \in 0 .. MaxSteps
  /\ ClientInfos \in [Hosts -> CClientInfos]
  /\ {GameCycle, SavedGameCycle, CycleFile} \subseteq Cycles
  /\ ticksUp \in BOOLEAN
  /\ toTicks \in [Hosts -> Seq(Messages)]
  /\ toHost \in [Hosts -> Seq(Messages)]
  /\ hostState \in [Hosts -> HostStates]
  /\ hostCycle \in [Hosts -> Cycles]
  /\ linked \subseteq Hosts
  /\ synced \subseteq Hosts

\* Nothing but the clients holds the ticks back.
Free ==
  ticksUp /\ CurrentMode = "TickRunning" /\ ~Pause /\ TickSendingMode = "Continuous"

\* No lost wake-up: nothing polls checkTockReceived(), so a running service with
\* clients must always have a client whose TOCK is still to come.
NeverIdle ==
  Free /\ Clients # {} => \E h \in Clients : ~ClientInfos[h].TockReceived

\* TICKS never has a client it waits for owe more than its Threshold and one
\* TOCK more, unless the Threshold is the last value of the 16-bit counter.  An
\* empty slot owes nothing, or the next client to get its id would owe it.
SlotBound(info) ==
  /\ ~info.Registered => info = NoClient
  /\ info.Tocking /\ info.Threshold + 1 < CountMod =>
       /\ info.TockMissingCount <= info.Threshold + 1
       /\ info.TockReceived => info.TockMissingCount <= info.Threshold
MissingBound == \A h \in Hosts : SlotBound(ClientInfos[h])

NbOf(queue, msg) == Cardinality({i \in DOMAIN queue : queue[i] = msg})

\* The ticks h has been sent and TICKS has not had a TOCK for.
Unanswered(h) ==
  NbOf(toHost[h], Tick) + NbOf(toTicks[h], Tock)
    + (IF hostState[h] = "ExpectingLocalTocks" THEN 1 ELSE 0)

\* TICKS never runs ahead of a client it waits for by more than the Threshold
\* of the client and the present tick, whatever is on its way between them,
\* unless the Threshold is the last value of the 16-bit counter.
RunAheadBound ==
  \A h \in Clients :
    Connected(h) /\ ClientInfos[h].Tocking /\ ClientInfos[h].Threshold + 1 < CountMod
      => Unanswered(h) <= ClientInfos[h].Threshold + 1

\* Both ends of a connection agree on the game cycle: where h is, with the
\* ticks on their way, is where TICKS is, over crashes and restarts of both.
LastRegistered(h) == {i \in DOMAIN toHost[h] : toHost[h][i].type = "REGISTERED"}
CycleAgreement ==
  \A h \in Hosts :
    /\ h \in synced /\ Connected(h)
         => (hostCycle[h] + NbOf(toHost[h], Tick)) % CycleMod = GameCycle
    /\ h \notin synced /\ Connected(h)
         => \A i \in LastRegistered(h) :
              (toHost[h][i].cycle + NbOf(toHost[h], Tick)) % CycleMod = GameCycle

\* nlassert(CTickProxy::State == ExpectingMasterTick) of sendTicks(): no TICK
\* reaches a mirror service that has not finished the tick before.
MasterTickExpected ==
  \A h \in Hosts : HostHas(h, "TICK") => hostState[h] = "ExpectingMasterTick"

\* Once nothing but the clients holds the ticks back, ticks go on for ever,
\* whichever clients come, crash and come back.
TicksGoOn ==
  <>[](Free /\ Clients # {}) => []<><<GameCycle' # GameCycle>>_vars
================================================================================
