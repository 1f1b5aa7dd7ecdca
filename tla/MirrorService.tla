----------------------------- MODULE MirrorService -----------------------------
(* The mirror services (MS), one on every machine of the shard: the tick proxy *)
(* that stands for TICKS to the services of the machine (tick_proxy.cpp) and   *)
(* the automaton that exchanges the changes of a tick with the other machines  *)
(* before it answers TICKS (ms_automaton.cpp):                                 *)
(*    TICK of the master -> TICK to the services -> their TOCKs -> DELTA to    *)
(*    the other mirror services -> their DELTAs -> TOCK to the master.         *)
(*                                                                             *)
(* The state of one mirror service is a record, so that the automaton, which   *)
(* every handler calls last, is a function of what the handler has computed.   *)
(* Abstracted: what a DELTA holds (who sent it, for which cycle, stays), the   *)
(* messages services send each other through the mirror, what a tracker is     *)
(* for (that services acknowledge those they are told of, and the automaton    *)
(* waits for it, stays), the ranges of entities.                               *)
EXTENDS TickService

CONSTANTS
  Services,       \* client services
  Home,           \* Home[s]: the mirror service of the machine s runs on
  PureReceivers   \* mirror services configured with _IsPureReceiver

ASSUME HomeAssumption == Home \in [Services -> Hosts]
ASSUME PureReceiversAssumption == PureReceivers \subseteq Hosts

VARIABLES
  ms,         \* ms[m]: the process of mirror service m
  msUp,       \* the mirror services that run
  msLinked,   \* those that have sent REGISTER to TICKS
  peer,       \* peer[<<m, n>>]: what mirror service m has sent to n, in order
  fromSvc,    \* fromSvc[s]: what client service s has sent to its mirror service
  toSvc,      \* toSvc[s]: what its mirror service has sent to s
  svcLinked   \* the services connected to their mirror service

msVars == <<ms, msUp, msLinked>>
msNet == <<peer, fromSvc, toSvc, svcLinked>>
ticksState == <<ticksControl, StepCount, ClientInfos, GameCycle, ticksSaved, ticksUp>>

Pairs == Hosts \X Hosts
Local(m) == {s \in Services : Home[s] = m}

Up == [type |-> "UP"]
DataSets == [type |-> "DATASETS"]
AddTrackers(nb) == [type |-> "ATE", nb |-> nb]
FwdAck == [type |-> "FWD_ACKATE"]
Delta(waitForIt, cycle) == [type |-> "DELTA", waitForIt |-> waitForIt, cycle |-> cycle]

\* A process that has just started.  Syncd is _GameTimeStep # 0; the vectors
\* of the code hold a service once, PendingDeltas is what they are looked up for.
NewMS ==
  [State |-> "ExpectingMasterTick", Syncd |-> FALSE, GameCycle |-> 0,
   Services |-> {}, TockedServices |-> {}, NbTocked |-> 0, DeltaSent |-> FALSE,
   NbReceived |-> 0, NbExpected |-> 0, RemoteMSToWaitForDelta |-> {},
   RemoteMSList |-> {}, ReceivedBeforeSync |-> <<>>, PendingDeltas |-> {},
   ClientServices |-> {}, NbExpectedATAcknowledges |-> [s \in Services |-> 0],
   BlockedAwaitingATAck |-> FALSE]

\* The network delivers to a process that runs and is connected.
SendTo(out, S, msg) ==
  [s \in DOMAIN out |-> IF s \in S \cap svcLinked THEN Append(out[s], msg) ELSE out[s]]

--------------------------------------------------------------------------------
\* The automaton.
CheckIfAllClientTocksReceived(r) ==
  r.State = "ExpectingLocalTocks" /\ r.NbTocked = Cardinality(r.Services)
CheckIfAllIncomingDeltasReceived(r) == r.NbReceived = r.NbExpected

\* getTotalNbExpectedATAcknowledges() == 0
AllATAcknowledgesReceived(r) == \A s \in Services : r.NbExpectedATAcknowledges[s] = 0

\* Step 3 of the cycle, when its conditions are met.  A mirror service that has
\* the TOCKs and not the acknowledgements of trackers notes that it is blocked.
BuildAndSendAllOutgoingDeltas(r) ==
  IF r.DeltaSent \/ ~CheckIfAllClientTocksReceived(r) THEN r
  ELSE IF AllATAcknowledgesReceived(r) THEN [r EXCEPT !.DeltaSent = TRUE]
  ELSE [r EXCEPT !.BlockedAwaitingATAck = TRUE]

\* Mutants of TockMasterAndProcessReceivedIncomingDeltas: a missing reset.
TockMasterKeepsDeltaSent(r) ==
  [r EXCEPT !.NbTocked = 0, !.TockedServices = {}, !.State = "ExpectingMasterTick",
            !.PendingDeltas = {}, !.NbReceived = 0]
TockMasterKeepsTocks(r) ==
  [r EXCEPT !.State = "ExpectingMasterTick", !.PendingDeltas = {},
            !.NbReceived = 0, !.DeltaSent = FALSE]

\* Steps 4 to 6: the TOCK to the master, the pending deltas into the mirror, and
\* the counters of the tick back to zero.
TockMasterAndProcessReceivedIncomingDeltas(r) ==
  [r EXCEPT !.NbTocked = 0, !.TockedServices = {}, !.State = "ExpectingMasterTick",
            !.PendingDeltas = {}, !.NbReceived = 0, !.DeltaSent = FALSE]

\* doNextTask() on the state r the handler leaves, and what is on the network: it
\* may send the deltas, and then at once the master TOCK.
DoNextTask(m, r, net) ==
  LET d == BuildAndSendAllOutgoingDeltas(r)
      sends == d.DeltaSent /\ ~r.DeltaSent
      tocks == d.DeltaSent /\ CheckIfAllIncomingDeltasReceived(d)
  IN /\ ms' = [ms EXCEPT ![m] =
                 IF tocks THEN TockMasterAndProcessReceivedIncomingDeltas(d) ELSE d]
     /\ peer' = [p \in Pairs |->
                   IF sends /\ p[1] = m /\ p[2] \in d.RemoteMSList \cap msUp
                   THEN Append(net[p], Delta(m \notin PureReceivers, d.GameCycle))
                   ELSE net[p]]
     /\ toTicks' = IF tocks /\ m \in msLinked
                   THEN [toTicks EXCEPT ![m] = Append(@, Tock)] ELSE toTicks

\* receiveTockFromClient() up to its call of the automaton.
ReceiveTock(r, s) ==
  [r EXCEPT !.NbTocked = @ + 1, !.TockedServices = @ \cup {s}]

--------------------------------------------------------------------------------
\* What TICKS sends.
MasterHas(m, type) == m \in msUp /\ toHost[m] # <<>> /\ Head(toHost[m]).type = type

\* cbTPTicksUp: a mirror service that has TICKS wait for its tocks.
CbTPTicksUp(m) ==
  /\ ticksUp /\ m \in msUp \ msLinked
  /\ toTicks' = [toTicks EXCEPT ![m] = Append(@, Register(TRUE, 0))]
  /\ msLinked' = msLinked \cup {m}
  /\ UNCHANGED <<ticksState, toHost, ms, msUp, msNet>>

\* The deltas that came before the sync count in the tick they belong to.
ExamineDeltaUpdatesReceivedBeforeSync(r) ==
  LET counted == {i \in DOMAIN r.ReceivedBeforeSync :
                    r.ReceivedBeforeSync[i] > r.GameCycle}
  IN [r EXCEPT !.NbReceived = @ + Cardinality(counted), !.ReceivedBeforeSync = <<>>]

\* The sync from the master: the deltas are examined, then the services that
\* registered before it get their sync.
CbSyncFromMaster(m) ==
  /\ MasterHas(m, "REGISTERED")
  /\ toHost' = [toHost EXCEPT ![m] = Tail(@)]
  /\ LET r == [ms[m] EXCEPT !.GameCycle = Head(toHost[m]).cycle, !.Syncd = TRUE]
     IN /\ \/ /\ r.ReceivedBeforeSync = <<>>
              /\ ms' = [ms EXCEPT ![m] = r]
              /\ UNCHANGED <<peer, toTicks>>
           \/ /\ r.ReceivedBeforeSync # <<>>
              /\ DoNextTask(m, ExamineDeltaUpdatesReceivedBeforeSync(r), peer)
        /\ toSvc' = SendTo(toSvc, r.Services, Registered(r.GameCycle))
  /\ UNCHANGED <<ticksState, msUp, msLinked, fromSvc, svcLinked>>

\* sendTicks() asserts that the tick before is over; a failed nlassert stops the
\* process, and MasterTickExpected below says that it never does.
MasterTick(m) ==
  /\ MasterHas(m, "TICK") /\ ms[m].State = "ExpectingMasterTick"
  /\ toHost' = [toHost EXCEPT ![m] = Tail(@)]
  /\ DoNextTask(m, [ms[m] EXCEPT !.GameCycle = @ + 1,
                                 !.State = "ExpectingLocalTocks"], peer)
  /\ toSvc' = SendTo(toSvc, ms[m].Services, Tick)
  /\ UNCHANGED <<ticksState, msUp, msLinked, fromSvc, svcLinked>>

--------------------------------------------------------------------------------
\* What the services of the machine send.
ServiceHas(s, type) ==
  Home[s] \in msUp /\ fromSvc[s] # <<>> /\ Head(fromSvc[s]).type = type

\* Mutants of AddService: the tock of a service that comes between two ticks is
\* simulated too; it is never simulated.
AddServiceAlwaysTocks(m, s) == ReceiveTock([ms[m] EXCEPT !.Services = @ \cup {s}], s)
AddServiceNeverTocks(m, s) == [ms[m] EXCEPT !.Services = @ \cup {s}]

\* A service that registers during a tick has not had its TICK: it is counted as
\* one that has tocked.
AddService(m, s) ==
  LET r == [ms[m] EXCEPT !.Services = @ \cup {s}]
  IN IF r.State = "ExpectingLocalTocks" THEN ReceiveTock(r, s) ELSE r

CbRegisterToTickSystem(m, s) ==
  /\ ServiceHas(s, "REGISTER") /\ m = Home[s]
  /\ fromSvc' = [fromSvc EXCEPT ![s] = Tail(@)]
  /\ DoNextTask(m, AddService(m, s), peer)
  /\ toSvc' = IF ms[m].Syncd THEN SendTo(toSvc, {s}, Registered(ms[m].GameCycle))
                             ELSE toSvc
  /\ UNCHANGED <<ticksState, toHost, msUp, msLinked, svcLinked>>

CbClientTock(m, s) ==
  /\ ServiceHas(s, "TOCK") /\ m = Home[s]
  /\ ms[m].State = "ExpectingLocalTocks"
  /\ fromSvc' = [fromSvc EXCEPT ![s] = Tail(@)]
  /\ DoNextTask(m, ReceiveTock(ms[m], s), peer)
  /\ UNCHANGED <<ticksState, toHost, msUp, msLinked, toSvc, svcLinked>>

\* Mutant of RemoveService: the tock of a service that leaves stays.
RemoveServiceKeepsTock(r, s) == [r EXCEPT !.Services = @ \ {s}]

\* A service that leaves takes its tock with it.
RemoveService(r, s) ==
  [r EXCEPT !.Services = @ \ {s},
            !.NbTocked = IF s \in r.TockedServices /\ r.State = "ExpectingLocalTocks"
                         THEN @ - 1 ELSE @]

\* Mutant of NoLongerClient: the acknowledgements of the service stay expected.
NoLongerClientOwes(r, s) == [r EXCEPT !.ClientServices = @ \ {s}]
\* releaseRangesOfService(), for what the automaton sees of it: nothing more is
\* expected of the service.
NoLongerClient(r, s) ==
  [r EXCEPT !.ClientServices = @ \ {s},
            !.NbExpectedATAcknowledges[s] = IF s \in r.ClientServices THEN 0 ELSE @]

\* The mirror forgets the service, then the tick proxy, which calls the automaton
\* when the service had not tocked, or was the last one that kept NbTocked
\* different from the number of services.
CbServiceDown(m, s) ==
  /\ ServiceHas(s, "DOWN") /\ m = Home[s]
  /\ fromSvc' = [fromSvc EXCEPT ![s] = Tail(@)]
  /\ LET c == NoLongerClient(ms[m], s)
         r == IF s \in c.Services THEN RemoveService(c, s) ELSE c
         calls == /\ s \in c.Services
                  /\ r.State = "ExpectingLocalTocks"
                  /\ s \notin r.TockedServices \/ r.NbTocked = Cardinality(r.Services)
     IN IF calls THEN DoNextTask(m, r, peer)
        ELSE ms' = [ms EXCEPT ![m] = r] /\ UNCHANGED <<peer, toTicks>>
  /\ UNCHANGED <<ticksState, toHost, msUp, msLinked, toSvc, svcLinked>>

\* declareDataSets(), of one data set: allocateEntityTrackers() tells the trackers
\* of the service to the other services of the mirror, and theirs and its own to it.
DeclareDataSets(m, s) ==
  /\ ServiceHas(s, "DATASETS") /\ m = Home[s]
  /\ fromSvc' = [fromSvc EXCEPT ![s] = Tail(@)]
  /\ LET others == ms[m].ClientServices \ {s}
         clients == others \cup {s}
     IN /\ ms' = [ms EXCEPT
              ![m].ClientServices = clients,
              ![m].NbExpectedATAcknowledges = [c \in Services |->
                 @[c] + (IF c = s THEN Cardinality(clients) ELSE IF c \in others THEN 1 ELSE 0)]]
        /\ toSvc' = SendTo(SendTo(toSvc, others, AddTrackers(1)),
                          {s}, AddTrackers(Cardinality(clients)))
  /\ UNCHANGED <<ticksState, peer, toTicks, toHost, msUp, msLinked, svcLinked>>

\* decNbExpectedATAcknowledges(): the last acknowledgement calls an automaton that
\* is blocked.
CbForwardACKATE(m, s) ==
  /\ ServiceHas(s, "FWD_ACKATE") /\ m = Home[s]
  /\ fromSvc' = [fromSvc EXCEPT ![s] = Tail(@)]
  /\ LET r == [ms[m] EXCEPT !.NbExpectedATAcknowledges[s] = IF @ > 0 THEN @ - 1 ELSE 0]
     IN IF r.BlockedAwaitingATAck /\ AllATAcknowledgesReceived(r)
        THEN DoNextTask(m, [r EXCEPT !.BlockedAwaitingATAck = FALSE], peer)
        ELSE ms' = [ms EXCEPT ![m] = r] /\ UNCHANGED <<peer, toTicks>>
  /\ UNCHANGED <<ticksState, toHost, msUp, msLinked, toSvc, svcLinked>>

--------------------------------------------------------------------------------
\* What the other mirror services send.
PeerHas(n, m, type) ==
  m \in msUp /\ peer[<<n, m>>] # <<>> /\ Head(peer[<<n, m>>]).type = type
Rest(n, m) == [peer EXCEPT ![<<n, m>>] = Tail(@)]

AddRemoteMS(n, m) ==
  /\ PeerHas(n, m, "UP")
  /\ peer' = Rest(n, m)
  /\ ms' = [ms EXCEPT ![m].RemoteMSList = @ \cup {n}]
  /\ UNCHANGED <<ticksState, toTicks, toHost, msUp, msLinked, fromSvc, toSvc, svcLinked>>

\* A delta is stored, and a sender to wait for is expected from now on.
StoreDelta(r, n, msg) ==
  LET isNew == msg.waitForIt /\ n \notin r.RemoteMSToWaitForDelta
  IN [r EXCEPT !.PendingDeltas = @ \cup {<<n, msg.cycle>>},
               !.RemoteMSToWaitForDelta = IF isNew THEN @ \cup {n} ELSE @,
               !.NbExpected = IF isNew THEN @ + 1 ELSE @]

\* A delta counts in the tick it belongs to: the present one, or the next one
\* between two ticks.  Cycle 0 stands for "no sync yet".
IsDeferred(r) == r.State = "ExpectingMasterTick" /\ r.GameCycle = 0
\* Mutant of CountsNow: off by one between two ticks.
CountsNowLate(r, msg) == msg.waitForIt /\ msg.cycle >= r.GameCycle
CountsNow(r, msg) ==
  /\ msg.waitForIt
  /\ IF r.State = "ExpectingMasterTick" THEN msg.cycle > r.GameCycle
                                        ELSE msg.cycle >= r.GameCycle

ReceiveDeltaFromRemoteMS(n, m) ==
  /\ PeerHas(n, m, "DELTA")
  /\ LET msg == Head(peer[<<n, m>>])
         r == StoreDelta(ms[m], n, msg)
     IN \/ /\ IsDeferred(r)
           /\ peer' = Rest(n, m)
           /\ ms' = [ms EXCEPT ![m] =
                       IF msg.waitForIt
                       THEN [r EXCEPT !.ReceivedBeforeSync = Append(@, msg.cycle)]
                       ELSE r]
           /\ UNCHANGED toTicks
        \/ /\ ~IsDeferred(r)
           /\ DoNextTask(m, IF CountsNow(r, msg)
                            THEN [r EXCEPT !.NbReceived = @ + 1] ELSE r,
                         Rest(n, m))
  /\ UNCHANGED <<ticksState, toHost, msUp, msLinked, fromSvc, toSvc, svcLinked>>

RemoveRemoteMS(n, m) ==
  /\ PeerHas(n, m, "DOWN")
  /\ LET waited == n \in ms[m].RemoteMSToWaitForDelta
     IN DoNextTask(m, [ms[m] EXCEPT !.RemoteMSList = @ \ {n},
                                    !.RemoteMSToWaitForDelta = @ \ {n},
                                    !.NbExpected = IF waited THEN @ - 1 ELSE @],
                   Rest(n, m))
  /\ UNCHANGED <<ticksState, toHost, msUp, msLinked, fromSvc, toSvc, svcLinked>>

--------------------------------------------------------------------------------
\* Processes start and crash.  An id comes back when every connection of its
\* previous process has been seen to end.
Silent(m) ==
  /\ toTicks[m] = <<>> /\ toHost[m] = <<>>
  /\ \A p \in Pairs : m \in {p[1], p[2]} => peer[p] = <<>>
  /\ \A s \in Local(m) : fromSvc[s] = <<>> /\ toSvc[s] = <<>>

\* A new mirror service and each of the others see one another.
MSStart(m) ==
  /\ m \notin msUp /\ Silent(m)
  /\ msUp' = msUp \cup {m}
  /\ peer' = [p \in Pairs |-> IF p[1] # p[2] /\ m \in {p[1], p[2]}
                                 /\ {p[1], p[2]} \subseteq msUp'
                              THEN Append(peer[p], Up) ELSE peer[p]]
  /\ UNCHANGED <<ticksState, toTicks, toHost, ms, msLinked, fromSvc, toSvc, svcLinked>>

\* What a broken connection still delivers of queue: a prefix, then its end.
Cut(queue, kept) ==
  Append(SubSeq(queue, 1, IF kept < Len(queue) THEN kept ELSE Len(queue)), Down)

\* Every other process on a connection with m has the first kept messages of
\* what m had sent it; what it sends from now on is lost.
MSCrash(m, kept) ==
  /\ m \in msUp
  /\ msUp' = msUp \ {m}
  /\ msLinked' = msLinked \ {m}
  /\ svcLinked' = svcLinked \ Local(m)
  /\ toHost' = [toHost EXCEPT ![m] = <<>>]
  /\ toTicks' = IF m \in msLinked
                THEN [toTicks EXCEPT ![m] = Cut(@, kept)] ELSE toTicks
  /\ peer' = [p \in Pairs |->
                IF p[1] = m /\ p[2] \in msUp \ {m} THEN Cut(peer[p], kept)
                ELSE IF p[2] = m THEN <<>> ELSE peer[p]]
  /\ fromSvc' = [s \in Services |-> IF Home[s] = m THEN <<>> ELSE fromSvc[s]]
  /\ toSvc' = [s \in Services |-> IF s \in svcLinked \cap Local(m)
                                  THEN Cut(toSvc[s], kept) ELSE toSvc[s]]
  /\ ms' = [ms EXCEPT ![m] = NewMS]
  /\ UNCHANGED ticksState

MSInit ==
  /\ ms = [m \in Hosts |-> NewMS]
  /\ msUp = {}
  /\ msLinked = {}
  /\ peer = [p \in Pairs |-> <<>>]
  /\ fromSvc = [s \in Services |-> <<>>]
  /\ toSvc = [s \in Services |-> <<>>]
  /\ svcLinked = {}
================================================================================
