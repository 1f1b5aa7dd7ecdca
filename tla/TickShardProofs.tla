---------------------------- MODULE TickShardProofs ----------------------------
(* What holds of TickShard for any number of hosts, any width of the counters, *)
(* any configuration and any bound on the queues.                              *)
EXTENDS TickShard, Integers, FiniteSetTheorems, TLAPS

\* The messages each process may read have the fields their type says.
LEMMA MessageFields ==
  ASSUME NEW m \in Messages
  PROVE  /\ m.type = "REGISTER" => /\ m.tocking \in BOOLEAN
                                   /\ m.threshold \in Counts
         /\ m.type = "REGISTERED" => m.cycle \in Cycles
BY RegistrationsAssumption
   DEF Messages, Tick, Tock, Down, Registered, Register

\* The queues stay queues of messages.
LEMMA QueueTypes ==
  ASSUME NEW q \in Seq(Messages), NEW m \in Messages
  PROVE  /\ Append(q, m) \in Seq(Messages)
         /\ q # <<>> => Head(q) \in Messages /\ Tail(q) \in Seq(Messages)
         /\ \A k \in 0 .. Len(q) : SubSeq(q, 1, k) \in Seq(Messages)
OBVIOUS

\* A registration keeps the slots slots.
LEMMA RegisteredSlots ==
  ASSUME NEW infos \in [Hosts -> CClientInfos], NEW h \in Hosts, NEW b \in BOOLEAN, NEW n \in Counts
  PROVE  [infos EXCEPT ![h].Registered = TRUE, ![h].Tocking = b, ![h].Threshold = n]
           \in [Hosts -> CClientInfos]
<1> DEFINE slot == [infos[h] EXCEPT !.Registered = TRUE, !.Tocking = b, !.Threshold = n]
<1>1. slot \in CClientInfos
  <2>1. infos[h] \in CClientInfos
    OBVIOUS
  <2> QED BY <2>1 DEF CClientInfos
<1>2. [infos EXCEPT ![h].Registered = TRUE, ![h].Tocking = b, ![h].Threshold = n]
        = [infos EXCEPT ![h] = slot]
  OBVIOUS
<1> HIDE DEF slot
<1> QED BY <1>1, <1>2

LEMMA NoClientType == NoClient \in CClientInfos
BY CountModAssumption DEF NoClient, CClientInfos, Counts

\* A tick and the three ways out of checkTockReceived() keep the types, whatever
\* well-typed slots and queues the handler hands over.
LEMMA BroadcastType ==
  ASSUME NEW infos \in [Hosts -> CClientInfos], NEW paused,
         NEW out \in [Hosts -> Seq(Messages)],
         GameCycle \in Cycles, BroadcastTick(infos, paused, out)
  PROVE  /\ ClientInfos' \in [Hosts -> CClientInfos]
         /\ toHost' \in [Hosts -> Seq(Messages)]
         /\ GameCycle' \in Cycles
<1>1. CASE paused
  BY <1>1 DEF BroadcastTick
<1>2. CASE ~paused
  <2>0. /\ GameCycle' = (GameCycle + 1) % CycleMod
        /\ toHost' = [h \in Hosts |-> IF infos[h].Registered
                                      THEN Append(out[h], Tick) ELSE out[h]]
    BY <1>2, Zenon DEF BroadcastTick
  <2>1. GameCycle' \in Cycles
    BY <2>0, CycleModAssumption DEF Cycles
  <2>2. \A h \in Hosts : (infos[h].TockMissingCount + 1) % CountMod \in Counts
    BY CountModAssumption DEF CClientInfos, Counts
  <2>3. ClientInfos' \in [Hosts -> CClientInfos]
    <3>1. ClientInfos' = [h \in Hosts |->
                            IF infos[h].Registered
                            THEN [infos[h] EXCEPT !.TockReceived = FALSE,
                                                  !.TockMissingCount = (@ + 1) % CountMod]
                            ELSE infos[h]]
      BY <1>2, Zenon DEF BroadcastTick
    <3>2. ASSUME NEW h \in Hosts
          PROVE  [infos[h] EXCEPT !.TockReceived = FALSE,
                                  !.TockMissingCount = (@ + 1) % CountMod] \in CClientInfos
      <4>1. infos[h] \in CClientInfos
        OBVIOUS
      <4> QED BY <2>2, <4>1 DEF CClientInfos
    <3> QED BY <3>1, <3>2
  <2>4. Tick \in Messages
    BY DEF Messages
  <2>5. toHost' \in [Hosts -> Seq(Messages)]
    BY <2>0, <2>4, QueueTypes
  <2> QED BY <2>1, <2>3, <2>5
<1> QED BY <1>1, <1>2

LEMMA CheckType ==
  ASSUME TypeOK, NEW infos \in [Hosts -> CClientInfos], NEW mode, NEW paused,
         NEW out \in [Hosts -> Seq(Messages)],
         CheckTockReceived(infos, mode, paused, out)
  PROVE  /\ ClientInfos' \in [Hosts -> CClientInfos]
         /\ toHost' \in [Hosts -> Seq(Messages)]
         /\ GameCycle' \in Cycles
         /\ StepCount' \in 0 .. MaxSteps
<1>1. GameCycle \in Cycles /\ StepCount \in 0 .. MaxSteps
  BY DEF TypeOK
<1>2. StepCount' \in 0 .. MaxSteps
  BY <1>1, MaxStepsAssumption DEF CheckTockReceived
<1>3. CASE BroadcastTick(infos, paused, out)
  BY <1>1, <1>2, <1>3, BroadcastType
<1>4. CASE UNCHANGED GameCycle /\ ClientInfos' = infos /\ toHost' = out
  BY <1>1, <1>2, <1>4
<1> QED BY <1>3, <1>4 DEF CheckTockReceived

--------------------------------------------------------------------------------
\* The part of TypeOK the steps of TICKS write, and the part the hosts write.
TicksTypeOK ==
  /\ CurrentMode \in {"TickRunning", "TickHalted"}
  /\ Pause \in BOOLEAN
  /\ TickSendingMode \in {"Continuous", "StepByStep"}
  /\ StepCount \in 0 .. MaxSteps
  /\ ClientInfos \in [Hosts -> CClientInfos]
  /\ {GameCycle, SavedGameCycle, CycleFile} \subseteq Cycles
  /\ ticksUp \in BOOLEAN
  /\ toTicks \in [Hosts -> Seq(Messages)]
  /\ toHost \in [Hosts -> Seq(Messages)]
HostsTypeOK ==
  /\ hostState \in [Hosts -> HostStates]
  /\ hostCycle \in [Hosts -> Cycles]
  /\ linked \subseteq Hosts
  /\ synced \subseteq Hosts

LEMMA TypeParts == TypeOK <=> TicksTypeOK /\ HostsTypeOK
BY DEF TypeOK, TicksTypeOK, HostsTypeOK

LEMMA InitType == Init => TypeOK
<1> SUFFICES ASSUME Init PROVE TypeOK
  OBVIOUS
<1>1. TicksTypeOK
  <2>1. PICK mode \in SendingModes : Start(mode, 0)
    BY DEF Init
  <2>2. <<>> \in Seq(Messages)
    OBVIOUS
  <2>3. toTicks \in [Hosts -> Seq(Messages)] /\ toHost \in [Hosts -> Seq(Messages)]
    BY <2>2 DEF Init
  <2>4. 0 \in Cycles /\ 1 \in 0 .. MaxSteps
    BY CycleModAssumption, MaxStepsAssumption DEF Cycles
  <2> QED BY <2>1, <2>3, <2>4, NoClientType, SendingModesAssumption
          DEF Start, TicksTypeOK
<1>2. HostsTypeOK
  BY CycleModAssumption DEF Init, HostsTypeOK, HostStates, Cycles
<1> QED BY <1>1, <1>2, TypeParts

LEMMA AddTockType ==
  ASSUME TypeOK, NEW h \in Hosts
  PROVE  AddTock(h) \in [Hosts -> CClientInfos]
<1> USE DEF TypeOK
<1> DEFINE c == ClientInfos[h].TockMissingCount
           d == IF c > 0 THEN c - 1 ELSE 0
<1>1. d \in Counts
  BY CountModAssumption DEF CClientInfos, Counts
<1>2. AddTock(h) = IF ClientInfos[h].Registered
                   THEN [ClientInfos EXCEPT ![h].TockReceived = TRUE,
                                            ![h].TockMissingCount = d]
                   ELSE ClientInfos
  BY DEF AddTock, CClientInfos
<1> HIDE DEF d
<1>3. [ClientInfos EXCEPT ![h].TockReceived = TRUE, ![h].TockMissingCount = d]
        \in [Hosts -> CClientInfos]
  BY <1>1 DEF CClientInfos
<1> QED BY <1>2, <1>3

\* The handlers of TICKS that read a message of a host.
LEMMA TicksReceiveType ==
  ASSUME TypeOK, NEW h \in Hosts, TicksReceive(h)
  PROVE  TypeOK'
<1> USE DEF TypeOK
<1>1. UNCHANGED hostVars
  BY DEF TicksReceive
<1>2. CASE CbRegister(h)
  <2> DEFINE msg == Head(toTicks[h])
             infos == [ClientInfos EXCEPT ![h].Registered = TRUE,
                                          ![h].Tocking = msg.tocking,
                                          ![h].Threshold = msg.threshold]
             out == [toHost EXCEPT ![h] = Append(@, Registered(GameCycle))]
  <2>1. msg \in Messages /\ msg.type = "REGISTER"
    BY <1>2, QueueTypes DEF CbRegister, RegisterClient, HasMessage
  <2>2. msg.tocking \in BOOLEAN /\ msg.threshold \in Counts
    BY <2>1, MessageFields
  <2>3. infos \in [Hosts -> CClientInfos]
    BY <2>2, RegisteredSlots
  <2>4. Registered(GameCycle) \in Messages
    BY DEF Messages
  <2>5. out \in [Hosts -> Seq(Messages)]
    BY <2>4, QueueTypes
  <2>6. \/ CheckTockReceived(infos, CurrentMode, Pause, out)
        \/ ClientInfos' = infos /\ toHost' = out /\ UNCHANGED <<GameCycle, StepCount>>
    BY <1>2 DEF CbRegister, RegisterClient
  <2> HIDE DEF infos, out, msg
  <2>7. /\ ClientInfos' \in [Hosts -> CClientInfos]
        /\ toHost' \in [Hosts -> Seq(Messages)]
        /\ GameCycle' \in Cycles
        /\ StepCount' \in 0 .. MaxSteps
    BY <2>3, <2>5, <2>6, CheckType
  <2>8. toTicks' \in [Hosts -> Seq(Messages)]
    BY <1>2, QueueTypes DEF CbRegister, RegisterClient, HasMessage, Consume
  <2> QED BY <1>1, <1>2, <2>7, <2>8 DEF CbRegister, RegisterClient, ticksControl, ticksSaved, hostVars
<1>3. ASSUME NEW infos \in [Hosts -> CClientInfos],
             toTicks[h] # <<>>, Consume(h),
             CheckTockReceived(infos, CurrentMode, Pause, toHost),
             UNCHANGED <<ticksControl, ticksSaved, ticksUp>>
      PROVE  TypeOK'
  <2>1. /\ ClientInfos' \in [Hosts -> CClientInfos]
        /\ toHost' \in [Hosts -> Seq(Messages)]
        /\ GameCycle' \in Cycles
        /\ StepCount' \in 0 .. MaxSteps
    BY <1>3, CheckType
  <2>2. toTicks' \in [Hosts -> Seq(Messages)]
    BY <1>3, QueueTypes DEF Consume
  <2> QED BY <1>1, <1>3, <2>1, <2>2 DEF ticksControl, ticksSaved, hostVars
<1>4. CASE CbTock(h)
  <2>1. AddTock(h) \in [Hosts -> CClientInfos]
    BY AddTockType
  <2> QED BY <1>3, <1>4, <2>1 DEF CbTock, HasMessage
<1>5. CASE CbClientDisconnection(h)
  <2>1. [ClientInfos EXCEPT ![h] = NoClient] \in [Hosts -> CClientInfos]
    BY NoClientType
  <2> QED BY <1>3, <1>5, <2>1 DEF CbClientDisconnection, UnregisterClient, HasMessage
<1> QED BY <1>2, <1>4, <1>5 DEF TicksReceive

\* The commands, and the save of the cycle.
LEMMA OperatorType ==
  ASSUME TypeOK, Operator
  PROVE  TypeOK'
<1> USE DEF TypeOK
<1>1. UNCHANGED hostVars
  BY DEF Operator
<1>2. CASE HaltTick
  BY <1>1, <1>2 DEF HaltTick, ticksSaved, hostVars
<1>3. CASE ResumeTick
  <2>1. CheckTockReceived(ClientInfos, "TickRunning", Pause, toHost)
    BY <1>3 DEF ResumeTick
  <2>2. /\ ClientInfos' \in [Hosts -> CClientInfos]
        /\ toHost' \in [Hosts -> Seq(Messages)]
        /\ GameCycle' \in Cycles
        /\ StepCount' \in 0 .. MaxSteps
    BY <2>1, CheckType
  <2> QED BY <1>1, <1>3, <2>2 DEF ResumeTick, ticksSaved, hostVars
<1>4. CASE TogglePause
  <2>1. \/ UNCHANGED <<StepCount, ClientInfos, GameCycle, toHost>>
        \/ CheckTockReceived(ClientInfos, CurrentMode, FALSE, toHost)
    BY <1>4 DEF TogglePause
  <2>2. /\ ClientInfos' \in [Hosts -> CClientInfos]
        /\ toHost' \in [Hosts -> Seq(Messages)]
        /\ GameCycle' \in Cycles
        /\ StepCount' \in 0 .. MaxSteps
    BY <2>1, CheckType
  <2> QED BY <1>1, <1>4, <2>2 DEF TogglePause, ticksSaved, hostVars
<1>5. CASE EnableSend
  BY <1>1, <1>5, MaxStepsAssumption DEF EnableSend, ticksControl, ticksSaved, hostVars
<1> QED BY <1>2, <1>3, <1>4, <1>5 DEF Operator

LEMMA TicksUpdateType ==
  ASSUME TypeOK, TicksUpdate
  PROVE  TypeOK'
BY DEF TypeOK, TicksUpdate, Update, ticksControl, hostVars

\* The end of a host, whichever way it comes.
LEMMA HostEndsType ==
  ASSUME TypeOK, NEW h \in Hosts, NEW kept \in 0 .. Len(toTicks[h]), HostEnds(h, kept)
  PROVE  TypeOK'
<1> USE DEF TypeOK
<1>1. Down \in Messages /\ <<>> \in Seq(Messages)
  BY DEF Messages
<1>2. Append(SubSeq(toTicks[h], 1, kept), Down) \in Seq(Messages)
  BY <1>1, QueueTypes
<1>3. toTicks' \in [Hosts -> Seq(Messages)] /\ toHost' \in [Hosts -> Seq(Messages)]
  BY <1>1, <1>2 DEF HostEnds
<1>4. hostState' \in [Hosts -> HostStates]
  BY DEF HostEnds, HostStates
<1> QED BY <1>3, <1>4 DEF HostEnds, ticksControl, ticksSaved

\* What a host does with a message of TICKS.
LEMMA HostReceiveType ==
  ASSUME TypeOK, NEW h \in Hosts, HostReceive(h)
  PROVE  TypeOK'
<1> USE DEF TypeOK, ticksControl, ticksSaved
<1>1. toHost[h] # <<>>
  BY DEF HostReceive, CbSyncFromMaster, CbTPTicksDown, MasterTickUpdate,
         MasterTickAssertFails, HostHas
<1>2. HostConsume(h) => toHost' \in [Hosts -> Seq(Messages)]
  BY <1>1, QueueTypes DEF HostConsume
<1>3. CASE CbSyncFromMaster(h)
  <2>1. Head(toHost[h]).cycle \in Cycles
    BY <1>1, <1>3, QueueTypes, MessageFields DEF CbSyncFromMaster, HostHas
  <2> QED BY <1>2, <1>3, <2>1 DEF CbSyncFromMaster
<1>4. CASE CbTPTicksDown(h)
  BY <1>2, <1>4 DEF CbTPTicksDown
<1>5. CASE MasterTickUpdate(h)
  <2>1. (hostCycle[h] + 1) % CycleMod \in Cycles
    BY CycleModAssumption DEF Cycles
  <2> QED BY <1>2, <1>5, <2>1 DEF MasterTickUpdate, HostStates
<1>6. CASE MasterTickAssertFails(h)
  <2>1. Len(toTicks[h]) \in 0 .. Len(toTicks[h])
    OBVIOUS
  <2> QED BY <1>6, <2>1, HostEndsType DEF MasterTickAssertFails
<1> QED BY <1>3, <1>4, <1>5, <1>6 DEF HostReceive

\* What a host does of itself, and what the network does.
LEMMA HostStepType ==
  ASSUME TypeOK, NEW h \in Hosts,
         HostStart(h) \/ CbTPTicksUp(h) \/ HostTock(h) \/ HostCrash(h) \/ SentToNobody(h)
  PROVE  TypeOK'
<1> USE DEF TypeOK, ticksControl, ticksSaved
<1>1. CASE HostStart(h)
  BY <1>1, CycleModAssumption DEF HostStart, HostStates, Cycles, ticksVars
<1>2. CASE CbTPTicksUp(h)
  <2>1. PICK r \in Registrations :
          toTicks' = [toTicks EXCEPT ![h] = Append(@, Register(r.tocking, r.threshold))]
    BY <1>2 DEF CbTPTicksUp
  <2>2. Register(r.tocking, r.threshold) \in Messages
    BY DEF Messages
  <2>3. toTicks' \in [Hosts -> Seq(Messages)]
    BY <2>1, <2>2, QueueTypes
  <2> QED BY <1>2, <2>3 DEF CbTPTicksUp
<1>3. CASE HostTock(h)
  <2>1. Tock \in Messages
    BY DEF Messages
  <2>2. toTicks' \in [Hosts -> Seq(Messages)]
    BY <1>3, <2>1, QueueTypes DEF HostTock, SendMasterTock
  <2> QED BY <1>3, <2>2 DEF HostTock, SendMasterTock, HostStates
<1>4. CASE HostCrash(h)
  BY <1>4, HostEndsType DEF HostCrash
<1>5. CASE SentToNobody(h)
  BY <1>5 DEF SentToNobody, LoseSent, hostVars
<1> QED BY <1>1, <1>2, <1>3, <1>4, <1>5

\* The end of TICKS and its next start.
LEMMA TicksStopType ==
  ASSUME TypeOK, TicksStop \/ TicksRestart
  PROVE  TypeOK'
<1> USE DEF TypeOK, ticksControl, ticksSaved, hostVars
<1>1. CASE TicksStop
  <2>1. PICK saves \in BOOLEAN, kept \in [Hosts -> 0 .. MaxQueue] :
          /\ \A h \in Hosts : kept[h] <= Len(toHost[h])
          /\ Stop(saves, {h \in Hosts : Connected(h)}, kept)
    BY <1>1 DEF TicksStop
  <2>2. \A h \in Hosts : kept[h] \in 0 .. Len(toHost[h])
    BY <2>1, MaxQueueAssumption
  <2>3. Down \in Messages /\ <<>> \in Seq(Messages)
    BY DEF Messages
  <2>4. \A h \in Hosts : Append(SubSeq(toHost[h], 1, kept[h]), Down) \in Seq(Messages)
    BY <2>2, <2>3, QueueTypes
  <2>5. toTicks' \in [Hosts -> Seq(Messages)] /\ toHost' \in [Hosts -> Seq(Messages)]
    BY <2>1, <2>3, <2>4 DEF Stop
  <2> QED BY <1>1, <2>1, <2>5 DEF TicksStop, Stop
<1>2. CASE TicksRestart
  <2>1. ClientInfos' \in [Hosts -> CClientInfos]
    BY <1>2, NoClientType DEF TicksRestart, Restart
  <2>2. StepCount' \in 0 .. MaxSteps
    BY <1>2, MaxStepsAssumption DEF TicksRestart, Restart
  <2> QED BY <1>2, <2>1, <2>2 DEF TicksRestart, Restart
<1> QED BY <1>1, <1>2

\* Every step of the shard keeps the types.
LEMMA NextType ==
  ASSUME TypeOK, [Next]_vars
  PROVE  TypeOK'
<1>1. ASSUME NEW h \in Hosts, TicksReceive(h)
      PROVE  TypeOK'
  BY <1>1, TicksReceiveType
<1>2. ASSUME NEW h \in Hosts, HostReceive(h)
      PROVE  TypeOK'
  BY <1>2, HostReceiveType
<1>3. ASSUME NEW h \in Hosts,
             HostStart(h) \/ CbTPTicksUp(h) \/ HostTock(h) \/ HostCrash(h)
               \/ SentToNobody(h)
      PROVE  TypeOK'
  BY <1>3, HostStepType
<1>4. CASE Operator
  BY <1>4, OperatorType
<1>5. CASE TicksUpdate
  BY <1>5, TicksUpdateType
<1>6. CASE TicksStop \/ TicksRestart
  BY <1>6, TicksStopType
<1>7. CASE UNCHANGED vars
  BY <1>7 DEF vars, ticksVars, hostVars, TypeOK
<1> QED BY <1>1, <1>2, <1>3, <1>4, <1>5, <1>6, <1>7 DEF Next, TicksAlive

\* Whatever comes, crashes and comes back, the variables keep their types: the
\* counters of the slots and the cycles keep their widths, and a message of the
\* protocol is all that ever reaches either end of a connection.
THEOREM TypeCorrect == Spec => []TypeOK
BY InitType, NextType, PTL DEF Spec

--------------------------------------------------------------------------------
\* A handler that ends with checkTockReceived() leaves a client whose TOCK is to
\* come, unless something else holds the ticks back.
LEMMA CheckNotIdle ==
  ASSUME TypeOK, NEW infos \in [Hosts -> CClientInfos], NEW out,
         CheckTockReceived(infos, CurrentMode', Pause', out),
         UNCHANGED TickSendingMode
  PROVE  NeverIdle'
<1> SUFFICES ASSUME Free', Clients' # {}
             PROVE  \E h \in Clients' : ~ClientInfos'[h].TockReceived
  BY DEF NeverIdle
<1>1. CurrentMode' = "TickRunning" /\ ~Pause' /\ TickSendingMode = "Continuous"
  BY DEF Free
<1>2. CASE \E h \in Hosts : Blocks(infos[h])
  <2>1. ClientInfos' = infos
    BY <1>2 DEF CheckTockReceived
  <2> QED BY <1>2, <2>1 DEF Blocks, Clients
<1>3. CASE BroadcastTick(infos, Pause', out)
  <2>1. ClientInfos' =
          [h \in Hosts |->
             IF infos[h].Registered
             THEN [infos[h] EXCEPT !.TockReceived = FALSE,
                                   !.TockMissingCount = (@ + 1) % CountMod]
             ELSE infos[h]]
    BY <1>1, <1>3, Zenon DEF BroadcastTick
  <2>2. PICK h \in Clients' : TRUE
    OBVIOUS
  <2>3. h \in Hosts /\ ClientInfos'[h].Registered
    BY <2>2 DEF Clients
  <2>4. infos[h].Registered
    BY <2>1, <2>3
  <2>5. ~ClientInfos'[h].TockReceived
    BY <2>1, <2>3, <2>4 DEF CClientInfos
  <2> QED BY <2>2, <2>5
<1> QED BY <1>1, <1>2, <1>3 DEF CheckTockReceived

\* A step that leaves the slots and the switches alone cannot lose a wake-up.
LEMMA UnchangedNotIdle ==
  ASSUME NeverIdle,
         UNCHANGED <<CurrentMode, Pause, TickSendingMode, ClientInfos, ticksUp>>
  PROVE  NeverIdle'
BY DEF NeverIdle, Free, Clients

LEMMA NextNotIdle ==
  ASSUME TypeOK, NeverIdle, [Next]_vars
  PROVE  NeverIdle'
<1> USE DEF ticksControl
<1>1. ASSUME NEW h \in Hosts, TicksReceive(h)
      PROVE  NeverIdle'
  <2>1. CASE CbRegister(h)
    <3> DEFINE msg == Head(toTicks[h])
               infos == [ClientInfos EXCEPT ![h].Registered = TRUE,
                                            ![h].Tocking = msg.tocking,
                                            ![h].Threshold = msg.threshold]
               out == [toHost EXCEPT ![h] = Append(@, Registered(GameCycle))]
    <3>1. infos \in [Hosts -> CClientInfos]
      <4>1. msg \in Messages /\ msg.type = "REGISTER"
        BY <2>1, QueueTypes DEF CbRegister, RegisterClient, HasMessage, TypeOK
      <4>2. msg.tocking \in BOOLEAN /\ msg.threshold \in Counts
        BY <4>1, MessageFields
      <4> QED BY <4>2, RegisteredSlots DEF TypeOK
    <3>2. CASE CheckTockReceived(infos, CurrentMode, Pause, out)
      BY <2>1, <3>1, <3>2, CheckNotIdle DEF CbRegister, RegisterClient
    <3>3. CASE Clients # {} /\ ClientInfos' = infos
      <4> SUFFICES ASSUME Free'
                   PROVE  \E k \in Clients' : ~ClientInfos'[k].TockReceived
        BY DEF NeverIdle
      <4>1. Free
        BY <2>1 DEF CbRegister, RegisterClient, Free
      <4>2. PICK k \in Clients : ~ClientInfos[k].TockReceived
        BY <3>3, <4>1 DEF NeverIdle
      <4>3. k # h
        BY <2>1, <4>2 DEF CbRegister, RegisterClient, Clients
      <4>4. k \in Hosts /\ ClientInfos'[k] = ClientInfos[k]
        BY <3>3, <4>2, <4>3 DEF Clients, TypeOK
      <4> QED BY <4>2, <4>4 DEF Clients
    <3> QED BY <2>1, <3>2, <3>3 DEF CbRegister, RegisterClient
  <2>2. CASE CbTock(h)
    <3>1. AddTock(h) \in [Hosts -> CClientInfos]
      BY AddTockType
    <3> QED BY <2>2, <3>1, CheckNotIdle DEF CbTock
  <2>3. CASE CbClientDisconnection(h)
    <3>1. [ClientInfos EXCEPT ![h] = NoClient] \in [Hosts -> CClientInfos]
      BY NoClientType DEF TypeOK
    <3> QED BY <2>3, <3>1, CheckNotIdle DEF CbClientDisconnection, UnregisterClient
  <2> QED BY <1>1, <2>1, <2>2, <2>3 DEF TicksReceive
<1>2. CASE Operator
  <2>1. ClientInfos \in [Hosts -> CClientInfos]
    BY DEF TypeOK
  <2>2. CASE HaltTick
    BY <2>2 DEF HaltTick, NeverIdle, Free
  <2>3. CASE ResumeTick
    BY <2>1, <2>3, CheckNotIdle DEF ResumeTick
  <2>4. CASE TogglePause
    <3>1. CASE ~Pause
      BY <2>4, <3>1 DEF TogglePause, NeverIdle, Free, TypeOK
    <3>2. CASE Pause
      <4>1. CheckTockReceived(ClientInfos, CurrentMode', Pause', toHost)
        BY <2>4, <3>2 DEF TogglePause
      <4> QED BY <2>1, <2>4, <4>1, CheckNotIdle DEF TogglePause
    <3> QED BY <3>1, <3>2 DEF TypeOK
  <2>5. CASE EnableSend
    BY <2>5, UnchangedNotIdle DEF EnableSend
  <2> QED BY <1>2, <2>2, <2>3, <2>4, <2>5 DEF Operator
<1>3. CASE TicksUpdate
  BY <1>3, UnchangedNotIdle DEF TicksUpdate, Update
<1>4. ASSUME NEW h \in Hosts,
             \/ HostReceive(h) \/ HostStart(h) \/ CbTPTicksUp(h) \/ HostTock(h)
             \/ HostCrash(h) \/ SentToNobody(h)
      PROVE  NeverIdle'
  BY <1>4, UnchangedNotIdle
     DEF HostReceive, CbSyncFromMaster, CbTPTicksDown, MasterTickUpdate,
         MasterTickAssertFails, HostEnds, HostStart, CbTPTicksUp, HostTock,
         SendMasterTock, HostCrash, SentToNobody, LoseSent, ticksVars
<1>5. CASE TicksStop
  BY <1>5 DEF TicksStop, Stop, NeverIdle, Free
<1>6. CASE TicksRestart
  BY <1>6 DEF TicksRestart, Restart, NeverIdle, Clients, NoClient
<1>7. CASE UNCHANGED vars
  BY <1>7, UnchangedNotIdle DEF vars, ticksVars
<1> QED BY <1>1, <1>2, <1>3, <1>4, <1>5, <1>6, <1>7 DEF Next, TicksAlive

LEMMA InitNotIdle == Init => NeverIdle
BY DEF Init, Start, NeverIdle, Clients, NoClient

\* No lost wake-up: however registrations, TOCKs, disconnections, halts, pauses,
\* crashes and restarts interleave, ticks that nothing but the clients holds back
\* wait for a TOCK that is still to come.
THEOREM NoLostWakeUp == Spec => []NeverIdle
<1>1. Init => TypeOK /\ NeverIdle
  BY InitType, InitNotIdle
<1>2. TypeOK /\ NeverIdle /\ [Next]_vars => (TypeOK /\ NeverIdle)'
  BY NextType, NextNotIdle
<1> QED BY <1>1, <1>2, PTL DEF Spec

--------------------------------------------------------------------------------
\* A tick adds one missing TOCK to a slot checkTockReceived() has found below its
\* bound.
LEMMA TickSlotBound ==
  ASSUME NEW info \in CClientInfos, SlotBound(info), info.Registered, ~Blocks(info)
  PROVE  SlotBound([info EXCEPT !.TockReceived = FALSE,
                                !.TockMissingCount = (@ + 1) % CountMod])
<1> DEFINE n == (info.TockMissingCount + 1) % CountMod
           ticked == [info EXCEPT !.TockReceived = FALSE, !.TockMissingCount = n]
<1>1. info.Tocking /\ info.Threshold + 1 < CountMod =>
        info.TockMissingCount <= info.Threshold
  BY DEF SlotBound, Blocks, CClientInfos, Counts
<1>2. info.Tocking /\ info.Threshold + 1 < CountMod => n <= info.Threshold + 1
  BY <1>1, CountModAssumption DEF CClientInfos, Counts
<1>3. /\ ticked.Registered /\ ~ticked.TockReceived
      /\ ticked.Tocking = info.Tocking /\ ticked.Threshold = info.Threshold
      /\ ticked.TockMissingCount = n
  BY DEF CClientInfos
<1> HIDE DEF n, ticked
<1>4. SlotBound(ticked)
  BY <1>2, <1>3 DEF SlotBound
<1> QED BY <1>4 DEF ticked, n

LEMMA CheckBound ==
  ASSUME NEW infos \in [Hosts -> CClientInfos], NEW mode, NEW paused, NEW out,
         \A h \in Hosts : SlotBound(infos[h]),
         CheckTockReceived(infos, mode, paused, out)
  PROVE  MissingBound'
<1>1. CASE ClientInfos' = infos
  BY <1>1 DEF MissingBound
<1>2. CASE /\ \A h \in Hosts : ~Blocks(infos[h])
           /\ BroadcastTick(infos, paused, out)
           /\ ClientInfos' # infos
  <2>1. ClientInfos' =
          [h \in Hosts |->
             IF infos[h].Registered
             THEN [infos[h] EXCEPT !.TockReceived = FALSE,
                                   !.TockMissingCount = (@ + 1) % CountMod]
             ELSE infos[h]]
    BY <1>2, Zenon DEF BroadcastTick
  <2> SUFFICES ASSUME NEW h \in Hosts PROVE SlotBound(ClientInfos'[h])
    BY DEF MissingBound
  <2>2. CASE infos[h].Registered
    <3>1. SlotBound([infos[h] EXCEPT !.TockReceived = FALSE,
                                     !.TockMissingCount = (@ + 1) % CountMod])
      BY <1>2, <2>2, TickSlotBound
    <3> QED BY <2>1, <2>2, <3>1, Zenon
  <2>3. CASE ~infos[h].Registered
    BY <2>1, <2>3
  <2> QED BY <2>2, <2>3
<1> QED BY <1>1, <1>2, Zenon DEF CheckTockReceived

\* The handlers hand checkTockReceived() slots that are within their bounds.
LEMMA NoClientBound == SlotBound(NoClient)
BY DEF SlotBound, NoClient

LEMMA AddTockBound ==
  ASSUME TypeOK, NEW h \in Hosts, SlotBound(ClientInfos[h])
  PROVE  SlotBound(AddTock(h)[h])
<1> DEFINE c == ClientInfos[h].TockMissingCount
           d == IF c > 0 THEN c - 1 ELSE 0
           info == [ClientInfos[h] EXCEPT !.TockReceived = TRUE,
                                          !.TockMissingCount = d]
<1>0. ClientInfos \in [Hosts -> CClientInfos]
  BY DEF TypeOK
<1>1. ClientInfos[h] \in CClientInfos
  BY <1>0
<1>2. ClientInfos[h].Tocking /\ ClientInfos[h].Threshold + 1 < CountMod =>
        d <= ClientInfos[h].Threshold
  BY <1>1 DEF SlotBound, CClientInfos, Counts
<1>3. ClientInfos[h].Registered => AddTock(h)[h] = info
  BY <1>0 DEF AddTock, CClientInfos
<1>4. /\ info.Registered = ClientInfos[h].Registered
      /\ info.Tocking = ClientInfos[h].Tocking
      /\ info.Threshold = ClientInfos[h].Threshold
      /\ info.TockMissingCount = d
  BY <1>1 DEF CClientInfos
<1>5. d \in Nat /\ info.Threshold \in Nat
  BY <1>1, <1>4 DEF CClientInfos, Counts
<1> HIDE DEF d, info
<1>6. ClientInfos[h].Registered => SlotBound(info)
  BY <1>2, <1>4, <1>5 DEF SlotBound
<1>7. ~ClientInfos[h].Registered => AddTock(h) = ClientInfos
  BY DEF AddTock
<1> QED BY <1>3, <1>6, <1>7

LEMMA NextBound ==
  ASSUME TypeOK, MissingBound, [Next]_vars
  PROVE  MissingBound'
<1>0. ClientInfos \in [Hosts -> CClientInfos]
  BY DEF TypeOK
<1>1. ASSUME NEW h \in Hosts, TicksReceive(h)
      PROVE  MissingBound'
  <2>1. CASE CbRegister(h)
    <3> DEFINE msg == Head(toTicks[h])
               infos == [ClientInfos EXCEPT ![h].Registered = TRUE,
                                            ![h].Tocking = msg.tocking,
                                            ![h].Threshold = msg.threshold]
               out == [toHost EXCEPT ![h] = Append(@, Registered(GameCycle))]
    <3>1. msg.tocking \in BOOLEAN /\ msg.threshold \in Counts
      BY <2>1, QueueTypes, MessageFields DEF CbRegister, RegisterClient, HasMessage, TypeOK
    <3>2. infos \in [Hosts -> CClientInfos]
      BY <1>0, <3>1 DEF CClientInfos
    <3>3. ClientInfos[h] = NoClient
      BY <2>1 DEF CbRegister, RegisterClient, MissingBound, SlotBound
    <3>4. infos[h].Registered /\ infos[h].TockMissingCount = 0
      BY <1>0, <3>3 DEF NoClient
    <3>5. SlotBound(infos[h])
      <4> HIDE DEF infos
      <4>1. infos[h].Threshold \in Nat
        BY <3>2 DEF CClientInfos, Counts
      <4> QED BY <3>4, <4>1 DEF SlotBound
    <3>6. \A k \in Hosts : SlotBound(infos[k])
      BY <1>0, <3>5 DEF MissingBound
    <3>7. \/ CheckTockReceived(infos, CurrentMode, Pause, out)
          \/ ClientInfos' = infos
      BY <2>1 DEF CbRegister, RegisterClient
    <3> HIDE DEF infos, out
    <3>8. CASE ClientInfos' = infos
      BY <3>6, <3>8 DEF MissingBound
    <3> QED BY <3>2, <3>6, <3>7, <3>8, CheckBound
  <2>2. CASE CbTock(h)
    <3>1. AddTock(h) \in [Hosts -> CClientInfos]
      BY AddTockType
    <3>2. SlotBound(AddTock(h)[h])
      BY <1>0, AddTockBound DEF MissingBound
    <3>3. \A k \in Hosts : SlotBound(AddTock(h)[k])
      BY <1>0, <3>2 DEF MissingBound, AddTock
    <3> QED BY <2>2, <3>1, <3>3, CheckBound DEF CbTock
  <2>3. CASE CbClientDisconnection(h)
    <3> DEFINE infos == [ClientInfos EXCEPT ![h] = NoClient]
    <3>1. infos \in [Hosts -> CClientInfos] /\ \A k \in Hosts : SlotBound(infos[k])
      BY <1>0, NoClientType, NoClientBound DEF MissingBound
    <3> QED BY <2>3, <3>1, CheckBound DEF CbClientDisconnection, UnregisterClient
  <2> QED BY <1>1, <2>1, <2>2, <2>3 DEF TicksReceive
<1>2. ASSUME CheckTockReceived(ClientInfos, CurrentMode', Pause', toHost)
      PROVE  MissingBound'
  BY <1>0, <1>2, CheckBound DEF MissingBound
<1>3. CASE Operator
  BY <1>2, <1>3 DEF Operator, HaltTick, ResumeTick, TogglePause, EnableSend, MissingBound
<1>4. CASE TicksRestart
  BY <1>4, NoClientBound DEF TicksRestart, Restart, MissingBound
<1>5. CASE UNCHANGED ClientInfos
  BY <1>5 DEF MissingBound
<1>6. ASSUME NEW h \in Hosts,
             \/ HostReceive(h) \/ HostStart(h) \/ CbTPTicksUp(h) \/ HostTock(h)
             \/ HostCrash(h) \/ SentToNobody(h)
      PROVE  UNCHANGED ClientInfos
  BY <1>6
     DEF HostReceive, CbSyncFromMaster, CbTPTicksDown, MasterTickUpdate,
         MasterTickAssertFails, HostEnds, HostStart, CbTPTicksUp, HostTock,
         SendMasterTock, HostCrash, SentToNobody, LoseSent, ticksVars
<1>7. TicksUpdate \/ TicksStop \/ UNCHANGED vars => UNCHANGED ClientInfos
  BY DEF TicksUpdate, Update, TicksStop, Stop, vars, ticksVars
<1> QED BY <1>1, <1>3, <1>4, <1>5, <1>6, <1>7 DEF Next, TicksAlive

LEMMA InitBound == Init => MissingBound
BY NoClientBound DEF Init, Start, MissingBound

\* TICKS freezes for a client as soon as it owes more TOCKs than its Threshold,
\* and the next client with the id of one that has left starts with no debt.
THEOREM MissingBounded == Spec => []MissingBound
<1>1. Init => TypeOK /\ MissingBound
  BY InitType, InitBound
<1>2. TypeOK /\ MissingBound /\ [Next]_vars => (TypeOK /\ MissingBound)'
  BY NextType, NextBound
<1> QED BY <1>1, <1>2, PTL DEF Spec

--------------------------------------------------------------------------------
\* The arithmetic of the cycles: quotient and remainder are unique, and a
\* remainder may be taken before an addition or after it.
LEMMA DivMod ==
  ASSUME NEW a \in Int
  PROVE  /\ a = CycleMod * (a \div CycleMod) + (a % CycleMod)
         /\ a \div CycleMod \in Int
         /\ a % CycleMod \in 0 .. CycleMod - 1
<1>0. CycleMod \in Nat /\ CycleMod > 0
  BY CycleModAssumption
<1>1. a \div CycleMod \in Int
  BY <1>0
<1>2. a % CycleMod \in 0 .. CycleMod - 1
  BY <1>0
<1>3. a = CycleMod * (a \div CycleMod) + (a % CycleMod)
  BY <1>0
<1> QED BY <1>1, <1>2, <1>3

LEMMA SmallerQuotient ==
  ASSUME NEW q \in Int, NEW s \in Int, q < s
  PROVE  CycleMod * q + CycleMod <= CycleMod * s
<1>0. CycleMod \in Nat
  BY CycleModAssumption
<1>1. PICK d \in Nat : s = q + 1 + d
  <2>1. s - q - 1 \in Nat /\ s = q + 1 + (s - q - 1)
    OBVIOUS
  <2> QED BY <2>1
<1>2. CycleMod * s = CycleMod * q + CycleMod + CycleMod * d
  BY <1>0, <1>1
<1>3. CycleMod * d \in Nat /\ CycleMod * q \in Int
  BY <1>0
<1> QED BY <1>0, <1>2, <1>3

LEMMA UniqueRemainder ==
  ASSUME NEW q \in Int, NEW s \in Int,
         NEW r \in 0 .. CycleMod - 1, NEW t \in 0 .. CycleMod - 1,
         CycleMod * q + r = CycleMod * s + t
  PROVE  r = t
<1>0. CycleMod \in Nat /\ CycleMod * q \in Int /\ CycleMod * s \in Int
  BY CycleModAssumption
<1>1. CASE q < s
  <2>1. CycleMod * q + CycleMod <= CycleMod * s
    BY <1>1, SmallerQuotient
  <2> QED BY <1>0, <2>1
<1>2. CASE s < q
  <2>1. CycleMod * s + CycleMod <= CycleMod * q
    BY <1>2, SmallerQuotient
  <2> QED BY <1>0, <2>1
<1>3. CASE q = s
  BY <1>0, <1>3
<1> QED BY <1>1, <1>2, <1>3

LEMMA AddMod ==
  ASSUME NEW a \in Int, NEW b \in Int
  PROVE  ((a % CycleMod) + b) % CycleMod = (a + b) % CycleMod
<1>0. ASSUME NEW x \in Int
      PROVE  \E q \in Int, r \in 0 .. CycleMod - 1 :
               x = CycleMod * q + r /\ r = x % CycleMod
  <2>1. /\ x \div CycleMod \in Int /\ x % CycleMod \in 0 .. CycleMod - 1
        /\ x = CycleMod * (x \div CycleMod) + (x % CycleMod)
    BY DivMod
  <2> QED BY <2>1, Zenon
<1>1. PICK q \in Int, r \in 0 .. CycleMod - 1 : a = CycleMod * q + r /\ r = a % CycleMod
  BY <1>0
<1>2. PICK s \in Int, t \in 0 .. CycleMod - 1 :
        r + b = CycleMod * s + t /\ t = (r + b) % CycleMod
  <2>1. r + b \in Int
    BY CycleModAssumption
  <2> QED BY <1>0, <2>1
<1>3. PICK u \in Int, v \in 0 .. CycleMod - 1 :
        a + b = CycleMod * u + v /\ v = (a + b) % CycleMod
  <2>1. a + b \in Int
    OBVIOUS
  <2> QED BY <1>0, <2>1
<1>4. CycleMod * (q + s) + t = CycleMod * u + v
  <2>1. CycleMod * (q + s) = CycleMod * q + CycleMod * s
    BY CycleModAssumption
  <2>2. CycleMod * q \in Int /\ CycleMod * s \in Int /\ CycleMod * u \in Int
    BY CycleModAssumption
  <2> QED BY <1>1, <1>2, <1>3, <2>1, <2>2
<1>5. t = v
  BY <1>4, UniqueRemainder
<1> QED BY <1>1, <1>2, <1>3, <1>5

--------------------------------------------------------------------------------
(* The link of a host, and what its two queues can hold.  It is open (Open),   *)
(* and then the queues hold what the protocol says and nothing of an earlier   *)
(* connection; or TICKS has ended, which the host still has to read (Ending);  *)
(* or there is none (Apart), and TICKS may still have to read that the host    *)
(* has ended.  This is the invariant that makes CycleAgreement inductive.      *)
\* Queues: of nothing but one message, of one connection and its end, and of
\* none that ends.
AllOf(q, first, msg) == \A i \in first .. Len(q) : q[i] = msg
EndsDown(q) ==
  /\ q # <<>> /\ q[Len(q)] = Down
  /\ \A i \in 1 .. Len(q) - 1 : q[i] # Down
IsOpen(p) == \A i \in DOMAIN p : p[i] # Down

\* To a host that has a cycle only ticks are on the way; to one that has not,
\* its cycle and the ticks since.  Both lead to the cycle of TICKS.
Played(hc, p, gc) == AllOf(p, 1, Tick) /\ (hc + Len(p)) % CycleMod = gc
Joining(p, gc) ==
  /\ p # <<>> /\ p[1].type = "REGISTERED" /\ AllOf(p, 2, Tick)
  /\ (p[1].cycle + (Len(p) - 1)) % CycleMod = gc
\* The REGISTER of the host is on its way, and TOCKs TICKS does not expect.
Asking(p, q) ==
  /\ p = <<>> /\ q # <<>> /\ q[1].type = "REGISTER" /\ AllOf(q, 2, Tock)

\* The states of a link.
Registering(h) ==
  ~ClientInfos[h].Registered /\ h \notin synced /\ Asking(toHost[h], toTicks[h])
Serving(h) ==
  /\ ClientInfos[h].Registered /\ AllOf(toTicks[h], 1, Tock)
  /\ h \in synced => Played(hostCycle[h], toHost[h], GameCycle)
  /\ h \notin synced => Joining(toHost[h], GameCycle)
Open(h) ==
  h \in linked /\ hostState[h] # "Down" /\ ticksUp /\ (Registering(h) \/ Serving(h))
Ending(h) ==
  /\ h \in linked /\ hostState[h] # "Down" /\ toTicks[h] = <<>> /\ EndsDown(toHost[h])
  /\ ticksUp => ~ClientInfos[h].Registered
Apart(h) ==
  /\ h \notin linked /\ h \notin synced
  /\ \/ /\ toTicks[h] = <<>> /\ (hostState[h] # "Down" => toHost[h] = <<>>)
        /\ ticksUp => ~ClientInfos[h].Registered
     \/ hostState[h] = "Down" /\ ticksUp /\ EndsDown(toTicks[h])
Link(h) == Open(h) \/ Ending(h) \/ Apart(h)

\* A queue is empty when its length is 0.
LEMMA EmptyQueue ==
  ASSUME NEW q \in Seq(Messages)
  PROVE  (q = <<>>) <=> (Len(q) = 0)
OBVIOUS

\* What sending and reading do to a queue.
LEMMA Appended ==
  ASSUME NEW q \in Seq(Messages), NEW m \in Messages, NEW n \in Nat \ {0}
  PROVE /\ Append(q, m) \in Seq(Messages) /\ Append(q, m) # <<>>
        /\ Len(Append(q, m)) = Len(q) + 1
        /\ AllOf(q, n, m) => AllOf(Append(q, m), n, m)
        /\ q # <<>> => Append(q, m)[1] = q[1]
        /\ Append(q, m)[Len(q) + 1] = m
        /\ \A i \in 1 .. Len(q) : Append(q, m)[i] = q[i]
<1> DEFINE r == Append(q, m)
<1>1. r \in Seq(Messages) /\ Len(r) = Len(q) + 1 /\ r[Len(q) + 1] = m /\ Len(q) \in Nat
  OBVIOUS
<1>2. \A i \in 1 .. Len(q) : r[i] = q[i]
  OBVIOUS
<1> HIDE DEF r
<1>3. r # <<>>
  BY <1>1, EmptyQueue
<1>4. AllOf(q, n, m) => AllOf(r, n, m)
  BY <1>1, <1>2 DEF AllOf
<1>5. q # <<>> => r[1] = q[1]
  <2>1. q # <<>> => 1 \in 1 .. Len(q)
    BY EmptyQueue, <1>1
  <2> QED BY <1>2, <2>1
<1> QED BY <1>1, <1>2, <1>3, <1>4, <1>5 DEF r

LEMMA Taken ==
  ASSUME NEW q \in Seq(Messages), q # <<>>, NEW m \in Messages
  PROVE /\ Tail(q) \in Seq(Messages) /\ Len(Tail(q)) = Len(q) - 1 /\ Len(q) \in Nat /\ Len(q) >= 1
        /\ AllOf(q, 2, m) => AllOf(Tail(q), 1, m)
        /\ AllOf(q, 1, m) => AllOf(Tail(q), 1, m)
        /\ Head(q) = q[1]
        /\ EndsDown(q) /\ Head(q) # Down => EndsDown(Tail(q))
        /\ EndsDown(q) /\ Head(q) = Down => Tail(q) = <<>>
<1> DEFINE t == Tail(q)
<1>1. t \in Seq(Messages) /\ Len(t) = Len(q) - 1 /\ Len(q) \in Nat /\ Len(q) >= 1 /\ Head(q) = q[1]
  OBVIOUS
<1>2. \A i \in 1 .. Len(q) - 1 : t[i] = q[i + 1]
  OBVIOUS
<1> HIDE DEF t
<1>3. AllOf(q, 2, m) => AllOf(t, 1, m)
  BY <1>1, <1>2 DEF AllOf
<1>4. AllOf(q, 1, m) => AllOf(t, 1, m)
  BY <1>1, <1>2 DEF AllOf
<1>5. EndsDown(q) /\ Head(q) # Down => EndsDown(t)
  <2> SUFFICES ASSUME EndsDown(q), q[1] # Down PROVE EndsDown(t)
    BY <1>1
  <2>1. Len(q) > 1
    BY <1>1 DEF EndsDown
  <2>2. t[Len(q) - 1] = q[Len(q)]
    BY <1>1, <1>2, <2>1
  <2>3. \A i \in 1 .. Len(q) - 2 : t[i] # Down
    BY <1>1, <1>2 DEF EndsDown
  <2>4. t # <<>>
    BY <1>1, <2>1, EmptyQueue
  <2>5. Len(t) - 1 = Len(q) - 2
    BY <1>1
  <2> QED BY <1>1, <2>2, <2>3, <2>4, <2>5 DEF EndsDown
<1>6. EndsDown(q) /\ Head(q) = Down => t = <<>>
  <2> SUFFICES ASSUME EndsDown(q), q[1] = Down PROVE t = <<>>
    BY <1>1
  <2>1. Len(q) = 1
    BY <1>1 DEF EndsDown
  <2> QED BY <1>1, <2>1, EmptyQueue
<1> QED BY <1>1, <1>3, <1>4, <1>5, <1>6 DEF t

\* When a process ends, its peer reads some of what is on the way and the end.
LEMMA Cut ==
  ASSUME NEW q \in Seq(Messages), NEW k \in 0 .. Len(q), IsOpen(q)
  PROVE  EndsDown(Append(SubSeq(q, 1, k), Down))
<1> DEFINE s == SubSeq(q, 1, k)
<1>1. s \in Seq(Messages) /\ Len(s) = k /\ \A i \in 1 .. k : s[i] = q[i]
  OBVIOUS
<1>2. Down \in Messages
  BY DEF Messages
<1> HIDE DEF s
<1>3. Append(s, Down) # <<>> /\ Len(Append(s, Down)) = k + 1 /\ Append(s, Down)[k + 1] = Down
      /\ \A i \in 1 .. k : Append(s, Down)[i] = s[i]
  BY <1>1, <1>2
<1>4. \A i \in 1 .. (k + 1) - 1 : Append(s, Down)[i] # Down
  BY <1>1, <1>3 DEF IsOpen
<1> QED BY <1>3, <1>4 DEF EndsDown, s

\* The messages differ.
LEMMA Kinds ==
  /\ Tick \in Messages /\ Tock \in Messages /\ Down \in Messages
  /\ Tick.type = "TICK" /\ Tock.type = "TOCK" /\ Down.type = "DOWN"
  /\ Tick # Down /\ Tock # Down
  /\ \A c : Registered(c).type = "REGISTERED" /\ Registered(c).cycle = c
  /\ \A t, n : Register(t, n).type = "REGISTER"
  /\ \A m \in Messages : m.type = "DOWN" => m = Down
BY DEF Messages, Tick, Tock, Down, Registered, Register

\* The next cycle, and the cycles as numbers.
LEMMA NextCycle ==
  ASSUME NEW x \in Int, NEW gc \in Cycles, x % CycleMod = gc
  PROVE  (x + 1) % CycleMod = (gc + 1) % CycleMod
BY AddMod

LEMMA CyclesAreInt == Cycles \subseteq Int /\ \A c \in Cycles : c % CycleMod = c
<1>1. CycleMod \in Nat /\ CycleMod > 0
  BY CycleModAssumption
<1> QED BY <1>1 DEF Cycles



\* What each queue becomes, and what cannot be at its head.
LEMMA TickAppended ==
  ASSUME NEW gc \in Cycles, NEW hc \in Cycles, NEW p \in Seq(Messages)
  PROVE  /\ Played(hc, p, gc) => Played(hc, Append(p, Tick), (gc + 1) % CycleMod)
         /\ Joining(p, gc) => Joining(Append(p, Tick), (gc + 1) % CycleMod)
<1> DEFINE r == Append(p, Tick)
           g == (gc + 1) % CycleMod
<1>1. /\ Len(r) = Len(p) + 1 /\ r # <<>> /\ Len(p) \in Nat
      /\ AllOf(p, 1, Tick) => AllOf(r, 1, Tick)
      /\ AllOf(p, 2, Tick) => AllOf(r, 2, Tick)
      /\ p # <<>> => r[1] = p[1]
  BY Appended, Kinds
<1> HIDE DEF r
<1>2. ASSUME Played(hc, p, gc) PROVE Played(hc, r, g)
  <2>1. hc + Len(p) \in Int /\ hc + Len(r) = (hc + Len(p)) + 1
    BY <1>1, CyclesAreInt
  <2>2. (hc + Len(r)) % CycleMod = g
    BY <1>2, <2>1, NextCycle DEF Played
  <2> HIDE DEF g
  <2> QED BY <1>1, <1>2, <2>2 DEF Played
<1>3. ASSUME Joining(p, gc) PROVE Joining(r, g)
  <2>0. p # <<>> /\ p[1].type = "REGISTERED"
    BY <1>3 DEF Joining
  <2>1. p[1] \in Messages
    BY <2>0, <1>1, EmptyQueue
  <2>2. p[1].cycle \in Int
    BY <2>0, <2>1, MessageFields, CyclesAreInt
  <2>3. p[1].cycle + (Len(p) - 1) \in Int
        /\ p[1].cycle + (Len(r) - 1) = (p[1].cycle + (Len(p) - 1)) + 1
    BY <1>1, <2>2
  <2>4. (p[1].cycle + (Len(p) - 1)) % CycleMod = gc
    BY <1>3 DEF Joining
  <2>5. (p[1].cycle + (Len(r) - 1)) % CycleMod = g
    BY <2>3, <2>4, NextCycle
  <2> HIDE DEF g
  <2> QED BY <1>1, <1>3, <2>0, <2>5 DEF Joining
<1> QED BY <1>2, <1>3 DEF r, g

\* Reading REGISTERED: the host has its cycle, and the ticks since are to come.
LEMMA RegisteredTaken ==
  ASSUME NEW gc \in Cycles, NEW hc \in Cycles, NEW p \in Seq(Messages),
         p # <<>>, Head(p).type = "REGISTERED"
  PROVE  /\ ~Played(hc, p, gc)
         /\ Joining(p, gc) => Played(Head(p).cycle, Tail(p), gc)
         /\ EndsDown(p) => EndsDown(Tail(p))
<1> DEFINE t == Tail(p)
           c == Head(p).cycle
<1>0. Head(p) # Down /\ Head(p) # Tick
  BY Kinds
<1>1. /\ Head(p) = p[1] /\ Len(t) = Len(p) - 1
      /\ AllOf(p, 2, Tick) => AllOf(t, 1, Tick)
      /\ EndsDown(p) => EndsDown(t)
  BY <1>0, Taken, Kinds
<1>2. 1 \in 1 .. Len(p)
  BY EmptyQueue
<1>3. ~Played(hc, p, gc)
  BY <1>0, <1>1, <1>2 DEF Played, AllOf
<1> HIDE DEF t
<1>4. Joining(p, gc) => Played(c, t, gc)
  BY <1>1 DEF Joining, Played
<1> QED BY <1>1, <1>3, <1>4 DEF t

\* Reading a TICK, which no host reads before it has its cycle.
LEMMA TickTaken ==
  ASSUME NEW gc \in Cycles, NEW hc \in Cycles, NEW p \in Seq(Messages),
         p # <<>>, Head(p).type = "TICK"
  PROVE  /\ ~Joining(p, gc)
         /\ Played(hc, p, gc) => Played((hc + 1) % CycleMod, Tail(p), gc)
         /\ EndsDown(p) => EndsDown(Tail(p))
<1> DEFINE t == Tail(p)
           c == (hc + 1) % CycleMod
<1>0. Head(p) # Down
  BY Kinds
<1>1. /\ Head(p) = p[1] /\ Len(t) = Len(p) - 1 /\ Len(t) \in Nat
      /\ AllOf(p, 1, Tick) => AllOf(t, 1, Tick)
      /\ EndsDown(p) => EndsDown(t)
  BY <1>0, Taken, Kinds
<1> HIDE DEF t
<1>2. ~Joining(p, gc)
  BY <1>1 DEF Joining
<1>3. ASSUME Played(hc, p, gc) PROVE Played(c, t, gc)
  <2>2. AllOf(t, 1, Tick) /\ (hc + Len(p)) % CycleMod = gc
    BY <1>1, <1>3 DEF Played
  <2>3. (c + Len(t)) % CycleMod = ((hc + 1) + Len(t)) % CycleMod
    BY <1>1, AddMod, CyclesAreInt
  <2>4. (hc + 1) + Len(t) = hc + Len(p)
    BY <1>1, CyclesAreInt
  <2> HIDE DEF c
  <2> QED BY <2>2, <2>3, <2>4 DEF Played
<1> QED BY <1>1, <1>2, <1>3 DEF t

\* Reading a REGISTER, and a TOCK, at TICKS.
LEMMA RegisterTaken ==
  ASSUME NEW p \in Seq(Messages), NEW q \in Seq(Messages), q # <<>>, Head(q).type = "REGISTER"
  PROVE  /\ ~AllOf(q, 1, Tock)
         /\ Asking(p, q) => AllOf(Tail(q), 1, Tock)
         /\ EndsDown(q) => EndsDown(Tail(q))
<1>0. Head(q) # Down /\ Head(q) # Tock
  BY Kinds
<1>1. /\ Head(q) = q[1] /\ 1 \in 1 .. Len(q)
      /\ AllOf(q, 2, Tock) => AllOf(Tail(q), 1, Tock)
      /\ EndsDown(q) => EndsDown(Tail(q))
  BY <1>0, Taken, Kinds, EmptyQueue
<1>2. ~AllOf(q, 1, Tock)
  BY <1>0, <1>1 DEF AllOf
<1> QED BY <1>1, <1>2 DEF Asking

LEMMA TockTaken ==
  ASSUME NEW p \in Seq(Messages), NEW q \in Seq(Messages), q # <<>>, Head(q).type = "TOCK"
  PROVE  /\ ~Asking(p, q)
         /\ AllOf(q, 1, Tock) => AllOf(Tail(q), 1, Tock)
         /\ EndsDown(q) => EndsDown(Tail(q))
<1>0. Head(q) # Down
  BY Kinds
<1>1. /\ Head(q) = q[1]
      /\ AllOf(q, 1, Tock) => AllOf(Tail(q), 1, Tock)
      /\ EndsDown(q) => EndsDown(Tail(q))
  BY <1>0, Taken, Kinds
<1>2. ~Asking(p, q)
  BY <1>1 DEF Asking
<1> QED BY <1>1, <1>2

\* Reading the end of a connection.
LEMMA DownTaken ==
  ASSUME NEW q \in Seq(Messages), q # <<>>, Head(q).type = "DOWN"
  PROVE  /\ ~IsOpen(q)
         /\ EndsDown(q) => Tail(q) = <<>>
<1>1. Head(q) = q[1] /\ 1 \in DOMAIN q /\ q[1] \in Messages
  BY EmptyQueue
<1>2. Head(q) = Down
  BY <1>1, Kinds
<1>3. EndsDown(q) => Tail(q) = <<>>
  BY <1>2, Taken, Kinds
<1> QED BY <1>1, <1>2, <1>3 DEF IsOpen

\* The queues of an open connection hold no end of a connection.
LEMMA OpenQueues ==
  ASSUME NEW p \in Seq(Messages), NEW q \in Seq(Messages), NEW gc, NEW hc
  PROVE  /\ Asking(p, q) => IsOpen(p) /\ IsOpen(q)
         /\ AllOf(q, 1, Tock) => IsOpen(q)
         /\ Played(hc, p, gc) => IsOpen(p)
         /\ Joining(p, gc) => IsOpen(p)
         /\ EndsDown(p) => ~IsOpen(p)
<1>0. DOMAIN p = 1 .. Len(p) /\ DOMAIN q = 1 .. Len(q) /\ Len(p) \in Nat
  OBVIOUS
<1>1. ASSUME Asking(p, q) PROVE IsOpen(p) /\ IsOpen(q)
  <2>1. q[1] # Down
    BY <1>1, Kinds DEF Asking
  <2>2. \A i \in 2 .. Len(q) : q[i] # Down
    BY <1>1, Kinds DEF Asking, AllOf
  <2>3. Len(p) = 0
    BY <1>1 DEF Asking
  <2> QED BY <1>0, <2>1, <2>2, <2>3 DEF IsOpen
<1>2. AllOf(q, 1, Tock) => IsOpen(q)
  BY <1>0, Kinds DEF AllOf, IsOpen
<1>3. Played(hc, p, gc) => IsOpen(p)
  BY <1>0, Kinds DEF Played, AllOf, IsOpen
<1>4. ASSUME Joining(p, gc) PROVE IsOpen(p)
  <2>1. p[1] # Down
    BY <1>4, Kinds DEF Joining
  <2>2. \A i \in 2 .. Len(p) : p[i] # Down
    BY <1>4, Kinds DEF Joining, AllOf
  <2> QED BY <1>0, <2>1, <2>2 DEF IsOpen
<1>5. EndsDown(p) => ~IsOpen(p)
  <2>2. p # <<>> => Len(p) \in DOMAIN p
    BY <1>0, EmptyQueue
  <2> QED BY <2>2 DEF EndsDown, IsOpen
<1> QED BY <1>1, <1>2, <1>3, <1>4, <1>5

LEMMA TockAppended ==
  ASSUME NEW p \in Seq(Messages), NEW q \in Seq(Messages)
  PROVE  /\ Asking(p, q) => Asking(p, Append(q, Tock))
         /\ AllOf(q, 1, Tock) => AllOf(Append(q, Tock), 1, Tock)
<1> DEFINE r == Append(q, Tock)
<1>1. /\ r # <<>> /\ (q # <<>> => r[1] = q[1])
      /\ AllOf(q, 1, Tock) => AllOf(r, 1, Tock)
      /\ AllOf(q, 2, Tock) => AllOf(r, 2, Tock)
  BY Appended, Kinds
<1> HIDE DEF r
<1>2. Asking(p, q) => Asking(p, r)
  BY <1>1 DEF Asking
<1> QED BY <1>1, <1>2 DEF r

\* The first message of each side of a connection.
LEMMA FirstMessages ==
  ASSUME NEW gc \in Cycles, NEW m \in Messages, m.type = "REGISTER"
  PROVE  /\ Joining(Append(<<>>, Registered(gc)), gc)
         /\ Asking(<<>>, Append(<<>>, m))
<1> DEFINE r == Append(<<>>, Registered(gc))
           s == Append(<<>>, m)
<1>1. r # <<>> /\ r[1] = Registered(gc) /\ Len(r) = 1
  OBVIOUS
<1>2. s # <<>> /\ s[1] = m /\ Len(s) = 1
  OBVIOUS
<1>3. r[1].type = "REGISTERED" /\ r[1].cycle = gc /\ s[1].type = "REGISTER"
  BY <1>1, <1>2, Kinds
<1>4. (gc + (1 - 1)) % CycleMod = gc
  BY CyclesAreInt
<1> HIDE DEF r, s
<1>5. Joining(r, gc)
  BY <1>1, <1>3, <1>4 DEF Joining, AllOf
<1>6. Asking(<<>>, s)
  BY <1>2, <1>3 DEF Asking, AllOf
<1> QED BY <1>5, <1>6 DEF r, s

--------------------------------------------------------------------------------
\* The steps of the host and of TICKS, each on the link it is about.
LinkTypes(h) ==
  /\ GameCycle \in Cycles /\ hostCycle[h] \in Cycles
  /\ toHost[h] \in Seq(Messages) /\ toTicks[h] \in Seq(Messages)
LEMMA LinkTyped == ASSUME TypeOK, NEW h \in Hosts PROVE LinkTypes(h)
BY DEF TypeOK, LinkTypes

\* What the link of a host depends on.
LinkView(h) ==
  <<ticksUp, GameCycle, ClientInfos[h].Registered, h \in linked, h \in synced,
    hostState[h], hostCycle[h], toHost[h], toTicks[h]>>

LEMMA SameLink ==
  ASSUME NEW h, Link(h), UNCHANGED LinkView(h)
  PROVE  Link(h)'
BY DEF LinkView, Link, Open, Ending, Apart, Registering, Serving

\* The host has its cycle.
LEMMA SyncLink ==
  ASSUME TypeOK, NEW h \in Hosts, Link(h), CbSyncFromMaster(h)
  PROVE  Link(h)'
<1> DEFINE p == toHost[h]
<1>0. LinkTypes(h)
  BY LinkTyped
<1>1. p # <<>> /\ Head(p).type = "REGISTERED" /\ hostState[h] # "Down"
  BY DEF CbSyncFromMaster, HostHas
<1>2. /\ \A gc \in Cycles, hc \in Cycles : ~Played(hc, p, gc)
      /\ Joining(p, GameCycle) => Played(Head(p).cycle, Tail(p), GameCycle)
      /\ EndsDown(p) => EndsDown(Tail(p))
  BY <1>0, <1>1, RegisteredTaken DEF LinkTypes
<1>3. /\ toHost'[h] = Tail(p) /\ hostCycle'[h] = Head(p).cycle /\ h \in synced'
      /\ UNCHANGED <<ticksUp, GameCycle, ClientInfos, linked, hostState, toTicks>>
  BY DEF CbSyncFromMaster, HostConsume, TypeOK
<1>4. CASE Open(h)
  <2>1. Serving(h)
    BY <1>1, <1>4 DEF Open, Registering, Asking
  <2>2. h \notin synced
    BY <1>0, <1>2, <2>1 DEF Serving, LinkTypes
  <2>3. Serving(h)'
    BY <1>2, <1>3, <2>1, <2>2 DEF Serving
  <2>4. Open(h)'
    BY <1>3, <1>4, <2>3 DEF Open
  <2> QED BY <2>4 DEF Link
<1>5. CASE Ending(h)
  <2>1. Ending(h)'
    BY <1>2, <1>3, <1>5 DEF Ending
  <2> QED BY <2>1 DEF Link
<1>6. ~Apart(h)
  BY <1>1 DEF Apart
<1> QED BY <1>4, <1>5, <1>6 DEF Link

\* The host reads that TICKS has ended.
LEMMA DownLink ==
  ASSUME TypeOK, NEW h \in Hosts, Link(h), CbTPTicksDown(h)
  PROVE  Link(h)'
<1> DEFINE p == toHost[h]
<1>0. LinkTypes(h)
  BY LinkTyped
<1>1. p # <<>> /\ Head(p).type = "DOWN" /\ hostState[h] # "Down"
  BY DEF CbTPTicksDown, HostHas
<1>2. ~IsOpen(p) /\ (EndsDown(p) => Tail(p) = <<>>)
  BY <1>0, <1>1, DownTaken DEF LinkTypes
<1>3. /\ toHost'[h] = Tail(p) /\ h \notin synced' /\ h \notin linked'
      /\ UNCHANGED <<ticksUp, ClientInfos, hostState, toTicks>>
  BY DEF CbTPTicksDown, HostConsume, TypeOK
<1>4. ~Open(h)
  <2>1. ~Registering(h) /\ ~Serving(h)
    BY <1>0, <1>2, OpenQueues DEF LinkTypes, Registering, Serving
  <2> QED BY <2>1 DEF Open
<1>5. CASE Ending(h)
  <2>1. Apart(h)'
    BY <1>2, <1>3, <1>5 DEF Ending, Apart
  <2> QED BY <2>1 DEF Link
<1>6. ~Apart(h)
  BY <1>1 DEF Apart
<1> QED BY <1>4, <1>5, <1>6 DEF Link

\* The host starts a tick.
LEMMA PlayLink ==
  ASSUME TypeOK, NEW h \in Hosts, Link(h), MasterTickUpdate(h)
  PROVE  Link(h)'
<1> DEFINE p == toHost[h]
<1>0. LinkTypes(h)
  BY LinkTyped
<1>1. p # <<>> /\ Head(p).type = "TICK" /\ hostState[h] # "Down"
  BY DEF MasterTickUpdate, HostHas
<1>2. /\ ~Joining(p, GameCycle)
      /\ Played(hostCycle[h], p, GameCycle)
           => Played((hostCycle[h] + 1) % CycleMod, Tail(p), GameCycle)
      /\ EndsDown(p) => EndsDown(Tail(p))
  BY <1>0, <1>1, TickTaken DEF LinkTypes
<1>3. /\ toHost'[h] = Tail(p) /\ hostCycle'[h] = (hostCycle[h] + 1) % CycleMod
      /\ hostState'[h] # "Down"
      /\ UNCHANGED <<ticksUp, GameCycle, ClientInfos, linked, synced, toTicks>>
  BY DEF MasterTickUpdate, HostConsume, TypeOK
<1>4. CASE Open(h)
  <2>1. Serving(h)
    BY <1>1, <1>4 DEF Open, Registering, Asking
  <2>2. Serving(h)'
    BY <1>2, <1>3, <2>1 DEF Serving
  <2>4. Open(h)'
    BY <1>3, <1>4, <2>2 DEF Open
  <2> QED BY <2>4 DEF Link
<1>5. CASE Ending(h)
  <2>1. Ending(h)'
    BY <1>2, <1>3, <1>5 DEF Ending
  <2> QED BY <2>1 DEF Link
<1>6. ~Apart(h)
  BY <1>1 DEF Apart
<1> QED BY <1>4, <1>5, <1>6 DEF Link

\* Connected is what Open says, and an open link has no end in its queues.
LEMMA ConnectedLink ==
  ASSUME TypeOK, NEW h \in Hosts, Link(h)
  PROVE  /\ Connected(h) <=> Open(h)
         /\ Open(h) => IsOpen(toHost[h]) /\ IsOpen(toTicks[h])
<1>0. LinkTypes(h)
  BY LinkTyped
<1>1. Open(h) => IsOpen(toHost[h]) /\ IsOpen(toTicks[h])
  BY <1>0, OpenQueues DEF LinkTypes, Open, Registering, Serving
<1>2. Connected(h) <=> h \in linked /\ IsOpen(toHost[h])
  BY DEF Connected, IsOpen
<1>3. Ending(h) => ~IsOpen(toHost[h])
  BY <1>0, OpenQueues DEF LinkTypes, Ending
<1>4. Apart(h) => h \notin linked
  BY DEF Apart
<1>5. Open(h) => h \in linked
  BY DEF Open
<1> QED BY <1>1, <1>2, <1>3, <1>4, <1>5 DEF Link

\* The host ends: TICKS has the end to read if the link was open.
LEMMA EndsLink ==
  ASSUME TypeOK, NEW h \in Hosts, Link(h), hostState[h] # "Down",
         NEW k \in 0 .. Len(toTicks[h]), HostEnds(h, k)
  PROVE  Link(h)'
<1> DEFINE q == toTicks[h]
           r == Append(SubSeq(q, 1, k), Down)
<1>0. LinkTypes(h)
  BY LinkTyped
<1>1. /\ hostState'[h] = "Down" /\ h \notin linked' /\ h \notin synced'
      /\ toTicks'[h] = IF Connected(h) THEN r ELSE q
      /\ UNCHANGED <<ticksUp, ClientInfos>>
  BY DEF HostEnds, TypeOK
<1>2. CASE Open(h)
  <2>1. Connected(h) /\ IsOpen(q) /\ ticksUp
    BY <1>2, ConnectedLink DEF Open
  <2>2. EndsDown(r)
    BY <1>0, <2>1, Cut DEF LinkTypes
  <2>3. Apart(h)'
    BY <1>1, <2>1, <2>2 DEF Apart
  <2> QED BY <2>3 DEF Link
<1>3. CASE Ending(h) \/ Apart(h)
  <2>1. ~Connected(h) \/ Open(h)
    BY ConnectedLink
  <2>2. q = <<>> /\ (ticksUp => ~ClientInfos[h].Registered)
    BY <1>3 DEF Ending, Apart
  <2>3. ~Open(h) => Apart(h)'
    BY <1>1, <2>1, <2>2 DEF Apart
  <2> QED BY <1>2, <2>3 DEF Link
<1> QED BY <1>2, <1>3 DEF Link

\* The host sends its TOCK.
LEMMA TockLink ==
  ASSUME TypeOK, NEW h \in Hosts, Link(h), SendMasterTock(h)
  PROVE  Link(h)'
<1> DEFINE q == toTicks[h]
<1>0. LinkTypes(h)
  BY LinkTyped
<1>1. /\ hostState[h] # "Down" /\ hostState'[h] # "Down"
      /\ toTicks'[h] = IF Connected(h) THEN Append(q, Tock) ELSE q
      /\ UNCHANGED <<ticksUp, GameCycle, ClientInfos, toHost, hostCycle, linked, synced>>
  BY DEF SendMasterTock, TypeOK
<1>2. /\ Asking(toHost[h], q) => Asking(toHost[h], Append(q, Tock))
      /\ AllOf(q, 1, Tock) => AllOf(Append(q, Tock), 1, Tock)
  BY <1>0, TockAppended DEF LinkTypes
<1>3. CASE Open(h)
  <2>1. toTicks'[h] = Append(q, Tock)
    BY <1>1, <1>3, ConnectedLink
  <2>2. Registering(h) => Registering(h)'
    BY <1>1, <1>2, <2>1 DEF Registering
  <2>3. Serving(h) => Serving(h)'
    BY <1>1, <1>2, <2>1 DEF Serving
  <2>4. Open(h)'
    BY <1>1, <1>3, <2>2, <2>3 DEF Open
  <2> QED BY <2>4 DEF Link
<1>4. CASE ~Open(h)
  <2>1. toTicks'[h] = q
    BY <1>1, <1>4, ConnectedLink
  <2>2. (Ending(h) => Ending(h)') /\ (Apart(h) => Apart(h)')
    BY <1>1, <2>1 DEF Ending, Apart
  <2> QED BY <1>4, <2>2 DEF Link
<1> QED BY <1>3, <1>4

\* The host sees TICKS.
LEMMA UpLink ==
  ASSUME TypeOK, NEW h \in Hosts, Link(h), CbTPTicksUp(h)
  PROVE  Link(h)'
<1>1. PICK r \in Registrations :
        toTicks' = [toTicks EXCEPT ![h] = Append(@, Register(r.tocking, r.threshold))]
  BY DEF CbTPTicksUp
<1> DEFINE m == Register(r.tocking, r.threshold)
<1>2. m \in Messages /\ m.type = "REGISTER"
  BY Kinds DEF Messages
<1>3. /\ ticksUp /\ hostState[h] # "Down" /\ h \notin linked /\ h \in linked' /\ toHost[h] = <<>>
      /\ UNCHANGED <<ticksUp, ClientInfos, toHost, hostState, synced>>
  BY DEF CbTPTicksUp
<1>4. Apart(h) /\ toTicks[h] = <<>> /\ ~ClientInfos[h].Registered /\ h \notin synced
  BY <1>3 DEF Link, Open, Ending, Apart
<1>5. toTicks'[h] = Append(<<>>, m)
  BY <1>1, <1>4 DEF TypeOK
<1> HIDE DEF m
<1>6. Asking(<<>>, Append(<<>>, m))
  BY <1>2, FirstMessages, CycleModAssumption DEF TypeOK
<1>7. Registering(h)'
  BY <1>3, <1>4, <1>5, <1>6 DEF Registering
<1>8. Open(h)'
  BY <1>3, <1>7 DEF Open
<1> QED BY <1>8 DEF Link

\* A host that starts, and messages to one that has ended, are apart from TICKS.
LEMMA StartLink ==
  ASSUME TypeOK, NEW h \in Hosts, Link(h), HostStart(h) \/ SentToNobody(h)
  PROVE  Link(h)'
<1>1. Apart(h)
  BY DEF HostStart, SentToNobody, Link, Open, Ending
<1>2. Apart(h)'
  BY <1>1 DEF HostStart, SentToNobody, LoseSent, Apart, ticksVars, hostVars, TypeOK, EndsDown
<1> QED BY <1>2 DEF Link

\* TICKS ends: a host with an open link has the end to read.
LEMMA StopLink ==
  ASSUME TypeOK, NEW h \in Hosts, Link(h), TicksStop
  PROVE  Link(h)'
<1> DEFINE p == toHost[h]
<1>0. LinkTypes(h)
  BY LinkTyped
<1>1. PICK saves \in BOOLEAN, kept \in [Hosts -> 0 .. MaxQueue] :
        /\ \A k \in Hosts : kept[k] <= Len(toHost[k])
        /\ Stop(saves, {k \in Hosts : Connected(k)}, kept)
  BY DEF TicksStop
<1> DEFINE r == Append(SubSeq(p, 1, kept[h]), Down)
<1>2. /\ ~ticksUp' /\ toTicks'[h] = <<>>
      /\ toHost'[h] = IF Connected(h) THEN r ELSE p
      /\ UNCHANGED <<hostState, linked, synced>>
  BY <1>1 DEF TicksStop, Stop, hostVars
<1>3. CASE Open(h)
  <2>1. Connected(h) /\ IsOpen(p) /\ h \in linked /\ hostState[h] # "Down"
    BY <1>3, ConnectedLink DEF Open
  <2>2. kept[h] \in 0 .. Len(p)
    BY <1>1, MaxQueueAssumption
  <2>3. EndsDown(r)
    BY <1>0, <2>1, <2>2, Cut DEF LinkTypes
  <2>4. Ending(h)'
    BY <1>2, <2>1, <2>3 DEF Ending
  <2> QED BY <2>4 DEF Link
<1>4. CASE ~Open(h)
  <2>1. toHost'[h] = p
    BY <1>2, <1>4, ConnectedLink
  <2>2. (Ending(h) => Ending(h)') /\ (Apart(h) => Apart(h)')
    BY <1>2, <2>1 DEF Ending, Apart
  <2> QED BY <1>4, <2>2 DEF Link
<1> QED BY <1>3, <1>4

\* TICKS starts with empty slots and empty queues.
LEMMA RestartLink ==
  ASSUME TypeOK, NEW h \in Hosts, Link(h), TicksRestart
  PROVE  Link(h)'
<1>1. /\ ~ticksUp /\ ~ClientInfos'[h].Registered
      /\ UNCHANGED <<toHost, toTicks, hostState, linked, synced>>
  BY DEF TicksRestart, Restart, NoClient, hostVars
<1>2. (Ending(h) => Ending(h)') /\ (Apart(h) => Apart(h)') /\ ~Open(h)
  BY <1>1 DEF Ending, Apart, Open
<1> QED BY <1>2 DEF Link

\* What checkTockReceived() does: nothing, or a tick for every client, none of
\* which blocks it.
Ticked(infos, out) ==
  \/ ClientInfos' = infos /\ toHost' = out /\ UNCHANGED GameCycle
  \/ /\ GameCycle' = (GameCycle + 1) % CycleMod
     /\ \A k \in Hosts :
          /\ ~Blocks(infos[k])
          /\ ClientInfos'[k].Registered = infos[k].Registered
          /\ infos[k].Registered =>
               /\ ClientInfos'[k] = [infos[k] EXCEPT !.TockReceived = FALSE,
                                                     !.TockMissingCount = (@ + 1) % CountMod]
               /\ toHost'[k] = Append(out[k], Tick)
          /\ ~infos[k].Registered => ClientInfos'[k] = infos[k] /\ toHost'[k] = out[k]

LEMMA CheckTicks ==
  ASSUME NEW infos \in [Hosts -> CClientInfos], NEW mode, NEW paused, NEW out,
         CheckTockReceived(infos, mode, paused, out)
  PROVE  Ticked(infos, out)
<1>1. CASE ClientInfos' = infos /\ toHost' = out /\ UNCHANGED GameCycle
  BY <1>1 DEF Ticked
<1>2. CASE /\ \A k \in Hosts : ~Blocks(infos[k])
           /\ ~paused /\ BroadcastTick(infos, paused, out)
  <2>1. /\ GameCycle' = (GameCycle + 1) % CycleMod
        /\ ClientInfos' = [h \in Hosts |->
             IF infos[h].Registered
             THEN [infos[h] EXCEPT !.TockReceived = FALSE,
                                   !.TockMissingCount = (@ + 1) % CountMod]
             ELSE infos[h]]
        /\ toHost' = [h \in Hosts |-> IF infos[h].Registered
                                      THEN Append(out[h], Tick) ELSE out[h]]
    BY <1>2, Zenon DEF BroadcastTick
  <2> SUFFICES ASSUME NEW k \in Hosts
               PROVE  /\ ClientInfos'[k].Registered = infos[k].Registered
                      /\ infos[k].Registered =>
                           /\ ClientInfos'[k] = [infos[k] EXCEPT !.TockReceived = FALSE,
                                                     !.TockMissingCount = (@ + 1) % CountMod]
                           /\ toHost'[k] = Append(out[k], Tick)
                      /\ ~infos[k].Registered => ClientInfos'[k] = infos[k] /\ toHost'[k] = out[k]
    BY <1>2, <2>1, Zenon DEF Ticked
  <2>2. CASE infos[k].Registered
    <3>1. /\ ClientInfos'[k] = [infos[k] EXCEPT !.TockReceived = FALSE,
                                                !.TockMissingCount = (@ + 1) % CountMod]
          /\ toHost'[k] = Append(out[k], Tick)
      BY <2>1, <2>2, Zenon
    <3>2. infos[k] \in CClientInfos
      OBVIOUS
    <3>3. [infos[k] EXCEPT !.TockReceived = FALSE,
                           !.TockMissingCount = (@ + 1) % CountMod].Registered = infos[k].Registered
      BY <3>2 DEF CClientInfos
    <3> QED BY <2>2, <3>1, <3>3, Zenon
  <2>3. CASE ~infos[k].Registered
    BY <2>1, <2>3, Zenon
  <2> QED BY <2>2, <2>3, Zenon
<1>3. \/ ClientInfos' = infos /\ toHost' = out /\ UNCHANGED GameCycle
      \/ /\ ~\E k \in Hosts : Blocks(infos[k])
         /\ BroadcastTick(infos, paused, out)
  BY Zenon DEF CheckTockReceived
<1>4. BroadcastTick(infos, paused, out) =>
        (ClientInfos' = infos /\ toHost' = out /\ UNCHANGED GameCycle) \/ ~paused
  BY Zenon DEF BroadcastTick
<1> QED BY <1>1, <1>2, <1>3, <1>4, Zenon

\* A command ends with checkTockReceived(), or sends nothing.
LEMMA OperatorTicks ==
  ASSUME TypeOK, Operator
  PROVE  Ticked(ClientInfos, toHost) /\ ticksUp /\ UNCHANGED <<ticksUp, hostVars, toTicks>>
<1>1. /\ ticksUp /\ UNCHANGED <<ticksUp, hostVars, toTicks>>
  BY DEF Operator, HaltTick, ResumeTick, TogglePause, EnableSend
<1>2. ClientInfos \in [Hosts -> CClientInfos]
  BY DEF TypeOK
<1>3. \/ \E mode, paused : CheckTockReceived(ClientInfos, mode, paused, toHost)
      \/ UNCHANGED <<ClientInfos, toHost, GameCycle>>
  BY DEF Operator, HaltTick, ResumeTick, TogglePause, EnableSend
<1>4. CASE UNCHANGED <<ClientInfos, toHost, GameCycle>>
  BY <1>1, <1>4 DEF Ticked
<1>5. ASSUME NEW mode, NEW paused, CheckTockReceived(ClientInfos, mode, paused, toHost)
      PROVE  Ticked(ClientInfos, toHost)
  BY <1>2, <1>5, CheckTicks
<1> QED BY <1>1, <1>3, <1>4, <1>5

\* The link of h with the slot and the queues a handler of TICKS has made and
\* hands to checkTockReceived().
Handed(h, info, p, q) ==
  \/ /\ h \in linked /\ hostState[h] # "Down"
     /\ \/ ~info.Registered /\ h \notin synced /\ Asking(p, q)
        \/ /\ info.Registered /\ AllOf(q, 1, Tock)
           /\ h \in synced => Played(hostCycle[h], p, GameCycle)
           /\ h \notin synced => Joining(p, GameCycle)
        \/ q = <<>> /\ EndsDown(p) /\ ~info.Registered
  \/ /\ h \notin linked /\ h \notin synced
     /\ \/ q = <<>> /\ (hostState[h] # "Down" => p = <<>>) /\ ~info.Registered
        \/ hostState[h] = "Down" /\ EndsDown(q)

LEMMA LinkHanded ==
  ASSUME NEW h, ticksUp
  PROVE  Link(h) <=> Handed(h, ClientInfos[h], toHost[h], toTicks[h])
BY DEF Link, Open, Ending, Apart, Registering, Serving, Handed

LEMMA HandedLink ==
  ASSUME NEW h, ticksUp',
         Handed(h, ClientInfos[h], toHost[h], toTicks[h])'
  PROVE  Link(h)'
BY DEF Link, Open, Ending, Apart, Registering, Serving, Handed

\* A tick of TICKS keeps the link it is handed.
LEMMA TickLink ==
  ASSUME TypeOK, NEW h \in Hosts, NEW infos \in [Hosts -> CClientInfos],
         NEW out \in [Hosts -> Seq(Messages)],
         Ticked(infos, out), ticksUp, UNCHANGED <<ticksUp, hostVars>>,
         Handed(h, infos[h], out[h], toTicks'[h])
  PROVE  Link(h)'
<1>0. GameCycle \in Cycles /\ hostCycle[h] \in Cycles /\ out[h] \in Seq(Messages)
  BY DEF TypeOK
<1>1. CASE ClientInfos' = infos /\ toHost' = out /\ UNCHANGED GameCycle
  <2>1. Handed(h, ClientInfos[h], toHost[h], toTicks[h])'
    BY <1>1 DEF Handed, hostVars
  <2> QED BY <2>1, HandedLink
<1>2. CASE /\ GameCycle' = (GameCycle + 1) % CycleMod
           /\ ClientInfos'[h].Registered = infos[h].Registered
           /\ infos[h].Registered => toHost'[h] = Append(out[h], Tick)
           /\ ~infos[h].Registered => toHost'[h] = out[h]
  <2>1. /\ Played(hostCycle[h], out[h], GameCycle)
             => Played(hostCycle[h], Append(out[h], Tick), (GameCycle + 1) % CycleMod)
        /\ Joining(out[h], GameCycle)
             => Joining(Append(out[h], Tick), (GameCycle + 1) % CycleMod)
    BY <1>0, TickAppended
  <2>2. CASE infos[h].Registered
    <3>1. \/ /\ h \in linked /\ hostState[h] # "Down"
             /\ AllOf(toTicks'[h], 1, Tock)
             /\ h \in synced => Played(hostCycle[h], out[h], GameCycle)
             /\ h \notin synced => Joining(out[h], GameCycle)
          \/ h \notin linked /\ h \notin synced /\ hostState[h] = "Down" /\ EndsDown(toTicks'[h])
      BY <2>2 DEF Handed
    <3>2. Handed(h, ClientInfos[h], toHost[h], toTicks[h])'
      BY <1>2, <2>1, <2>2, <3>1 DEF Handed, hostVars
    <3> QED BY <3>2, HandedLink
  <2>3. CASE ~infos[h].Registered
    <3>1. Handed(h, ClientInfos[h], toHost[h], toTicks[h])'
      BY <1>2, <2>3 DEF Handed, hostVars
    <3> QED BY <3>1, HandedLink
  <2> QED BY <2>2, <2>3
<1> QED BY <1>1, <1>2 DEF Ticked

\* A message of h at TICKS, for the link of h and of every other host.
LEMMA ReceiveLink ==
  ASSUME TypeOK, \A k \in Hosts : Link(k), NEW h \in Hosts, TicksReceive(h), NEW k \in Hosts
  PROVE  Link(k)'
<1> DEFINE q == toTicks[h]
<1>0. /\ ClientInfos \in [Hosts -> CClientInfos] /\ toHost \in [Hosts -> Seq(Messages)]
      /\ toTicks \in [Hosts -> Seq(Messages)] /\ GameCycle \in Cycles
  BY DEF TypeOK
<1>1. /\ ticksUp /\ q # <<>> /\ Consume(h) /\ UNCHANGED <<ticksUp, hostVars>>
  BY DEF TicksReceive, CbRegister, CbTock, CbClientDisconnection, HasMessage
<1>2. /\ toTicks'[h] = Tail(q) /\ \A j \in Hosts \ {h} : toTicks'[j] = toTicks[j]
  BY <1>0, <1>1 DEF Consume
<1>3. Handed(h, ClientInfos[h], toHost[h], q) /\ q \in Seq(Messages)
  BY <1>0, <1>1, LinkHanded
<1>4. ASSUME NEW infos \in [Hosts -> CClientInfos], NEW out \in [Hosts -> Seq(Messages)],
             \A j \in Hosts \ {h} : infos[j] = ClientInfos[j] /\ out[j] = toHost[j],
             Handed(h, infos[h], out[h], Tail(q)), Ticked(infos, out)
      PROVE  Link(k)'
  <2>1. k # h => Handed(k, infos[k], out[k], toTicks'[k])
    BY <1>1, <1>2, <1>4, LinkHanded
  <2>2. Handed(k, infos[k], out[k], toTicks'[k])
    BY <1>2, <1>4, <2>1
  <2> QED BY <1>1, <1>4, <2>2, TickLink
<1>5. CASE CbRegister(h)
  <2> DEFINE msg == Head(q)
             infos == [ClientInfos EXCEPT ![h].Registered = TRUE,
                                          ![h].Tocking = msg.tocking,
                                          ![h].Threshold = msg.threshold]
             out == [toHost EXCEPT ![h] = Append(@, Registered(GameCycle))]
  <2>1. msg \in Messages /\ msg.type = "REGISTER"
    BY <1>3, <1>5 DEF CbRegister, HasMessage
  <2>2. infos \in [Hosts -> CClientInfos]
    <3>1. msg.tocking \in BOOLEAN /\ msg.threshold \in Counts
      BY <2>1, MessageFields
    <3> HIDE DEF msg
    <3> QED BY <1>0, <3>1, RegisteredSlots
  <2>3. infos[h].Registered /\ \A j \in Hosts \ {h} : infos[j] = ClientInfos[j]
    BY <1>0 DEF CClientInfos
  <2>4. /\ out[h] = Append(toHost[h], Registered(GameCycle))
        /\ out \in [Hosts -> Seq(Messages)]
        /\ \A j \in Hosts \ {h} : out[j] = toHost[j]
    <3>1. Registered(GameCycle) \in Messages
      BY <1>0 DEF Messages
    <3>2. Append(toHost[h], Registered(GameCycle)) \in Seq(Messages)
      BY <1>0, <3>1
    <3> QED BY <1>0, <3>2
  <2>5. Ticked(infos, out)
    <3>1. \/ CheckTockReceived(infos, CurrentMode, Pause, out)
          \/ ClientInfos' = infos /\ toHost' = out /\ UNCHANGED GameCycle
      BY <1>5 DEF CbRegister, RegisterClient
    <3> HIDE DEF infos, out
    <3>2. CASE CheckTockReceived(infos, CurrentMode, Pause, out)
      BY <2>2, <3>2, CheckTicks
    <3>3. CASE ClientInfos' = infos /\ toHost' = out /\ UNCHANGED GameCycle
      BY <3>3 DEF Ticked
    <3> QED BY <3>1, <3>2, <3>3
  <2> HIDE DEF infos, out
  <2>6. Handed(h, infos[h], out[h], Tail(q))
    <3>1. /\ ~AllOf(q, 1, Tock)
          /\ \A p \in Seq(Messages) : Asking(p, q) => AllOf(Tail(q), 1, Tock)
          /\ EndsDown(q) => EndsDown(Tail(q))
      BY <1>1, <1>3, <2>1, RegisterTaken
    <3>2. CASE h \in linked
      <4>1. /\ hostState[h] # "Down" /\ h \notin synced /\ Asking(toHost[h], q)
        BY <1>1, <1>3, <3>1, <3>2 DEF Handed
      <4>2. Joining(Append(<<>>, Registered(GameCycle)), GameCycle)
        BY <1>0, <2>1, FirstMessages
      <4>3. out[h] = Append(<<>>, Registered(GameCycle))
        BY <2>4, <4>1 DEF Asking
      <4>4. AllOf(Tail(q), 1, Tock)
        BY <1>0, <3>1, <4>1
      <4> QED BY <2>3, <3>2, <4>1, <4>2, <4>3, <4>4 DEF Handed
    <3>3. CASE h \notin linked
      <4>1. h \notin synced /\ hostState[h] = "Down" /\ EndsDown(q)
        BY <1>1, <1>3, <3>3 DEF Handed
      <4> QED BY <3>1, <3>3, <4>1 DEF Handed
    <3> QED BY <3>2, <3>3
  <2> QED BY <1>4, <2>2, <2>3, <2>4, <2>5, <2>6
<1>6. CASE CbTock(h)
  <2>1. Head(q).type = "TOCK"
    BY <1>6 DEF CbTock, HasMessage
  <2>2. AddTock(h) \in [Hosts -> CClientInfos]
    BY AddTockType
  <2>3. /\ AddTock(h)[h].Registered = ClientInfos[h].Registered
        /\ \A j \in Hosts \ {h} : AddTock(h)[j] = ClientInfos[j]
    BY <1>0 DEF AddTock, CClientInfos
  <2>4. Ticked(AddTock(h), toHost)
    BY <1>6, <2>2, CheckTicks DEF CbTock
  <2>5. /\ \A p \in Seq(Messages) : ~Asking(p, q)
        /\ AllOf(q, 1, Tock) => AllOf(Tail(q), 1, Tock)
        /\ EndsDown(q) => EndsDown(Tail(q))
    BY <1>1, <1>3, <2>1, TockTaken
  <2>6. Handed(h, AddTock(h)[h], toHost[h], Tail(q))
    BY <1>0, <1>1, <1>3, <2>3, <2>5 DEF Handed
  <2> QED BY <1>0, <1>4, <2>2, <2>3, <2>4, <2>6
<1>7. CASE CbClientDisconnection(h)
  <2> DEFINE infos == [ClientInfos EXCEPT ![h] = NoClient]
  <2>1. Head(q).type = "DOWN"
    BY <1>7 DEF CbClientDisconnection, HasMessage
  <2>2. infos \in [Hosts -> CClientInfos]
    BY <1>0, NoClientType
  <2>3. ~infos[h].Registered /\ \A j \in Hosts \ {h} : infos[j] = ClientInfos[j]
    BY <1>0 DEF NoClient
  <2>4. Ticked(infos, toHost)
    BY <1>7, <2>2, CheckTicks DEF CbClientDisconnection, UnregisterClient
  <2>5. ~IsOpen(q) /\ (EndsDown(q) => Tail(q) = <<>>)
    BY <1>1, <1>3, <2>1, DownTaken
  <2>6. /\ \A p \in Seq(Messages) : ~Asking(p, q)
        /\ ~AllOf(q, 1, Tock)
    BY <1>3, <2>5, OpenQueues
  <2> HIDE DEF infos
  <2>7. Handed(h, infos[h], toHost[h], Tail(q))
    BY <1>0, <1>1, <1>3, <2>3, <2>5, <2>6 DEF Handed
  <2> QED BY <1>0, <1>4, <2>2, <2>3, <2>4, <2>7
<1> QED BY <1>5, <1>6, <1>7 DEF TicksReceive

LEMMA OperatorLink ==
  ASSUME TypeOK, NEW h \in Hosts, Link(h), Operator
  PROVE  Link(h)'
<1>1. Ticked(ClientInfos, toHost) /\ ticksUp /\ UNCHANGED <<ticksUp, hostVars, toTicks>>
  BY OperatorTicks
<1>2. /\ ClientInfos \in [Hosts -> CClientInfos] /\ toHost \in [Hosts -> Seq(Messages)]
  BY DEF TypeOK
<1>3. Handed(h, ClientInfos[h], toHost[h], toTicks'[h])
  BY <1>1, LinkHanded
<1> QED BY <1>1, <1>2, <1>3, TickLink

\* Every step of the shard keeps every link.
LEMMA NextLink ==
  ASSUME TypeOK, \A k \in Hosts : Link(k), [Next]_vars
  PROVE  \A k \in Hosts : Link(k)'
<1> SUFFICES ASSUME NEW k \in Hosts PROVE Link(k)'
  OBVIOUS
<1>0. Link(k)
  OBVIOUS
<1>1. ASSUME NEW h \in Hosts, TicksReceive(h) PROVE Link(k)'
  BY <1>1, ReceiveLink
<1>2. ASSUME NEW h \in Hosts,
             \/ HostReceive(h) \/ HostStart(h) \/ CbTPTicksUp(h) \/ HostTock(h)
             \/ HostCrash(h) \/ SentToNobody(h)
      PROVE  Link(k)'
  <2>1. CASE h = k
    <3>1. CbSyncFromMaster(k) => Link(k)'
      BY <1>0, SyncLink
    <3>2. CbTPTicksDown(k) => Link(k)'
      BY <1>0, DownLink
    <3>3. MasterTickUpdate(k) => Link(k)'
      BY <1>0, PlayLink
    <3>4. MasterTickAssertFails(k) \/ HostCrash(k) => Link(k)'
      <4>1. Len(toTicks[k]) \in 0 .. Len(toTicks[k])
        BY DEF TypeOK
      <4>2. MasterTickAssertFails(k) \/ HostCrash(k) =>
              hostState[k] # "Down" /\ \E n \in 0 .. Len(toTicks[k]) : HostEnds(k, n)
        BY <4>1 DEF MasterTickAssertFails, HostCrash
      <4> QED BY <1>0, <4>2, EndsLink
    <3>5. HostStart(k) \/ SentToNobody(k) => Link(k)'
      BY <1>0, StartLink
    <3>6. CbTPTicksUp(k) => Link(k)'
      BY <1>0, UpLink
    <3>7. HostTock(k) => Link(k)'
      BY <1>0, TockLink DEF HostTock
    <3> QED BY <1>2, <2>1, <3>1, <3>2, <3>3, <3>4, <3>5, <3>6, <3>7 DEF HostReceive
  <2>2. CASE h # k
    <3>1. UNCHANGED LinkView(k)
      BY <1>2, <2>2
         DEF LinkView, TypeOK, HostReceive, CbSyncFromMaster, CbTPTicksDown, MasterTickUpdate,
             MasterTickAssertFails, HostEnds, HostStart, CbTPTicksUp, HostTock, HostConsume,
             SendMasterTock, HostCrash, SentToNobody, LoseSent, ticksVars, hostVars
    <3> QED BY <1>0, <3>1, SameLink
  <2> QED BY <2>1, <2>2
<1>3. CASE Operator
  BY <1>0, <1>3, OperatorLink
<1>4. CASE TicksUpdate \/ UNCHANGED vars
  <2>1. UNCHANGED LinkView(k)
    BY <1>4 DEF LinkView, TicksUpdate, Update, vars, ticksVars, hostVars, ticksControl
  <2> QED BY <1>0, <2>1, SameLink
<1>5. CASE TicksStop
  BY <1>0, <1>5, StopLink
<1>6. CASE TicksRestart
  BY <1>0, <1>6, RestartLink
<1> QED BY <1>1, <1>2, <1>3, <1>4, <1>5, <1>6 DEF Next, TicksAlive

LEMMA InitLink == Init => \A k \in Hosts : Link(k)
<1> SUFFICES ASSUME Init, NEW k \in Hosts PROVE Apart(k)
  BY DEF Link
<1> QED BY DEF Init, Start, NoClient, Apart

\* The ticks and the TOCKs of an open link are all there is in its queues.
LEMMA NbOfAll ==
  ASSUME NEW p \in Seq(Messages), NEW gc, NEW hc
  PROVE  /\ Played(hc, p, gc) => NbOf(p, Tick) = Len(p)
         /\ Joining(p, gc) => NbOf(p, Tick) = Len(p) - 1
         /\ AllOf(p, 1, Tock) => NbOf(p, Tock) = Len(p)
<1>0. DOMAIN p = 1 .. Len(p) /\ Len(p) \in Nat
  OBVIOUS
<1>1. ASSUME NEW m, AllOf(p, 1, m) PROVE NbOf(p, m) = Len(p)
  <2>1. {i \in DOMAIN p : p[i] = m} = 1 .. Len(p)
    BY <1>0, <1>1 DEF AllOf
  <2>2. Cardinality(1 .. Len(p)) = Len(p)
    BY <1>0, FS_Interval
  <2> QED BY <2>1, <2>2 DEF NbOf
<1>2. ASSUME Joining(p, gc) PROVE NbOf(p, Tick) = Len(p) - 1
  <2>1. Len(p) >= 1 /\ p[1] # Tick
    BY <1>0, <1>2, EmptyQueue, Kinds DEF Joining
  <2>2. {i \in DOMAIN p : p[i] = Tick} = 2 .. Len(p)
    BY <1>0, <1>2, <2>1 DEF Joining, AllOf
  <2>3. Cardinality(2 .. Len(p)) = Len(p) - 1
    BY <1>0, <2>1, FS_Interval
  <2> QED BY <2>2, <2>3 DEF NbOf
<1> QED BY <1>1, <1>2 DEF Played

\* The links are what CycleAgreement needs.
LEMMA LinkAgrees ==
  ASSUME TypeOK, \A h \in Hosts : Link(h)
  PROVE  CycleAgreement
<1> SUFFICES ASSUME NEW h \in Hosts, Connected(h)
             PROVE  /\ h \in synced
                         => (hostCycle[h] + NbOf(toHost[h], Tick)) % CycleMod = GameCycle
                    /\ h \notin synced
                         => \A i \in LastRegistered(h) :
                              (toHost[h][i].cycle + NbOf(toHost[h], Tick)) % CycleMod = GameCycle
  BY DEF CycleAgreement
<1> DEFINE p == toHost[h]
<1>0. p \in Seq(Messages)
  BY DEF TypeOK
<1>1. Open(h)
  BY ConnectedLink
<1>2. CASE Registering(h)
  <2>1. h \notin synced /\ p = <<>>
    BY <1>2 DEF Registering, Asking
  <2>2. LastRegistered(h) = {}
    BY <2>1 DEF LastRegistered
  <2> QED BY <2>1, <2>2
<1>3. CASE Serving(h)
  <2>1. CASE h \in synced
    <3>1. Played(hostCycle[h], p, GameCycle)
      BY <1>3, <2>1 DEF Serving
    <3>2. NbOf(p, Tick) = Len(p)
      BY <1>0, <3>1, NbOfAll
    <3> QED BY <2>1, <3>1, <3>2 DEF Played
  <2>2. CASE h \notin synced
    <3>1. Joining(p, GameCycle)
      BY <1>3, <2>2 DEF Serving
    <3>2. NbOf(p, Tick) = Len(p) - 1
      BY <1>0, <3>1, NbOfAll
    <3>3. ASSUME NEW i \in LastRegistered(h) PROVE i = 1
      <4>1. i \in 1 .. Len(p) /\ p[i].type = "REGISTERED"
        BY <1>0, <3>3 DEF LastRegistered
      <4>2. i \in 2 .. Len(p) => p[i].type = "TICK"
        BY <3>1, Kinds DEF Joining, AllOf
      <4> QED BY <1>0, <4>1, <4>2
    <3> QED BY <2>2, <3>1, <3>2, <3>3 DEF Joining
  <2> QED BY <2>1, <2>2
<1> QED BY <1>1, <1>2, <1>3 DEF Open

\* Both ends of a connection agree on the game cycle, whatever comes, crashes and
\* comes back: a mirror service that has the cycle of TICKS, or will read it, is
\* where TICKS is as soon as it has played the ticks on their way.
THEOREM CyclesAgree == Spec => []CycleAgreement
<1> DEFINE Links == \A h \in Hosts : Link(h)
<1>1. Init => TypeOK /\ Links
  BY InitType, InitLink
<1>2. TypeOK /\ Links /\ [Next]_vars => (TypeOK /\ Links)'
  BY NextType, NextLink
<1>3. TypeOK /\ Links => CycleAgreement
  BY LinkAgrees
<1> HIDE DEF Links
<1> QED BY <1>1, <1>2, <1>3, PTL DEF Spec

--------------------------------------------------------------------------------
\* While TICKS runs, no end of a connection reaches a host.
NoEnds == ticksUp /\ \A h \in Hosts : IsOpen(toHost[h])

LEMMA OpenAppended ==
  ASSUME NEW p \in Seq(Messages), NEW m \in Messages, m # Down, IsOpen(p)
  PROVE  IsOpen(Append(p, m))
<1> DEFINE r == Append(p, m)
<1>1. DOMAIN r = 1 .. Len(p) + 1 /\ DOMAIN p = 1 .. Len(p) /\ Len(p) \in Nat
  OBVIOUS
<1>2. r[Len(p) + 1] = m /\ \A i \in 1 .. Len(p) : r[i] = p[i]
  OBVIOUS
<1> HIDE DEF r
<1>3. IsOpen(r)
  BY <1>1, <1>2 DEF IsOpen
<1> QED BY <1>3 DEF r

LEMMA OpenTaken ==
  ASSUME NEW p \in Seq(Messages), p # <<>>, IsOpen(p)
  PROVE  IsOpen(Tail(p)) /\ Head(p).type # "DOWN"
<1> DEFINE t == Tail(p)
<1>1. DOMAIN t = 1 .. Len(p) - 1 /\ DOMAIN p = 1 .. Len(p) /\ Len(p) \in Nat
  OBVIOUS
<1>2. \A i \in 1 .. Len(p) - 1 : t[i] = p[i + 1]
  OBVIOUS
<1>3. Head(p).type # "DOWN"
  BY DownTaken
<1> HIDE DEF t
<1>4. IsOpen(t)
  BY <1>1, <1>2 DEF IsOpen
<1> QED BY <1>3, <1>4 DEF t

\* No step of a shard whose TICKS keeps running sends an end to a host.
LEMMA AliveNoEnds ==
  ASSUME TypeOK, NoEnds, [TicksAlive]_vars
  PROVE  NoEnds'
<1>0. /\ ClientInfos \in [Hosts -> CClientInfos] /\ toHost \in [Hosts -> Seq(Messages)]
      /\ toTicks \in [Hosts -> Seq(Messages)] /\ GameCycle \in Cycles
  BY DEF TypeOK
<1>1. IsOpen(<<>>)
  BY DEF IsOpen
<1>2. ASSUME NEW infos \in [Hosts -> CClientInfos], NEW out \in [Hosts -> Seq(Messages)],
             \A k \in Hosts : IsOpen(out[k]), Ticked(infos, out), UNCHANGED ticksUp
      PROVE  NoEnds'
  <2>1. \A k \in Hosts : IsOpen(Append(out[k], Tick))
    BY <1>2, OpenAppended, Kinds
  <2>2. \A k \in Hosts : toHost'[k] = out[k] \/ toHost'[k] = Append(out[k], Tick)
    BY <1>2 DEF Ticked
  <2> QED BY <1>2, <2>1, <2>2 DEF NoEnds
<1>3. ASSUME NEW h \in Hosts, CbRegister(h)
      PROVE  NoEnds'
  <2> DEFINE infos == RegisterClient(h, Head(toTicks[h]))
             out == [toHost EXCEPT ![h] = Append(@, Registered(GameCycle))]
  <2>1. infos \in [Hosts -> CClientInfos]
    <3>1. Head(toTicks[h]) \in Messages /\ Head(toTicks[h]).type = "REGISTER"
      BY <1>0, <1>3 DEF CbRegister, HasMessage
    <3> QED BY <1>0, <3>1, MessageFields, RegisteredSlots DEF RegisterClient
  <2>2. Registered(GameCycle) \in Messages /\ Registered(GameCycle) # Down
    BY <1>0 DEF Messages, Registered, Down
  <2>3. out \in [Hosts -> Seq(Messages)] /\ \A k \in Hosts : IsOpen(out[k])
    BY <1>0, <2>2, OpenAppended DEF NoEnds
  <2>4. \/ CheckTockReceived(infos, CurrentMode, Pause, out)
        \/ ClientInfos' = infos /\ toHost' = out /\ UNCHANGED GameCycle
    BY <1>3 DEF CbRegister
  <2>5. UNCHANGED ticksUp
    BY <1>3 DEF CbRegister
  <2> HIDE DEF infos, out
  <2>6. Ticked(infos, out)
    <3>1. CASE CheckTockReceived(infos, CurrentMode, Pause, out)
      BY <2>1, <3>1, CheckTicks
    <3>2. CASE ClientInfos' = infos /\ toHost' = out /\ UNCHANGED GameCycle
      BY <3>2 DEF Ticked
    <3> QED BY <2>4, <3>1, <3>2
  <2> QED BY <1>2, <2>1, <2>3, <2>5, <2>6
<1>4. ASSUME NEW h \in Hosts, CbTock(h) \/ CbClientDisconnection(h)
      PROVE  NoEnds'
  <2>1. PICK infos \in [Hosts -> CClientInfos] : CheckTockReceived(infos, CurrentMode, Pause, toHost)
    <3>1. AddTock(h) \in [Hosts -> CClientInfos] /\ UnregisterClient(h) \in [Hosts -> CClientInfos]
      BY <1>0, AddTockType, NoClientType DEF UnregisterClient
    <3> QED BY <1>4, <3>1 DEF CbTock, CbClientDisconnection
  <2>2. Ticked(infos, toHost)
    BY <2>1, CheckTicks
  <2>3. UNCHANGED ticksUp
    BY <1>4 DEF CbTock, CbClientDisconnection
  <2> QED BY <1>0, <1>2, <2>2, <2>3 DEF NoEnds
<1>5. CASE Operator
  <2>1. Ticked(ClientInfos, toHost) /\ UNCHANGED ticksUp
    BY <1>5, OperatorTicks
  <2> QED BY <1>0, <1>2, <2>1 DEF NoEnds
<1>6. ASSUME NEW h \in Hosts, HostReceive(h) \/ HostCrash(h) \/ SentToNobody(h)
      PROVE  NoEnds'
  <2>1. UNCHANGED ticksUp
    BY <1>6 DEF HostReceive, CbSyncFromMaster, CbTPTicksDown, MasterTickUpdate,
            MasterTickAssertFails, HostCrash, HostEnds, SentToNobody, LoseSent
  <2>2. \/ toHost[h] # <<>> /\ toHost' = [toHost EXCEPT ![h] = Tail(@)]
        \/ toHost' = [toHost EXCEPT ![h] = <<>>]
    BY <1>6 DEF HostReceive, CbSyncFromMaster, CbTPTicksDown, MasterTickUpdate, HostConsume,
            HostHas, MasterTickAssertFails, HostCrash, HostEnds, SentToNobody, LoseSent
  <2>3. toHost[h] # <<>> => IsOpen(Tail(toHost[h]))
    BY <1>0, OpenTaken DEF NoEnds
  <2> QED BY <1>0, <1>1, <2>1, <2>2, <2>3 DEF NoEnds
<1>7. ASSUME UNCHANGED <<ticksUp, toHost>>
      PROVE  NoEnds'
  BY <1>7 DEF NoEnds
<1>8. ASSUME NEW h \in Hosts, HostStart(h) \/ CbTPTicksUp(h) \/ HostTock(h)
      PROVE  UNCHANGED <<ticksUp, toHost>>
  BY <1>8 DEF HostStart, CbTPTicksUp, HostTock, SendMasterTock, ticksVars
<1>9. TicksUpdate \/ UNCHANGED vars => UNCHANGED <<ticksUp, toHost>>
  BY DEF TicksUpdate, Update, vars, ticksVars
<1> QED BY <1>3, <1>4, <1>5, <1>6, <1>7, <1>8, <1>9 DEF TicksAlive, TicksReceive

\* What TICKS counts is what is on the way: the ticks h has still to play, the one
\* it plays and the TOCKs TICKS has still to read.
OnTheWay(h, p, q) ==
  Len(q) + (IF h \in synced THEN Len(p) ELSE Len(p) - 1)
    + (IF hostState[h] = "ExpectingLocalTocks" THEN 1 ELSE 0)
OwesOf(h, info, p, q) ==
  /\ h \notin linked => hostState[h] # "ExpectingLocalTocks"
  /\ h \in linked /\ ~info.Registered =>
       hostState[h] # "ExpectingLocalTocks" /\ Len(q) = 1
  /\ h \in linked /\ info.Registered /\ info.Tocking /\ info.Threshold + 1 < CountMod
       => info.TockMissingCount = OnTheWay(h, p, q)
Owes(h) == OwesOf(h, ClientInfos[h], toHost[h], toTicks[h])

LEMMA SmallCount ==
  ASSUME NEW n \in Nat, n < CountMod
  PROVE  n % CountMod = n
<1>1. CountMod \in Nat /\ CountMod > 0
  BY CountModAssumption
<1> QED BY <1>1

\* One message more, and one message less, on the way.
LEMMA OneMoreTick ==
  ASSUME NEW h, NEW p \in Seq(Messages), NEW q \in Seq(Messages)
  PROVE  OnTheWay(h, Append(p, Tick), q) = OnTheWay(h, p, q) + 1
<1> DEFINE r == Append(p, Tick)
           a == IF h \in synced THEN Len(p) ELSE Len(p) - 1
           b == IF hostState[h] = "ExpectingLocalTocks" THEN 1 ELSE 0
           c == IF h \in synced THEN Len(r) ELSE Len(r) - 1
<1>0. Len(q) \in Nat /\ Len(p) \in Nat /\ Len(r) = Len(p) + 1
  OBVIOUS
<1> HIDE DEF r
<1>1. a \in Int /\ b \in Nat /\ c = a + 1
  BY <1>0
<1>2. /\ OnTheWay(h, p, q) = Len(q) + a + b
      /\ OnTheWay(h, r, q) = Len(q) + c + b
  BY DEF OnTheWay
<1> HIDE DEF a, b, c
<1>3. OnTheWay(h, r, q) = OnTheWay(h, p, q) + 1
  BY <1>0, <1>1, <1>2
<1> QED BY <1>3 DEF r

LEMMA OneTockLess ==
  ASSUME NEW h, NEW p \in Seq(Messages), NEW q \in Seq(Messages), q # <<>>,
         h \notin synced => p # <<>>
  PROVE  /\ OnTheWay(h, p, q) = OnTheWay(h, p, Tail(q)) + 1
         /\ OnTheWay(h, p, Tail(q)) \in Nat
<1> DEFINE t == Tail(q)
           a == IF h \in synced THEN Len(p) ELSE Len(p) - 1
           b == IF hostState[h] = "ExpectingLocalTocks" THEN 1 ELSE 0
<1>0. Len(t) \in Nat /\ Len(q) = Len(t) + 1
  <2>1. /\ t \in Seq(Messages) /\ Len(t) = Len(q) - 1
    BY Taken, Kinds
  <2> HIDE DEF t
  <2>2. Len(t) \in Nat /\ Len(q) \in Nat
    BY <2>1
  <2> QED BY <2>1, <2>2
<1> HIDE DEF t
<1>1. a \in Nat /\ b \in Nat
  BY EmptyQueue
<1>2. /\ OnTheWay(h, p, q) = Len(q) + a + b
      /\ OnTheWay(h, p, t) = Len(t) + a + b
  BY DEF OnTheWay
<1> HIDE DEF a, b
<1>3. OnTheWay(h, p, q) = OnTheWay(h, p, t) + 1 /\ OnTheWay(h, p, t) \in Nat
  BY <1>0, <1>1, <1>2
<1> QED BY <1>3 DEF t

LEMMA SameOwes ==
  ASSUME NEW h, Owes(h), UNCHANGED LinkView(h), UNCHANGED ClientInfos
  PROVE  Owes(h)'
BY DEF LinkView, Owes, OwesOf, OnTheWay

\* A tick adds one to what a client owes, and one to what is on the way.
LEMMA TickOwes ==
  ASSUME NEW h \in Hosts, NEW infos \in [Hosts -> CClientInfos],
         NEW out \in [Hosts -> Seq(Messages)], NEW q \in Seq(Messages),
         Ticked(infos, out), UNCHANGED hostVars, toTicks'[h] = q,
         SlotBound(infos[h]), OwesOf(h, infos[h], out[h], q)
  PROVE  Owes(h)'
<1> DEFINE info == infos[h]
           p == out[h]
<1>0. info \in CClientInfos /\ p \in Seq(Messages)
  OBVIOUS
<1>1. CASE ClientInfos' = infos /\ toHost' = out
  BY <1>1 DEF Owes, OwesOf, OnTheWay, hostVars
<1>2. CASE /\ ~Blocks(info)
           /\ info.Registered =>
               /\ ClientInfos'[h] = [info EXCEPT !.TockReceived = FALSE,
                                                 !.TockMissingCount = (@ + 1) % CountMod]
               /\ toHost'[h] = Append(p, Tick)
           /\ ~info.Registered => ClientInfos'[h] = info /\ toHost'[h] = p
  <2>1. CASE ~info.Registered
    BY <1>2, <2>1 DEF Owes, OwesOf, OnTheWay, hostVars
  <2>2. CASE info.Registered
    <3>1. Len(Append(p, Tick)) = Len(p) + 1 /\ Len(p) \in Nat /\ Len(q) \in Nat
      BY <1>0
    <3>2. OnTheWay(h, Append(p, Tick), q) = OnTheWay(h, p, q) + 1
      BY <1>0, OneMoreTick
    <3>3. info.TockMissingCount \in Nat /\ info.Threshold \in Nat
      BY <1>0 DEF CClientInfos, Counts
    <3>4. info.Tocking /\ info.Threshold + 1 < CountMod =>
            info.TockMissingCount + 1 < CountMod
      BY <1>2, <2>2, <3>3, CountModAssumption DEF SlotBound, Blocks
    <3>5. /\ ClientInfos'[h].Registered = info.Registered
          /\ ClientInfos'[h].Tocking = info.Tocking
          /\ ClientInfos'[h].Threshold = info.Threshold
          /\ ClientInfos'[h].TockMissingCount = (info.TockMissingCount + 1) % CountMod
      BY <1>0, <1>2, <2>2 DEF CClientInfos
    <3>6. info.TockMissingCount + 1 < CountMod =>
            (info.TockMissingCount + 1) % CountMod = info.TockMissingCount + 1
      <4>1. info.TockMissingCount + 1 \in Nat
        BY <3>3
      <4> QED BY <4>1, SmallCount
    <3>7. OnTheWay(h, toHost[h], toTicks[h])' = OnTheWay(h, p, q) + 1
      BY <1>2, <2>2, <3>2 DEF OnTheWay, hostVars
    <3>8. (h \in linked)' = (h \in linked) /\ (hostState[h])' = hostState[h]
      BY DEF hostVars
    <3>9. h \in linked /\ info.Tocking /\ info.Threshold + 1 < CountMod =>
            info.TockMissingCount = OnTheWay(h, p, q)
      BY <2>2 DEF OwesOf
    <3>10. h \notin linked => hostState[h] # "ExpectingLocalTocks"
      BY DEF OwesOf
    <3> HIDE DEF info, p
    <3>11. h \in linked /\ info.Tocking /\ info.Threshold + 1 < CountMod =>
             ClientInfos'[h].TockMissingCount = OnTheWay(h, toHost[h], toTicks[h])'
      BY <3>4, <3>5, <3>6, <3>7, <3>9
    <3> QED BY <2>2, <3>5, <3>8, <3>10, <3>11 DEF Owes, OwesOf
  <2> QED BY <2>1, <2>2
<1> QED BY <1>1, <1>2 DEF Ticked

LEMMA OperatorOwes ==
  ASSUME TypeOK, MissingBound, NEW h \in Hosts, Owes(h), Operator
  PROVE  Owes(h)'
<1>1. Ticked(ClientInfos, toHost) /\ UNCHANGED <<hostVars, toTicks>>
  BY OperatorTicks
<1>2. /\ ClientInfos \in [Hosts -> CClientInfos] /\ toHost \in [Hosts -> Seq(Messages)]
      /\ toTicks[h] \in Seq(Messages)
  BY DEF TypeOK
<1>3. /\ OwesOf(h, ClientInfos[h], toHost[h], toTicks[h]) /\ SlotBound(ClientInfos[h])
      /\ toTicks'[h] = toTicks[h]
  BY <1>1 DEF Owes, MissingBound
<1> QED BY <1>1, <1>2, <1>3, TickOwes

\* A message of h at TICKS, for what each client owes.
LEMMA ReceiveOwes ==
  ASSUME TypeOK, MissingBound, NoEnds, \A k \in Hosts : Link(k) /\ Owes(k),
         NEW h \in Hosts, TicksReceive(h), NEW k \in Hosts
  PROVE  Owes(k)'
<1> DEFINE q == toTicks[h]
<1>0. /\ ClientInfos \in [Hosts -> CClientInfos] /\ toHost \in [Hosts -> Seq(Messages)]
      /\ toTicks \in [Hosts -> Seq(Messages)] /\ GameCycle \in Cycles
  BY DEF TypeOK
<1>1. /\ q # <<>> /\ Consume(h) /\ UNCHANGED hostVars
  BY DEF TicksReceive, CbRegister, CbTock, CbClientDisconnection, HasMessage
<1>2. /\ toTicks'[h] = Tail(q) /\ \A j \in Hosts \ {h} : toTicks'[j] = toTicks[j]
  BY <1>0, <1>1 DEF Consume
<1>3. q \in Seq(Messages) /\ Tail(q) \in Seq(Messages) /\ Len(Tail(q)) = Len(q) - 1
      /\ Len(q) \in Nat /\ Len(q) >= 1
  <2>1. q \in Seq(Messages)
    BY <1>0
  <2> QED BY <1>1, <2>1, Taken, Kinds
<1>4. ASSUME NEW infos \in [Hosts -> CClientInfos], NEW out \in [Hosts -> Seq(Messages)],
             \A j \in Hosts \ {h} : infos[j] = ClientInfos[j] /\ out[j] = toHost[j],
             SlotBound(infos[h]), OwesOf(h, infos[h], out[h], Tail(q)), Ticked(infos, out)
      PROVE  Owes(k)'
  <2>1. CASE k = h
    BY <1>1, <1>2, <1>3, <1>4, <2>1, TickOwes
  <2>2. CASE k # h
    <3>1. /\ infos[k] = ClientInfos[k] /\ out[k] = toHost[k] /\ toTicks'[k] = toTicks[k]
          /\ toTicks[k] \in Seq(Messages)
      BY <1>0, <1>2, <1>4, <2>2
    <3>2. SlotBound(infos[k]) /\ OwesOf(k, infos[k], out[k], toTicks[k])
      BY <3>1 DEF MissingBound, Owes
    <3> QED BY <1>1, <1>4, <3>1, <3>2, TickOwes
  <2> QED BY <2>1, <2>2
<1>5. Owes(h) /\ SlotBound(ClientInfos[h]) /\ Link(h)
  BY DEF MissingBound
<1>6. h \in linked => Open(h)
  <2>1. IsOpen(toHost[h]) /\ toHost[h] \in Seq(Messages)
    BY <1>0 DEF NoEnds
  <2>2. ~EndsDown(toHost[h])
    BY <2>1, OpenQueues, <1>0
  <2> QED BY <1>5, <2>2 DEF Link, Ending, Apart
<1>7. CASE CbRegister(h)
  <2> DEFINE msg == Head(q)
             infos == [ClientInfos EXCEPT ![h].Registered = TRUE,
                                          ![h].Tocking = msg.tocking,
                                          ![h].Threshold = msg.threshold]
             out == [toHost EXCEPT ![h] = Append(@, Registered(GameCycle))]
  <2>1. msg \in Messages /\ msg.type = "REGISTER"
    BY <1>1, <1>3, <1>7 DEF CbRegister, HasMessage
  <2>2. infos \in [Hosts -> CClientInfos]
    <3>1. msg.tocking \in BOOLEAN /\ msg.threshold \in Counts
      BY <2>1, MessageFields
    <3> HIDE DEF msg
    <3> QED BY <1>0, <3>1, RegisteredSlots
  <2>3. /\ infos[h].Registered /\ infos[h].TockMissingCount = ClientInfos[h].TockMissingCount
        /\ \A j \in Hosts \ {h} : infos[j] = ClientInfos[j]
    BY <1>0 DEF CClientInfos
  <2>4. ~ClientInfos[h].Registered /\ infos[h].TockMissingCount = 0
    BY <1>5, <1>7, <2>3 DEF CbRegister, SlotBound, NoClient
  <2>5. /\ out[h] = Append(toHost[h], Registered(GameCycle))
        /\ out \in [Hosts -> Seq(Messages)]
        /\ \A j \in Hosts \ {h} : out[j] = toHost[j]
    <3>1. Registered(GameCycle) \in Messages
      BY <1>0 DEF Messages
    <3>2. Append(toHost[h], Registered(GameCycle)) \in Seq(Messages)
      BY <1>0, <3>1
    <3> QED BY <1>0, <3>2
  <2>6. Ticked(infos, out)
    <3>1. \/ CheckTockReceived(infos, CurrentMode, Pause, out)
          \/ ClientInfos' = infos /\ toHost' = out /\ UNCHANGED GameCycle
      BY <1>7 DEF CbRegister, RegisterClient
    <3> HIDE DEF infos, out
    <3>2. CASE CheckTockReceived(infos, CurrentMode, Pause, out)
      BY <2>2, <3>2, CheckTicks
    <3>3. CASE ClientInfos' = infos /\ toHost' = out /\ UNCHANGED GameCycle
      BY <3>3 DEF Ticked
    <3> QED BY <3>1, <3>2, <3>3
  <2> HIDE DEF infos, out
  <2>7. SlotBound(infos[h])
    <3>1. infos[h].Threshold \in Nat
      BY <2>2 DEF CClientInfos, Counts
    <3> QED BY <2>3, <2>4, <3>1 DEF SlotBound
  <2>8. OwesOf(h, infos[h], out[h], Tail(q))
    <3>1. CASE h \in linked
      <4>1. /\ hostState[h] # "ExpectingLocalTocks" /\ Len(q) = 1
        BY <1>5, <2>4, <3>1 DEF Owes, OwesOf
      <4>2. h \notin synced /\ toHost[h] = <<>>
        BY <1>6, <2>4, <3>1 DEF Open, Registering, Serving, Asking
      <4>3. Len(out[h]) = 1
        BY <2>5, <4>2
      <4>4. OnTheWay(h, out[h], Tail(q)) = 0
        BY <1>3, <4>1, <4>2, <4>3 DEF OnTheWay
      <4> QED BY <2>3, <2>4, <3>1, <4>4 DEF OwesOf
    <3>2. CASE h \notin linked
      BY <1>5, <3>2 DEF Owes, OwesOf
    <3> QED BY <3>1, <3>2
  <2> QED BY <1>4, <2>2, <2>3, <2>5, <2>6, <2>7, <2>8
<1>8. CASE CbTock(h)
  <2>1. Head(q).type = "TOCK"
    BY <1>8 DEF CbTock, HasMessage
  <2>2. AddTock(h) \in [Hosts -> CClientInfos]
    BY AddTockType
  <2>3. \A j \in Hosts \ {h} : AddTock(h)[j] = ClientInfos[j]
    BY <1>0 DEF AddTock, CClientInfos
  <2>4. Ticked(AddTock(h), toHost)
    BY <1>8, <2>2, CheckTicks DEF CbTock
  <2>5. SlotBound(AddTock(h)[h])
    BY <1>5, AddTockBound
  <2>6. OwesOf(h, AddTock(h)[h], toHost[h], Tail(q))
    <3>1. CASE h \in linked
      <4>1. ~Asking(toHost[h], q)
        BY <1>0, <1>1, <1>3, <2>1, TockTaken
      <4>2. ClientInfos[h].Registered
        BY <1>6, <3>1, <4>1 DEF Open, Registering, Serving
      <4>3. /\ AddTock(h)[h].Registered
            /\ AddTock(h)[h].Tocking = ClientInfos[h].Tocking
            /\ AddTock(h)[h].Threshold = ClientInfos[h].Threshold
            /\ ClientInfos[h].TockMissingCount > 0 =>
                 AddTock(h)[h].TockMissingCount = ClientInfos[h].TockMissingCount - 1
        BY <1>0, <4>2 DEF AddTock, CClientInfos
      <4>4. OnTheWay(h, toHost[h], q) = OnTheWay(h, toHost[h], Tail(q)) + 1
            /\ OnTheWay(h, toHost[h], Tail(q)) \in Nat
        <5>1. h \notin synced => toHost[h] # <<>>
          BY <1>6, <3>1, <4>2 DEF Open, Registering, Serving, Joining
        <5> QED BY <1>0, <1>1, <1>3, <5>1, OneTockLess
      <4>5. ClientInfos[h].Tocking /\ ClientInfos[h].Threshold + 1 < CountMod =>
              ClientInfos[h].TockMissingCount = OnTheWay(h, toHost[h], q)
        BY <1>5, <3>1, <4>2 DEF Owes, OwesOf
      <4>6. ClientInfos[h].Tocking /\ ClientInfos[h].Threshold + 1 < CountMod =>
              AddTock(h)[h].TockMissingCount = OnTheWay(h, toHost[h], Tail(q))
        BY <4>3, <4>4, <4>5
      <4> QED BY <3>1, <4>3, <4>6 DEF OwesOf
    <3>2. CASE h \notin linked
      BY <1>5, <3>2 DEF Owes, OwesOf
    <3> QED BY <3>1, <3>2
  <2> QED BY <1>0, <1>4, <2>2, <2>3, <2>4, <2>5, <2>6
<1>9. CASE CbClientDisconnection(h)
  <2> DEFINE infos == [ClientInfos EXCEPT ![h] = NoClient]
  <2>1. Head(q).type = "DOWN"
    BY <1>9 DEF CbClientDisconnection, HasMessage
  <2>2. infos \in [Hosts -> CClientInfos]
    BY <1>0, NoClientType
  <2>3. infos[h] = NoClient /\ \A j \in Hosts \ {h} : infos[j] = ClientInfos[j]
    BY <1>0
  <2>4. Ticked(infos, toHost)
    BY <1>9, <2>2, CheckTicks DEF CbClientDisconnection, UnregisterClient
  <2>5. ~IsOpen(q)
    BY <1>1, <1>3, <2>1, DownTaken
  <2>6. h \notin linked
    BY <1>5, <1>6, <2>5, ConnectedLink
  <2> HIDE DEF infos
  <2>7. OwesOf(h, infos[h], toHost[h], Tail(q)) /\ SlotBound(infos[h])
    BY <1>5, <2>3, <2>6, NoClientBound DEF Owes, OwesOf
  <2> QED BY <1>0, <1>4, <2>2, <2>3, <2>4, <2>7
<1> QED BY <1>7, <1>8, <1>9 DEF TicksReceive

\* What the host itself does.
LEMMA HostOwes ==
  ASSUME TypeOK, NoEnds, NEW h \in Hosts, Link(h), Owes(h),
         \/ HostReceive(h) \/ HostStart(h) \/ CbTPTicksUp(h) \/ HostTock(h)
         \/ HostCrash(h) \/ SentToNobody(h)
  PROVE  Owes(h)'
<1> DEFINE p == toHost[h]
           q == toTicks[h]
<1>0. /\ p \in Seq(Messages) /\ q \in Seq(Messages) /\ LinkTypes(h)
      /\ Len(p) \in Nat /\ Len(q) \in Nat /\ IsOpen(p)
  BY LinkTyped DEF TypeOK, NoEnds
<1>1. h \in linked => Open(h)
  <2>1. ~EndsDown(p)
    BY <1>0, OpenQueues
  <2> QED BY <2>1 DEF Link, Ending, Apart
<1>2. CASE CbSyncFromMaster(h)
  <2>1. p # <<>> /\ Head(p).type = "REGISTERED"
    BY <1>2 DEF CbSyncFromMaster, HostHas
  <2>2. /\ toHost'[h] = Tail(p) /\ h \in synced' /\ Len(Tail(p)) = Len(p) - 1
        /\ UNCHANGED <<ClientInfos, linked, hostState, toTicks>>
    BY <1>0, <1>2, <2>1 DEF CbSyncFromMaster, HostConsume, TypeOK
  <2>3. h \in linked /\ ClientInfos[h].Registered => h \notin synced
    <3>1. \A gc \in Cycles, hc \in Cycles : ~Played(hc, p, gc)
      BY <1>0, <2>1, RegisteredTaken
    <3> QED BY <1>0, <1>1, <3>1 DEF LinkTypes, Open, Registering, Serving
  <2>4. h \notin synced => OnTheWay(h, toHost[h], toTicks[h])' = OnTheWay(h, p, q)
    BY <1>0, <2>2 DEF OnTheWay
  <2> QED BY <2>2, <2>3, <2>4 DEF Owes, OwesOf
<1>3. ~CbTPTicksDown(h)
  BY <1>0, OpenTaken DEF CbTPTicksDown, HostHas
<1>4. CASE MasterTickUpdate(h)
  <2>1. p # <<>> /\ Head(p).type = "TICK" /\ hostState[h] = "ExpectingMasterTick"
    BY <1>4 DEF MasterTickUpdate, HostHas
  <2>2. /\ toHost'[h] = Tail(p) /\ Len(Tail(p)) = Len(p) - 1
        /\ hostState'[h] = "ExpectingLocalTocks"
        /\ UNCHANGED <<ClientInfos, linked, synced, toTicks>>
    BY <1>0, <1>4, <2>1 DEF MasterTickUpdate, HostConsume, TypeOK
  <2>3. h \in linked /\ ClientInfos[h].Registered
    <3>1. h \in linked
      BY <2>1 DEF Link, Open, Ending, Apart
    <3> QED BY <1>1, <2>1, <3>1 DEF Open, Registering, Serving, Asking
  <2> DEFINE a == IF h \in synced THEN Len(p) ELSE Len(p) - 1
             b == IF h \in synced THEN Len(Tail(p)) ELSE Len(Tail(p)) - 1
  <2>5. a \in Int /\ b = a - 1
    BY <1>0, <2>2
  <2>6. /\ OnTheWay(h, p, q) = Len(q) + a + 0
        /\ OnTheWay(h, toHost[h], toTicks[h])' = Len(q) + b + 1
    BY <2>1, <2>2 DEF OnTheWay
  <2> HIDE DEF a, b
  <2>4. OnTheWay(h, toHost[h], toTicks[h])' = OnTheWay(h, p, q)
    BY <1>0, <2>5, <2>6
  <2> QED BY <2>2, <2>3, <2>4 DEF Owes, OwesOf
<1>5. CASE MasterTickAssertFails(h) \/ HostCrash(h)
  <2>1. hostState'[h] = "Down" /\ h \notin linked'
    BY <1>5 DEF MasterTickAssertFails, HostCrash, HostEnds, TypeOK
  <2> QED BY <2>1 DEF Owes, OwesOf
<1>6. CASE HostStart(h) \/ SentToNobody(h)
  <2>1. h \notin linked
    BY <1>6 DEF HostStart, SentToNobody, Link, Open, Ending, Apart
  <2>2. hostState'[h] # "ExpectingLocalTocks" /\ h \notin linked'
    BY <1>6, <2>1 DEF HostStart, SentToNobody, hostVars, TypeOK
  <2> QED BY <2>2 DEF Owes, OwesOf
<1>7. CASE CbTPTicksUp(h)
  <2>1. h \notin linked /\ ticksUp /\ hostState[h] # "Down" /\ h \in linked'
        /\ UNCHANGED <<ClientInfos, hostState>>
    BY <1>7 DEF CbTPTicksUp
  <2>2. q = <<>> /\ ~ClientInfos[h].Registered
    BY <2>1 DEF Link, Open, Ending, Apart
  <2>3. Len(toTicks'[h]) = 1
    <3>1. PICK r \in Registrations :
            toTicks' = [toTicks EXCEPT ![h] = Append(@, Register(r.tocking, r.threshold))]
      BY <1>7 DEF CbTPTicksUp
    <3>2. toTicks'[h] = Append(<<>>, Register(r.tocking, r.threshold))
      BY <2>2, <3>1 DEF TypeOK
    <3> QED BY <3>2
  <2>4. hostState[h] # "ExpectingLocalTocks"
    BY <2>1 DEF Owes, OwesOf
  <2> QED BY <2>1, <2>2, <2>3, <2>4 DEF Owes, OwesOf
<1>8. CASE HostTock(h)
  <2>1. /\ hostState[h] = "ExpectingLocalTocks" /\ hostState'[h] = "ExpectingMasterTick"
        /\ UNCHANGED <<ClientInfos, toHost, linked, synced>>
        /\ toTicks'[h] = IF Connected(h) THEN Append(q, Tock) ELSE q
    BY <1>8 DEF HostTock, SendMasterTock, TypeOK
  <2>2. h \in linked /\ ClientInfos[h].Registered
    BY <2>1 DEF Owes, OwesOf
  <2>3. toTicks'[h] = Append(q, Tock) /\ Len(Append(q, Tock)) = Len(q) + 1
    BY <1>0, <1>1, <2>1, <2>2, ConnectedLink
  <2> DEFINE a == IF h \in synced THEN Len(p) ELSE Len(p) - 1
  <2>5. a \in Int
    BY <1>0
  <2>6. /\ OnTheWay(h, p, q) = Len(q) + a + 1
        /\ OnTheWay(h, toHost[h], toTicks[h])' = Len(Append(q, Tock)) + a + 0
    BY <2>1, <2>3 DEF OnTheWay
  <2> HIDE DEF a
  <2>4. OnTheWay(h, toHost[h], toTicks[h])' = OnTheWay(h, p, q)
    BY <1>0, <2>3, <2>5, <2>6
  <2> QED BY <2>1, <2>2, <2>4 DEF Owes, OwesOf
<1> QED BY <1>2, <1>3, <1>4, <1>5, <1>6, <1>7, <1>8 DEF HostReceive

\* Every step of such a shard keeps what is on the way equal to what is counted.
LEMMA AliveOwes ==
  ASSUME TypeOK, MissingBound, NoEnds, \A k \in Hosts : Link(k) /\ Owes(k), [TicksAlive]_vars
  PROVE  \A k \in Hosts : Owes(k)'
<1> SUFFICES ASSUME NEW k \in Hosts PROVE Owes(k)'
  OBVIOUS
<1>0. Link(k) /\ Owes(k)
  OBVIOUS
<1>1. ASSUME NEW h \in Hosts, TicksReceive(h) PROVE Owes(k)'
  BY <1>1, ReceiveOwes
<1>2. ASSUME NEW h \in Hosts,
             \/ HostReceive(h) \/ HostStart(h) \/ CbTPTicksUp(h) \/ HostTock(h)
             \/ HostCrash(h) \/ SentToNobody(h)
      PROVE  Owes(k)'
  <2>1. CASE h = k
    BY <1>0, <1>2, <2>1, HostOwes
  <2>2. CASE h # k
    <3>1. UNCHANGED LinkView(k) /\ UNCHANGED ClientInfos
      BY <1>2, <2>2
         DEF LinkView, TypeOK, HostReceive, CbSyncFromMaster, CbTPTicksDown, MasterTickUpdate,
             MasterTickAssertFails, HostEnds, HostStart, CbTPTicksUp, HostTock, HostConsume,
             SendMasterTock, HostCrash, SentToNobody, LoseSent, ticksVars, hostVars
    <3> QED BY <1>0, <3>1, SameOwes
  <2> QED BY <2>1, <2>2
<1>3. CASE Operator
  BY <1>0, <1>3, OperatorOwes
<1>4. CASE TicksUpdate \/ UNCHANGED vars
  <2>1. UNCHANGED LinkView(k) /\ UNCHANGED ClientInfos
    BY <1>4 DEF LinkView, TicksUpdate, Update, vars, ticksVars, hostVars, ticksControl
  <2> QED BY <1>0, <2>1, SameOwes
<1> QED BY <1>1, <1>2, <1>3, <1>4 DEF TicksAlive

LEMMA InitOwes == Init => NoEnds /\ \A k \in Hosts : Owes(k)
BY DEF Init, Start, NoEnds, IsOpen, Owes, OwesOf

\* The bound of the slots is then the bound of what is on the way.
LEMMA OwesBounds ==
  ASSUME TypeOK, MissingBound, \A k \in Hosts : Link(k) /\ Owes(k)
  PROVE  RunAheadBound
<1> SUFFICES ASSUME NEW h \in Hosts, ClientInfos[h].Registered, Connected(h),
                    ClientInfos[h].Tocking, ClientInfos[h].Threshold + 1 < CountMod
             PROVE  Unanswered(h) <= ClientInfos[h].Threshold + 1
  BY DEF RunAheadBound, Clients
<1> DEFINE p == toHost[h]
           q == toTicks[h]
<1>0. p \in Seq(Messages) /\ q \in Seq(Messages)
  BY DEF TypeOK
<1>1. Open(h) /\ Serving(h)
  BY ConnectedLink DEF Open, Registering
<1>2. NbOf(q, Tock) = Len(q)
  BY <1>0, <1>1, NbOfAll DEF Serving
<1>3. NbOf(p, Tick) = IF h \in synced THEN Len(p) ELSE Len(p) - 1
  BY <1>0, <1>1, NbOfAll DEF Serving
<1>4. Unanswered(h) = OnTheWay(h, p, q)
  <2>1. Len(p) \in Nat /\ Len(q) \in Nat
    BY <1>0
  <2> DEFINE a == IF h \in synced THEN Len(p) ELSE Len(p) - 1
             b == IF hostState[h] = "ExpectingLocalTocks" THEN 1 ELSE 0
  <2>2. a \in Int /\ b \in Int
    BY <2>1
  <2>3. /\ Unanswered(h) = a + Len(q) + b
        /\ OnTheWay(h, p, q) = Len(q) + a + b
    BY <1>2, <1>3 DEF Unanswered, OnTheWay
  <2> HIDE DEF a, b
  <2> QED BY <2>1, <2>2, <2>3
<1>5. ClientInfos[h].TockMissingCount = OnTheWay(h, p, q)
  BY <1>1 DEF Owes, OwesOf, Open
<1>6. ClientInfos[h].TockMissingCount <= ClientInfos[h].Threshold + 1
  BY DEF MissingBound, SlotBound
<1> QED BY <1>4, <1>5, <1>6

\* While TICKS keeps running it never runs ahead of a mirror service it waits for
\* by more than the Threshold of that service and the present tick, whatever is
\* on its way between the two, crashes or joins.
THEOREM NeverTooFarAhead == AliveSpec => []RunAheadBound
<1> DEFINE Links == \A h \in Hosts : Link(h)
           Debts == NoEnds /\ \A h \in Hosts : Owes(h)
           Inv == TypeOK /\ MissingBound /\ Links /\ Debts
<1>1. Init => Inv
  BY InitType, InitBound, InitLink, InitOwes
<1>2. Inv /\ [TicksAlive]_vars => Inv'
  <2> SUFFICES ASSUME Inv, [TicksAlive]_vars PROVE Inv'
    OBVIOUS
  <2>1. [Next]_vars
    BY DEF Next
  <2>2. TypeOK' /\ MissingBound'
    BY <2>1, NextType, NextBound
  <2>3. Links'
    BY <2>1, NextLink
  <2>4. Debts'
    BY AliveNoEnds, AliveOwes
  <2> QED BY <2>2, <2>3, <2>4
<1>3. Inv => RunAheadBound
  BY OwesBounds
<1> HIDE DEF Inv
<1> QED BY <1>1, <1>2, <1>3, PTL DEF AliveSpec

================================================================================
