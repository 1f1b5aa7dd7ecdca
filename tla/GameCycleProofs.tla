---------------------------- MODULE GameCycleProofs ----------------------------
(* Proofs about the ticks of a whole shard, for any hosts, services and bounds, *)
(* and whatever services and mirror services come, crash and come back.         *)
(*                                                                              *)
(* ShardInv says what may be on every connection, given the states of its two   *)
(* ends.  Link does for TICKS and a mirror service: seven states of a           *)
(* connection that is open, four of what is left of one that is lost.  Links    *)
(* does for a mirror service and a client service, whose queues may hold other  *)
(* messages: at most one TICK or TOCK of a tick is on its way, and only while   *)
(* the mirror service waits for it.  Sound is about a mirror service by itself. *)
(*                                                                              *)
(* A handler of a mirror service is one step of three parts: it reads a         *)
(* message, it changes the record, and the automaton goes on (doNextTask()).    *)
(* Moved says what the automaton may do to any record, Handled what a handler   *)
(* owes it, HandlerKeeps that both together keep the invariant.                 *)
EXTENDS GameCycle, FiniteSetTheorems, SequenceTheorems, TLAPS

\* What travels on each kind of connection.
Syncs == [type : {"REGISTERED"}, cycle : Nat]
FromHosts == {Register(TRUE, 0), Tock, Down}
ToHosts == Syncs \cup {Tick}
FromServices == {Register(TRUE, 0), Tock, DataSets, FwdAck, Down}
ToServices == Syncs \cup [type : {"ATE"}, nb : Nat] \cup {Tick, Down}
Between == [type : {"DELTA"}, waitForIt : BOOLEAN, cycle : Nat] \cup {Up, Down}

MSRecord ==
  [State : {"ExpectingMasterTick", "ExpectingLocalTocks"}, Syncd : BOOLEAN, GameCycle : Nat,
   Services : SUBSET Services, TockedServices : SUBSET Services, NbTocked : Int,
   DeltaSent : BOOLEAN, NbReceived : Nat, NbExpected : Int,
   RemoteMSToWaitForDelta : SUBSET Hosts, RemoteMSList : SUBSET Hosts,
   ReceivedBeforeSync : Seq(Nat), PendingDeltas : SUBSET (Hosts \X Nat),
   ClientServices : SUBSET Services, NbExpectedATAcknowledges : [Services -> Nat],
   BlockedAwaitingATAck : BOOLEAN]

TicksTypes ==
  /\ ClientInfos \in [Hosts -> CClientInfos]
  /\ toTicks \in [Hosts -> Seq(FromHosts)]
  /\ toHost \in [Hosts -> Seq(ToHosts)]
MSTypes ==
  /\ ms \in [Hosts -> MSRecord]
  /\ msUp \in SUBSET Hosts /\ msLinked \in SUBSET Hosts
  /\ peer \in [Pairs -> Seq(Between)]
ServiceTypes ==
  /\ fromSvc \in [Services -> Seq(FromServices)]
  /\ toSvc \in [Services -> Seq(ToServices)]
  /\ svcLinked \in SUBSET Services /\ svcUp \in SUBSET Services
  /\ svcSynced \in SUBSET Services
  /\ svcCycle \in [Services -> Nat]
Types == TicksTypes /\ MSTypes /\ ServiceTypes

\* The messages differ by their type.
LEMMA MessageTypes ==
  /\ Register(TRUE, 0).type = "REGISTER" /\ Register(TRUE, 0).tocking = TRUE
  /\ Register(TRUE, 0).threshold = 0
  /\ Tock.type = "TOCK" /\ Tick.type = "TICK" /\ Down.type = "DOWN" /\ Up.type = "UP"
  /\ DataSets.type = "DATASETS" /\ FwdAck.type = "FWD_ACKATE"
  /\ \A c : Registered(c).type = "REGISTERED" /\ Registered(c).cycle = c
  /\ \A c \in Nat : Registered(c) \in Syncs
  /\ \A msg \in Syncs : msg.type = "REGISTERED" /\ msg.cycle \in Nat
  /\ \A nb \in Nat : AddTrackers(nb) \in [type : {"ATE"}, nb : Nat]
  /\ \A msg \in [type : {"ATE"}, nb : Nat] : msg.type = "ATE" /\ msg.nb \in Nat
BY DEF Register, Tock, Tick, Down, Up, DataSets, FwdAck, Registered, AddTrackers, Syncs

\* Queues of at most two messages.
LEMMA ShortQueues ==
  /\ \A x : <<x>> # <<>> /\ Head(<<x>>) = x /\ Tail(<<x>>) = <<>> /\ Append(<<>>, x) = <<x>>
  /\ \A x, y : /\ <<x, y>> # <<>> /\ Head(<<x, y>>) = x /\ Tail(<<x, y>>) = <<y>>
               /\ Append(<<x>>, y) = <<x, y>>
<1>1. ASSUME NEW x
      PROVE  <<x>> # <<>> /\ Head(<<x>>) = x /\ Tail(<<x>>) = <<>> /\ Append(<<>>, x) = <<x>>
  <2>1. <<x>> # <<>>
    OBVIOUS
  <2>2. Head(<<x>>) = x
    OBVIOUS
  <2>3. Tail(<<x>>) = <<>>
    OBVIOUS
  <2>4. Append(<<>>, x) = <<x>>
    OBVIOUS
  <2> QED BY <2>1, <2>2, <2>3, <2>4
<1>2. ASSUME NEW x, NEW y
      PROVE  /\ <<x, y>> # <<>> /\ Head(<<x, y>>) = x /\ Tail(<<x, y>>) = <<y>>
             /\ Append(<<x>>, y) = <<x, y>>
  <2>1. <<x, y>> # <<>>
    OBVIOUS
  <2>2. Head(<<x, y>>) = x
    OBVIOUS
  <2>3. Tail(<<x, y>>) = <<y>>
    OBVIOUS
  <2>4. Append(<<x>>, y) = <<x, y>>
    <3> DEFINE S == {x, y}
    <3>1. <<x>> \in Seq(S) /\ <<x, y>> \in Seq(S) /\ Len(<<x>>) = 1 /\ Len(<<x, y>>) = 2
      OBVIOUS
    <3>2. Append(<<x>>, y) \in Seq(S) /\ Len(Append(<<x>>, y)) = 2
      BY <3>1
    <3>3. \A i \in 1 .. 2 : Append(<<x>>, y)[i] = <<x, y>>[i]
      BY <3>1
    <3> QED BY <3>1, <3>2, <3>3, SeqEqual
  <2> QED BY <2>1, <2>2, <2>3, <2>4
<1> QED BY <1>1, <1>2

LEMMA FirstFromHost ==
  /\ Head(<<Register(TRUE, 0)>>).type = "REGISTER" /\ Head(<<Tock>>).type = "TOCK"
  /\ Head(<<Down>>).type = "DOWN" /\ Head(<<Tock, Down>>).type = "TOCK"
  /\ Head(<<Register(TRUE, 0), Down>>).type = "REGISTER"
<1>1. /\ Head(<<Register(TRUE, 0)>>) = Register(TRUE, 0) /\ Head(<<Tock>>) = Tock
      /\ Head(<<Down>>) = Down /\ Head(<<Tock, Down>>) = Tock
      /\ Head(<<Register(TRUE, 0), Down>>) = Register(TRUE, 0)
  BY ShortQueues, Zenon
<1> QED BY <1>1, MessageTypes, Zenon

--------------------------------------------------------------------------------
\* The link of a mirror service to TICKS.

\* A slot of TICKS: a client owes at most one TOCK.
Slot(c) ==
  /\ c.Threshold = 0 /\ c.Tocking
  /\ c.TockMissingCount = IF c.TockReceived THEN 0 ELSE 1
  /\ ~c.Registered => c = NoClient

Control ==
  /\ ticksUp /\ Pause = FALSE /\ TickSendingMode = "Continuous"
  /\ GameCycle \in 0 .. MaxCycle
  /\ \A m \in Hosts : Slot(ClientInfos[m])

\* The link of a mirror service in state r that has sent its REGISTER, when c is its
\* slot, i what it has sent to TICKS, o what TICKS has sent to it, and TICKS is at cycle.
Opened(r, cycle, c, i, o) ==
  \/ /\ i = <<Register(TRUE, 0)>> /\ o = <<>> /\ ~c.Registered /\ ~r.Syncd
  \/ /\ i = <<>> /\ o = <<Registered(cycle)>> /\ c.Registered /\ c.TockReceived /\ ~r.Syncd
  \/ /\ i = <<>> /\ o = <<Registered(cycle - 1), Tick>> /\ c.Registered /\ ~c.TockReceived
     /\ ~r.Syncd /\ cycle > 0
  \/ /\ i = <<>> /\ o = <<>> /\ c.Registered /\ c.TockReceived /\ r.Syncd
     /\ r.State = "ExpectingMasterTick" /\ r.GameCycle = cycle
  \/ /\ i = <<>> /\ o = <<Tick>> /\ c.Registered /\ ~c.TockReceived /\ r.Syncd
     /\ r.State = "ExpectingMasterTick" /\ r.GameCycle = cycle - 1
  \/ /\ i = <<>> /\ o = <<>> /\ c.Registered /\ ~c.TockReceived /\ r.Syncd
     /\ r.State = "ExpectingLocalTocks" /\ r.GameCycle = cycle
  \/ /\ i = <<Tock>> /\ o = <<>> /\ c.Registered /\ ~c.TockReceived /\ r.Syncd
     /\ r.State = "ExpectingMasterTick" /\ r.GameCycle = cycle

\* What is left of the link of a mirror service that is lost.
Ended(c, i) ==
  \/ i = <<>> /\ ~c.Registered
  \/ i = <<Down>>
  \/ i = <<Tock, Down>>
  \/ i = <<Register(TRUE, 0), Down>>

Link(m, r, cycle, c, i, o) ==
  /\ m \in msLinked => m \in msUp /\ Opened(r, cycle, c, i, o)
  /\ m \in msUp \ msLinked => i = <<>> /\ o = <<>> /\ ~c.Registered /\ ~r.Syncd
  /\ m \notin msUp => r = NewMS /\ Ended(c, i)

MasterLinks ==
  \A m \in Hosts : Link(m, ms[m], GameCycle, ClientInfos[m], toTicks[m], toHost[m])

\* A mirror service by itself: NbTocked counts its services that have tocked.
Sound(m, r) ==
  /\ r.Services \subseteq Local(m) /\ IsFiniteSet(r.Services)
  /\ r.TockedServices \subseteq Local(m)
  /\ r.ClientServices \subseteq Local(m) /\ IsFiniteSet(r.ClientServices)
  /\ r.RemoteMSList \cup r.RemoteMSToWaitForDelta \subseteq Hosts \ {m}
  /\ IsFiniteSet(r.RemoteMSToWaitForDelta)
  /\ r.NbExpected = Cardinality(r.RemoteMSToWaitForDelta)
  /\ r.NbTocked = Cardinality(r.TockedServices \cap r.Services)
  /\ r.State = "ExpectingMasterTick" => r.TockedServices = {} /\ ~r.DeltaSent
  /\ ~r.Syncd => r.State = "ExpectingMasterTick" /\ r.GameCycle = 0
  /\ r.DeltaSent => r.Services \subseteq r.TockedServices

MasterInv == Types /\ Control /\ MasterLinks /\ \A m \in Hosts : Sound(m, ms[m])

--------------------------------------------------------------------------------
\* Steps of TICKS.

\* What broadcastTick() makes of a slot and of what was sent to its client.
TickedSlot(c) ==
  IF c.Registered
  THEN [c EXCEPT !.TockReceived = FALSE, !.TockMissingCount = (@ + 1) % CountMod]
  ELSE c
TickedQueue(c, o) == IF c.Registered THEN Append(o, Tick) ELSE o

\* A tick keeps the link of m.
LEMMA TickedLink ==
  ASSUME NEW m \in Hosts, NEW r, NEW cycle \in Nat, NEW c \in CClientInfos, NEW i, NEW o,
         Slot(c), Link(m, r, cycle, c, i, o), c.Registered => c.TockReceived
  PROVE  /\ TickedSlot(c) \in CClientInfos /\ Slot(TickedSlot(c))
         /\ Link(m, r, cycle + 1, TickedSlot(c), i, TickedQueue(c, o))
<1> DEFINE d == TickedSlot(c)
           p == TickedQueue(c, o)
<1>1. CASE ~c.Registered
  <2>1. d = c /\ p = o
    BY <1>1 DEF TickedSlot, TickedQueue
  <2>2. Link(m, r, cycle + 1, c, i, o)
    BY <1>1 DEF Link, Opened
  <2> QED BY <2>1, <2>2
<1>2. CASE c.Registered
  <2>1. (0 + 1) % CountMod = 1
    BY CountModAssumption
  <2>2. c.TockMissingCount = 0 /\ c.Threshold = 0 /\ c.Tocking /\ c.TockReceived
    BY <1>2 DEF Slot
  <2>3. d = [c EXCEPT !.TockReceived = FALSE, !.TockMissingCount = 1]
    BY <1>2, <2>1, <2>2 DEF TickedSlot
  <2>4. 1 \in Counts
    BY CountModAssumption DEF Counts
  <2>5. /\ d \in CClientInfos
        /\ d.Registered /\ ~d.TockReceived /\ d.Tocking /\ d.Threshold = 0
        /\ d.TockMissingCount = 1
    BY <1>2, <2>2, <2>3, <2>4 DEF CClientInfos
  <2>6. Slot(d)
    BY <2>5 DEF Slot
  <2>7. p = Append(o, Tick)
    BY <1>2 DEF TickedQueue
  <2> HIDE DEF d, p
  <2>8. Link(m, r, cycle + 1, d, i, p)
    <3>1. CASE m \in msLinked
      <4>1. \/ o = <<Registered(cycle)>> /\ i = <<>> /\ ~r.Syncd
            \/ /\ o = <<>> /\ i = <<>> /\ r.Syncd
               /\ r.State = "ExpectingMasterTick" /\ r.GameCycle = cycle
        BY <1>2, <2>2, <3>1 DEF Link, Opened
      <4>2. /\ o = <<>> => p = <<Tick>>
            /\ o = <<Registered(cycle)>> => p = <<Registered(cycle), Tick>>
        BY <2>7, ShortQueues, Zenon
      <4>3. (cycle + 1) - 1 = cycle /\ cycle + 1 > 0
        OBVIOUS
      <4> QED BY <2>5, <3>1, <4>1, <4>2, <4>3 DEF Link, Opened
    <3>2. CASE m \notin msLinked
      BY <1>2, <2>5, <3>2 DEF Link, Ended
    <3> QED BY <3>1, <3>2
  <2> QED BY <2>5, <2>6, <2>8 DEF d, p
<1> QED BY <1>1, <1>2

\* The slots, queues and cycle that a handler of TICKS leaves: a tick leaves only when
\* no client owes a TOCK.
Ticked(infos, ins) ==
  /\ ClientInfos' \in [Hosts -> CClientInfos] /\ toHost' \in [Hosts -> Seq(ToHosts)]
  /\ GameCycle' \in 0 .. MaxCycle
  /\ \A h \in Hosts : /\ Slot(ClientInfos'[h])
                      /\ Link(h, ms[h], GameCycle', ClientInfos'[h], ins[h], toHost'[h])
  /\ \/ GameCycle' = GameCycle
     \/ /\ GameCycle' = GameCycle + 1
        /\ \A h \in Hosts : infos[h].Registered => infos[h].TockReceived

LEMMA SmallMod == ASSUME NEW b \in Nat, NEW a \in Nat, a < b PROVE a % b = a
OBVIOUS

\* checkTockReceived() keeps the links, whatever slots the handler hands over.
LEMMA CheckLinks ==
  ASSUME TickSendingMode = "Continuous", Pause = FALSE, GameCycle \in 0 .. MaxCycle,
         GameCycle < MaxCycle,
         NEW infos \in [Hosts -> CClientInfos], NEW ins, NEW mode,
         NEW out \in [Hosts -> Seq(ToHosts)],
         \A h \in Hosts : /\ Slot(infos[h])
                          /\ Link(h, ms[h], GameCycle, infos[h], ins[h], out[h]),
         CheckTockReceived(infos, mode, Pause, out)
  PROVE  Ticked(infos, ins)
<1>1. CASE ClientInfos' = infos /\ toHost' = out /\ UNCHANGED GameCycle
  BY <1>1 DEF Ticked
<1>2. CASE /\ \A h \in Hosts : ~Blocks(infos[h])
           /\ BroadcastTick(infos, Pause, out)
  <2>1. /\ GameCycle' = (GameCycle + 1) % CycleMod
        /\ ClientInfos' = [h \in Hosts |->
             IF infos[h].Registered
             THEN [infos[h] EXCEPT !.TockReceived = FALSE, !.TockMissingCount = (@ + 1) % CountMod]
             ELSE infos[h]]
        /\ toHost' = [h \in Hosts |-> IF infos[h].Registered THEN Append(out[h], Tick) ELSE out[h]]
    BY <1>2, Zenon DEF BroadcastTick
  <2>2. GameCycle' = GameCycle + 1 /\ GameCycle' \in 0 .. MaxCycle /\ GameCycle \in Nat
    <3>1. /\ GameCycle \in Nat /\ GameCycle + 1 \in Nat /\ CycleMod \in Nat
          /\ GameCycle + 1 < CycleMod /\ GameCycle + 1 \in 0 .. MaxCycle
      BY MaxCycleAssumption, CycleModAssumption
    <3> QED BY <2>1, <3>1, SmallMod
  <2>3. \A h \in Hosts : infos[h].Registered => infos[h].TockReceived
    BY <1>2 DEF Blocks, Slot, CClientInfos
  <2>4. ASSUME NEW h \in Hosts
        PROVE  /\ ClientInfos'[h] \in CClientInfos /\ Slot(ClientInfos'[h])
               /\ Link(h, ms[h], GameCycle + 1, ClientInfos'[h], ins[h], toHost'[h])
               /\ toHost'[h] \in Seq(ToHosts)
    <3> DEFINE c == infos[h]
               o == out[h]
               d == ClientInfos'[h]
               p == toHost'[h]
    <3>1. d = TickedSlot(c) /\ p = TickedQueue(c, o)
      BY <2>1 DEF TickedSlot, TickedQueue
    <3>2. c \in CClientInfos /\ Slot(c) /\ Link(h, ms[h], GameCycle, c, ins[h], o)
            /\ (c.Registered => c.TockReceived) /\ o \in Seq(ToHosts)
      BY <2>3
    <3>3. Tick \in ToHosts
      BY DEF ToHosts
    <3>4. p \in Seq(ToHosts)
      BY <3>1, <3>2, <3>3 DEF TickedQueue
    <3> HIDE DEF c, o, d, p
    <3>5. d \in CClientInfos /\ Slot(d) /\ Link(h, ms[h], GameCycle + 1, d, ins[h], p)
      BY <2>2, <3>1, <3>2, TickedLink
    <3> QED BY <3>4, <3>5 DEF d, p
  <2>5. ClientInfos' \in [Hosts -> CClientInfos] /\ toHost' \in [Hosts -> Seq(ToHosts)]
    BY <2>1, <2>4
  <2> QED BY <2>2, <2>3, <2>4, <2>5 DEF Ticked
<1> QED BY <1>1, <1>2 DEF CheckTockReceived

\* What a step of TICKS leaves alone.
LEMMA TicksKeeps ==
  ASSUME MasterInv, NEW infos, NEW ins, Ticked(infos, ins), toTicks' = ins,
         ins \in [Hosts -> Seq(FromHosts)],
         UNCHANGED <<msVars, msNet, svcVars, Pause, TickSendingMode, ticksUp>>
  PROVE  MasterInv'
<1>1. Types'
  BY DEF MasterInv, Types, TicksTypes, MSTypes, ServiceTypes, Ticked, msVars, msNet, svcVars
<1>2. Control'
  BY DEF MasterInv, Control, Ticked
<1>3. MasterLinks'
  BY DEF MasterLinks, Ticked, Link, msVars
<1>4. (\A m \in Hosts : Sound(m, ms[m]))'
  BY DEF MasterInv, Sound, msVars
<1> QED BY <1>1, <1>2, <1>3, <1>4 DEF MasterInv

\* Reading a queue of TICKS.
LEMMA HostReads ==
  ASSUME Types, NEW h \in Hosts, NEW type, HasMessage(h, type)
  PROVE  /\ toTicks[h] # <<>> /\ Head(toTicks[h]).type = type /\ Head(toTicks[h]) \in FromHosts
         /\ [toTicks EXCEPT ![h] = Tail(@)] \in [Hosts -> Seq(FromHosts)]
<1>1. toTicks[h] \in Seq(FromHosts) /\ toTicks[h] # <<>>
  BY DEF Types, TicksTypes, HasMessage
<1>2. Head(toTicks[h]) \in FromHosts /\ Tail(toTicks[h]) \in Seq(FromHosts)
  BY <1>1, HeadTailProperties
<1> QED BY <1>1, <1>2 DEF Types, TicksTypes, HasMessage

LEMMA NoClientSlot == NoClient \in CClientInfos /\ Slot(NoClient) /\ ~NoClient.Registered
BY CountModAssumption DEF NoClient, CClientInfos, Counts, Slot

LEMMA CbRegisterMaster ==
  ASSUME MasterInv, GameCycle < MaxCycle, NEW h \in Hosts, CbRegister(h),
         UNCHANGED <<msVars, msNet, svcVars>>
  PROVE  MasterInv'
<1> DEFINE infos == RegisterClient(h, Head(toTicks[h]))
           out == [toHost EXCEPT ![h] = Append(@, Registered(GameCycle))]
           ins == [toTicks EXCEPT ![h] = Tail(@)]
<1>1. /\ Types /\ Control /\ MasterLinks /\ HasMessage(h, "REGISTER") /\ toTicks' = ins
      /\ ~ClientInfos[h].Registered /\ UNCHANGED <<Pause, TickSendingMode, ticksUp>>
  BY DEF MasterInv, CbRegister, Consume, ticksControl
<1>2. /\ toTicks[h] # <<>> /\ Head(toTicks[h]) = Register(TRUE, 0)
      /\ ins \in [Hosts -> Seq(FromHosts)]
  BY <1>1, HostReads, MessageTypes DEF FromHosts
<1>3. /\ ClientInfos \in [Hosts -> CClientInfos] /\ toHost \in [Hosts -> Seq(ToHosts)]
      /\ toTicks \in [Hosts -> Seq(FromHosts)] /\ GameCycle \in Nat
      /\ ClientInfos[h] = NoClient
  BY <1>1 DEF Types, TicksTypes, Control, Slot
<1>4. /\ infos \in [Hosts -> CClientInfos] /\ Slot(infos[h])
      /\ infos[h].Registered /\ infos[h].TockReceived
      /\ \A m \in Hosts \ {h} : infos[m] = ClientInfos[m]
  <2> DEFINE c == [NoClient EXCEPT !.Registered = TRUE, !.Tocking = TRUE, !.Threshold = 0]
  <2>1. c \in CClientInfos /\ Slot(c) /\ c.Registered /\ c.TockReceived
    BY NoClientSlot, CountModAssumption DEF NoClient, CClientInfos, Slot, Counts
  <2>2. infos = [ClientInfos EXCEPT ![h] = c]
    BY <1>2, <1>3, MessageTypes DEF RegisterClient
  <2> HIDE DEF c, infos
  <2> QED BY <1>3, <2>1, <2>2
<1>5. out \in [Hosts -> Seq(ToHosts)]
  <2>1. Registered(GameCycle) \in ToHosts
    BY <1>3, MessageTypes DEF ToHosts
  <2> HIDE DEF out
  <2> QED BY <1>3, <2>1 DEF out
<1> HIDE DEF infos
<1>6. ASSUME NEW m \in Hosts
      PROVE  Slot(infos[m]) /\ Link(m, ms[m], GameCycle, infos[m], ins[m], out[m])
  <2>1. CASE m # h
    <3>1. infos[m] = ClientInfos[m] /\ ins[m] = toTicks[m] /\ out[m] = toHost[m]
      BY <1>3, <1>4, <2>1
    <3> QED BY <1>1, <3>1 DEF Control, MasterLinks
  <2>2. CASE m = h
    <3>1. Link(h, ms[h], GameCycle, ClientInfos[h], toTicks[h], toHost[h])
      BY <1>1 DEF MasterLinks
    <3>2. ins[h] = Tail(toTicks[h]) /\ out[h] = Append(toHost[h], Registered(GameCycle))
      BY <1>3
    <3>3. h \in msUp => h \in msLinked
      BY <1>2, <3>1 DEF Link
    <3>4. CASE h \in msLinked
      <4>1. toTicks[h] = <<Register(TRUE, 0)>> /\ toHost[h] = <<>> /\ ~ms[h].Syncd /\ h \in msUp
        BY <1>1, <3>1, <3>4 DEF Link, Opened
      <4>2. ins[h] = <<>> /\ out[h] = <<Registered(GameCycle)>>
        BY <3>2, <4>1, ShortQueues
      <4> QED BY <1>4, <2>2, <3>4, <4>1, <4>2 DEF Link, Opened
    <3>5. CASE h \notin msUp /\ h \notin msLinked
      <4>1. ms[h] = NewMS /\ Ended(ClientInfos[h], toTicks[h])
        BY <3>1, <3>5 DEF Link
      <4>2. toTicks[h] = <<Register(TRUE, 0), Down>>
        <5>1. Head(toTicks[h]).type = "REGISTER"
          BY <1>2, MessageTypes
        <5> QED BY <1>2, <4>1, <5>1, FirstFromHost DEF Ended
      <4>3. ins[h] = <<Down>>
        BY <3>2, <4>2, ShortQueues
      <4> QED BY <1>4, <2>2, <3>5, <4>1, <4>3 DEF Link, Ended
    <3>6. h \in msLinked => h \in msUp
      BY <3>1 DEF Link
    <3> QED BY <3>3, <3>4, <3>5, <3>6
  <2> QED BY <2>1, <2>2
<1>7. Ticked(infos, ins)
  <2>1. CASE CheckTockReceived(infos, CurrentMode, Pause, out)
    <3>1. TickSendingMode = "Continuous" /\ Pause = FALSE /\ GameCycle \in 0 .. MaxCycle
      BY <1>1 DEF Control
    <3> HIDE DEF ins, out
    <3> QED BY <1>4, <1>5, <1>6, <2>1, <3>1, CheckLinks
  <2>2. CASE ClientInfos' = infos /\ toHost' = out /\ UNCHANGED GameCycle
    BY <1>1, <1>4, <1>5, <1>6, <2>2 DEF Ticked, Control
  <2> QED BY <2>1, <2>2 DEF CbRegister, infos
<1> HIDE DEF ins
<1> QED BY <1>1, <1>2, <1>7, TicksKeeps

LEMMA CbTockMaster ==
  ASSUME MasterInv, GameCycle < MaxCycle, NEW h \in Hosts, CbTock(h),
         UNCHANGED <<msVars, msNet, svcVars>>
  PROVE  MasterInv'
<1> DEFINE infos == AddTock(h)
           ins == [toTicks EXCEPT ![h] = Tail(@)]
<1>1. /\ Types /\ Control /\ MasterLinks /\ HasMessage(h, "TOCK") /\ toTicks' = ins
      /\ UNCHANGED <<Pause, TickSendingMode, ticksUp>>
      /\ CheckTockReceived(infos, CurrentMode, Pause, toHost)
  BY DEF MasterInv, CbTock, Consume, ticksControl
<1>2. /\ toTicks[h] # <<>> /\ Head(toTicks[h]).type = "TOCK"
      /\ ins \in [Hosts -> Seq(FromHosts)]
  BY <1>1, HostReads
<1>3. /\ ClientInfos \in [Hosts -> CClientInfos] /\ toHost \in [Hosts -> Seq(ToHosts)]
      /\ toTicks \in [Hosts -> Seq(FromHosts)] /\ Slot(ClientInfos[h])
      /\ ClientInfos[h] \in CClientInfos
  BY <1>1 DEF Types, TicksTypes, Control
<1>4. /\ infos \in [Hosts -> CClientInfos] /\ Slot(infos[h])
      /\ infos[h].Registered = ClientInfos[h].Registered
      /\ infos[h].Registered => infos[h].TockReceived
      /\ \A m \in Hosts \ {h} : infos[m] = ClientInfos[m]
  <2>1. CASE ~ClientInfos[h].Registered
    <3>1. infos = ClientInfos
      BY <2>1 DEF AddTock
    <3> HIDE DEF infos
    <3> QED BY <1>3, <2>1, <3>1
  <2>2. CASE ClientInfos[h].Registered
    <3> DEFINE c == [ClientInfos[h] EXCEPT !.TockReceived = TRUE, !.TockMissingCount = 0]
    <3>1. 0 \in Counts
      BY CountModAssumption DEF Counts
    <3>2. c \in CClientInfos /\ Slot(c) /\ c.Registered = ClientInfos[h].Registered /\ c.TockReceived
      BY <1>3, <2>2, <3>1 DEF CClientInfos, Slot
    <3>3. ClientInfos[h].TockMissingCount \in {0, 1}
      BY <1>3 DEF Slot
    <3>4. infos = [ClientInfos EXCEPT ![h] = c]
      <4>1. (IF ClientInfos[h].TockMissingCount > 0 THEN ClientInfos[h].TockMissingCount - 1 ELSE 0) = 0
        BY <3>3
      <4> QED BY <1>3, <2>2, <4>1 DEF AddTock
    <3> HIDE DEF c, infos
    <3> QED BY <1>3, <3>2, <3>4
  <2> QED BY <2>1, <2>2
<1> HIDE DEF infos
<1>5. ASSUME NEW m \in Hosts
      PROVE  Slot(infos[m]) /\ Link(m, ms[m], GameCycle, infos[m], ins[m], toHost[m])
  <2>1. CASE m # h
    <3>1. infos[m] = ClientInfos[m] /\ ins[m] = toTicks[m]
      BY <1>3, <1>4, <2>1
    <3> QED BY <1>1, <3>1 DEF Control, MasterLinks
  <2>2. CASE m = h
    <3>1. Link(h, ms[h], GameCycle, ClientInfos[h], toTicks[h], toHost[h])
      BY <1>1 DEF MasterLinks
    <3>2. ins[h] = Tail(toTicks[h])
      BY <1>3
    <3>3. h \in msUp => h \in msLinked
      BY <1>2, <3>1 DEF Link
    <3>4. CASE h \in msLinked
      <4>1. /\ toTicks[h] = <<Tock>> /\ toHost[h] = <<>> /\ ms[h].Syncd /\ h \in msUp
            /\ ms[h].State = "ExpectingMasterTick" /\ ms[h].GameCycle = GameCycle
            /\ ClientInfos[h].Registered
        BY <1>2, <3>1, <3>4, FirstFromHost DEF Link, Opened
      <4>2. ins[h] = <<>>
        BY <3>2, <4>1, ShortQueues
      <4> QED BY <1>4, <2>2, <3>4, <4>1, <4>2 DEF Link, Opened
    <3>5. CASE h \notin msUp /\ h \notin msLinked
      <4>1. ms[h] = NewMS /\ Ended(ClientInfos[h], toTicks[h])
        BY <3>1, <3>5 DEF Link
      <4>2. toTicks[h] = <<Tock, Down>>
        BY <1>2, <4>1, FirstFromHost DEF Ended
      <4>3. ins[h] = <<Down>>
        BY <3>2, <4>2, ShortQueues
      <4> QED BY <1>4, <2>2, <3>5, <4>1, <4>3 DEF Link, Ended
    <3>6. h \in msLinked => h \in msUp
      BY <3>1 DEF Link
    <3> QED BY <3>3, <3>4, <3>5, <3>6
  <2> QED BY <2>1, <2>2
<1>6. Ticked(infos, ins)
  <2>1. TickSendingMode = "Continuous" /\ Pause = FALSE /\ GameCycle \in 0 .. MaxCycle
    BY <1>1 DEF Control
  <2> HIDE DEF ins
  <2> QED BY <1>1, <1>3, <1>4, <1>5, <2>1, CheckLinks
<1> HIDE DEF ins
<1> QED BY <1>1, <1>2, <1>6, TicksKeeps

LEMMA CbClientDisconnectionMaster ==
  ASSUME MasterInv, GameCycle < MaxCycle, NEW h \in Hosts, CbClientDisconnection(h),
         UNCHANGED <<msVars, msNet, svcVars>>
  PROVE  MasterInv'
<1> DEFINE infos == UnregisterClient(h)
           ins == [toTicks EXCEPT ![h] = Tail(@)]
<1>1. /\ Types /\ Control /\ MasterLinks /\ HasMessage(h, "DOWN") /\ toTicks' = ins
      /\ UNCHANGED <<Pause, TickSendingMode, ticksUp>>
      /\ CheckTockReceived(infos, CurrentMode, Pause, toHost)
  BY DEF MasterInv, CbClientDisconnection, Consume, ticksControl
<1>2. /\ toTicks[h] # <<>> /\ Head(toTicks[h]).type = "DOWN"
      /\ ins \in [Hosts -> Seq(FromHosts)]
  BY <1>1, HostReads
<1>3. /\ ClientInfos \in [Hosts -> CClientInfos] /\ toHost \in [Hosts -> Seq(ToHosts)]
      /\ toTicks \in [Hosts -> Seq(FromHosts)]
  BY <1>1 DEF Types, TicksTypes
<1>4. /\ infos \in [Hosts -> CClientInfos] /\ infos[h] = NoClient
      /\ \A m \in Hosts \ {h} : infos[m] = ClientInfos[m]
  BY <1>3, NoClientSlot DEF UnregisterClient
<1> HIDE DEF infos
<1>5. ASSUME NEW m \in Hosts
      PROVE  Slot(infos[m]) /\ Link(m, ms[m], GameCycle, infos[m], ins[m], toHost[m])
  <2>1. CASE m # h
    <3>1. infos[m] = ClientInfos[m] /\ ins[m] = toTicks[m]
      BY <1>3, <1>4, <2>1
    <3> QED BY <1>1, <3>1 DEF Control, MasterLinks
  <2>2. CASE m = h
    <3>1. Link(h, ms[h], GameCycle, ClientInfos[h], toTicks[h], toHost[h])
      BY <1>1 DEF MasterLinks
    <3>2. ins[h] = Tail(toTicks[h])
      BY <1>3
    <3>4. h \notin msUp
      BY <1>2, <3>1, FirstFromHost DEF Link, Opened
    <3>5. toTicks[h] = <<Down>> /\ ms[h] = NewMS /\ h \notin msLinked
      BY <1>2, <3>1, <3>4, FirstFromHost DEF Link, Ended
    <3>6. ins[h] = <<>>
      BY <3>2, <3>5, ShortQueues
    <3> QED BY <1>4, <2>2, <3>4, <3>5, <3>6, NoClientSlot DEF Link, Ended
  <2> QED BY <2>1, <2>2
<1>6. Ticked(infos, ins)
  <2>1. TickSendingMode = "Continuous" /\ Pause = FALSE /\ GameCycle \in 0 .. MaxCycle
    BY <1>1 DEF Control
  <2> HIDE DEF ins
  <2> QED BY <1>1, <1>3, <1>4, <1>5, <2>1, CheckLinks
<1> HIDE DEF ins
<1> QED BY <1>1, <1>2, <1>6, TicksKeeps

LEMMA TicksOperatorMaster ==
  ASSUME MasterInv, TicksOperator PROVE MasterInv'
<1>1. /\ Types /\ Control /\ MasterLinks /\ GameCycle < MaxCycle
      /\ UNCHANGED <<msVars, msNet, svcVars, Pause, TickSendingMode, ticksUp, toTicks>>
  BY DEF MasterInv, TicksOperator, HaltTick, ResumeTick
<1>2. /\ TickSendingMode = "Continuous" /\ Pause = FALSE /\ GameCycle \in 0 .. MaxCycle
      /\ ClientInfos \in [Hosts -> CClientInfos] /\ toHost \in [Hosts -> Seq(ToHosts)]
      /\ toTicks \in [Hosts -> Seq(FromHosts)]
  BY <1>1 DEF Control, Types, TicksTypes
<1>3. \A m \in Hosts : /\ Slot(ClientInfos[m])
                       /\ Link(m, ms[m], GameCycle, ClientInfos[m], toTicks[m], toHost[m])
  BY <1>1 DEF Control, MasterLinks
<1>4. Ticked(ClientInfos, toTicks)
  <2>1. CASE HaltTick
    BY <1>2, <1>3, <2>1 DEF HaltTick, Ticked
  <2>2. CASE ResumeTick
    <3>1. CheckTockReceived(ClientInfos, "TickRunning", Pause, toHost)
      BY <2>2 DEF ResumeTick
    <3> QED BY <1>1, <1>2, <1>3, <3>1, CheckLinks
  <2> QED BY <2>1, <2>2 DEF TicksOperator
<1> QED BY <1>1, <1>2, <1>4, TicksKeeps

LEMMA TicksMaster ==
  ASSUME MasterInv, NEW m \in Hosts, TicksStep(m) PROVE MasterInv'
BY CbRegisterMaster, CbTockMaster, CbClientDisconnectionMaster DEF TicksStep

\* The automaton.  When a handler of m has computed r, what the tick of m may become:
\* it goes on, or it ends with a TOCK to TICKS.
Moved(m, r) ==
  /\ ms' \in [Hosts -> MSRecord] /\ \A h \in Hosts \ {m} : ms'[h] = ms[h]
  /\ Sound(m, ms'[m])
  /\ ms'[m].Syncd = r.Syncd /\ ms'[m].GameCycle = r.GameCycle /\ ms'[m].Services = r.Services
  /\ \/ /\ ms'[m].State = r.State /\ ms'[m].TockedServices = r.TockedServices
        /\ toTicks' = toTicks
     \/ /\ r.State = "ExpectingLocalTocks" /\ r.Services \subseteq r.TockedServices
        /\ ms'[m].State = "ExpectingMasterTick"
        /\ toTicks' = IF m \in msLinked THEN [toTicks EXCEPT ![m] = Append(@, Tock)] ELSE toTicks

\* All the services have tocked when there are as many TOCKs as services.
LEMMA AllTocked ==
  ASSUME NEW m \in Hosts, NEW r \in MSRecord, Sound(m, r)
  PROVE  r.NbTocked = Cardinality(r.Services) <=> r.Services \subseteq r.TockedServices
<1>1. IsFiniteSet(r.Services) /\ r.TockedServices \cap r.Services \in SUBSET r.Services
  BY DEF Sound
<1>2. Cardinality(r.Services) = Cardinality(r.TockedServices \cap r.Services)
        => r.Services = r.TockedServices \cap r.Services
  BY <1>1, FS_Subset
<1>3. r.NbTocked = Cardinality(r.TockedServices \cap r.Services)
  BY DEF Sound
<1>4. ASSUME r.Services \subseteq r.TockedServices PROVE r.TockedServices \cap r.Services = r.Services
  BY <1>4
<1> QED BY <1>2, <1>3, <1>4

\* The deltas leave only when all services have tocked.
LEMMA DeltasLeave ==
  ASSUME NEW m \in Hosts, NEW r \in MSRecord, Sound(m, r)
  PROVE  LET d == BuildAndSendAllOutgoingDeltas(r)
         IN /\ d \in MSRecord /\ Sound(m, d)
            /\ d.State = r.State /\ d.Syncd = r.Syncd /\ d.GameCycle = r.GameCycle
            /\ d.Services = r.Services /\ d.TockedServices = r.TockedServices
            /\ d.DeltaSent => /\ r.State = "ExpectingLocalTocks"
                              /\ r.Services \subseteq r.TockedServices
<1> DEFINE d == BuildAndSendAllOutgoingDeltas(r)
<1>1. CASE d = r
  BY <1>1 DEF Sound, MSRecord
<1>2. CASE d = [r EXCEPT !.BlockedAwaitingATAck = TRUE] /\ ~r.DeltaSent
  BY <1>2 DEF Sound, MSRecord
<1>3. CASE d = [r EXCEPT !.DeltaSent = TRUE] /\ CheckIfAllClientTocksReceived(r)
  <2>1. r.Services \subseteq r.TockedServices /\ r.State = "ExpectingLocalTocks"
    BY <1>3, AllTocked DEF CheckIfAllClientTocksReceived
  <2> QED BY <1>3, <2>1 DEF Sound, MSRecord
<1>4. d = r \/ (d = [r EXCEPT !.BlockedAwaitingATAck = TRUE] /\ ~r.DeltaSent)
        \/ (d = [r EXCEPT !.DeltaSent = TRUE] /\ CheckIfAllClientTocksReceived(r))
  BY DEF BuildAndSendAllOutgoingDeltas
<1> HIDE DEF d
<1> QED BY <1>1, <1>2, <1>3, <1>4 DEF d

\* The master TOCK ends the tick.
LEMMA TickEnds ==
  ASSUME NEW m \in Hosts, NEW d \in MSRecord, Sound(m, d), d.Syncd
  PROVE  LET z == TockMasterAndProcessReceivedIncomingDeltas(d)
         IN /\ z \in MSRecord /\ Sound(m, z)
            /\ z.Syncd = d.Syncd /\ z.GameCycle = d.GameCycle /\ z.Services = d.Services
            /\ z.State = "ExpectingMasterTick"
<1> DEFINE z == TockMasterAndProcessReceivedIncomingDeltas(d)
<1>1. z = [d EXCEPT !.NbTocked = 0, !.TockedServices = {}, !.State = "ExpectingMasterTick",
                    !.PendingDeltas = {}, !.NbReceived = 0, !.DeltaSent = FALSE]
  BY DEF TockMasterAndProcessReceivedIncomingDeltas
<1> HIDE DEF z
<1>2. z \in MSRecord
  <2> DEFINE y == [d EXCEPT !.NbTocked = 0, !.TockedServices = {}, !.State = "ExpectingMasterTick"]
  <2>1. y \in MSRecord
    <3>1. \A k \in Int :
            [d EXCEPT !.NbTocked = k, !.TockedServices = {}, !.State = "ExpectingMasterTick"]
              \in MSRecord
      BY DEF MSRecord
    <3>2. 0 \in Int
      OBVIOUS
    <3> QED BY <3>1, <3>2, Zenon
  <2>2. z = [y EXCEPT !.PendingDeltas = {}, !.NbReceived = 0, !.DeltaSent = FALSE]
    BY <1>1
  <2> HIDE DEF y
  <2> QED BY <2>1, <2>2 DEF MSRecord
<1>3. /\ z.NbTocked = 0 /\ z.TockedServices = {} /\ z.State = "ExpectingMasterTick"
      /\ ~z.DeltaSent
      /\ z.Syncd = d.Syncd /\ z.GameCycle = d.GameCycle /\ z.Services = d.Services
      /\ z.ClientServices = d.ClientServices /\ z.NbExpected = d.NbExpected
      /\ z.RemoteMSList = d.RemoteMSList /\ z.RemoteMSToWaitForDelta = d.RemoteMSToWaitForDelta
  BY <1>1 DEF MSRecord
<1>4. z.TockedServices \cap z.Services = {}
  BY <1>3
<1>5. Sound(m, z)
  BY <1>3, <1>4, FS_EmptySet DEF Sound
<1> QED BY <1>2, <1>3, <1>5 DEF z

LEMMA NextTask ==
  ASSUME NEW m \in Hosts, ms \in [Hosts -> MSRecord], NEW net \in [Pairs -> Seq(Between)],
         NEW r \in MSRecord, Sound(m, r), DoNextTask(m, r, net)
  PROVE  Moved(m, r) /\ peer' \in [Pairs -> Seq(Between)]
<1> DEFINE d == BuildAndSendAllOutgoingDeltas(r)
           tocks == d.DeltaSent /\ CheckIfAllIncomingDeltasReceived(d)
           z == TockMasterAndProcessReceivedIncomingDeltas(d)
<1>1. /\ d \in MSRecord /\ Sound(m, d)
      /\ d.State = r.State /\ d.Syncd = r.Syncd /\ d.GameCycle = r.GameCycle
      /\ d.Services = r.Services /\ d.TockedServices = r.TockedServices
      /\ d.DeltaSent => /\ r.State = "ExpectingLocalTocks"
                        /\ r.Services \subseteq r.TockedServices
  BY DeltasLeave
<1>2. /\ ms' = [ms EXCEPT ![m] = IF tocks THEN z ELSE d]
      /\ toTicks' = IF tocks /\ m \in msLinked
                    THEN [toTicks EXCEPT ![m] = Append(@, Tock)] ELSE toTicks
  BY DEF DoNextTask
<1>3. peer' \in [Pairs -> Seq(Between)]
  <2>1. \A b \in BOOLEAN, c \in Nat : Delta(b, c) \in Between
    BY DEF Delta, Between
  <2>2. d.GameCycle \in Nat
    BY <1>1 DEF MSRecord
  <2>3. Delta(m \notin PureReceivers, d.GameCycle) \in Between
    BY <2>1, <2>2
  <2>4. \A p \in Pairs : net[p] \in Seq(Between)
          /\ Append(net[p], Delta(m \notin PureReceivers, d.GameCycle)) \in Seq(Between)
    BY <2>3
  <2> HIDE DEF d
  <2> QED BY <2>4 DEF DoNextTask, d
<1>4. d.DeltaSent => d.Syncd
  BY <1>1 DEF Sound
<1> HIDE DEF d, z
<1>5. CASE tocks
  <2>1. /\ z \in MSRecord /\ Sound(m, z)
        /\ z.Syncd = d.Syncd /\ z.GameCycle = d.GameCycle /\ z.Services = d.Services
        /\ z.State = "ExpectingMasterTick"
    BY <1>1, <1>4, <1>5, TickEnds DEF z
  <2> QED BY <1>1, <1>2, <1>3, <1>5, <2>1 DEF Moved
<1>6. CASE ~tocks
  BY <1>1, <1>2, <1>3, <1>6 DEF Moved
<1> QED BY <1>5, <1>6

\* Queues between a mirror service and its services, for the messages that matter to
\* the ticks; any others may be among them.
Has(q, type) == \E i \in 1 .. Len(q) : q[i].type = type
Once(q, type) == \A i, j \in 1 .. Len(q) : q[i].type = type /\ q[j].type = type => i = j
DownLast(q) == \A i \in 1 .. Len(q) : q[i].type = "DOWN" => i = Len(q)
RegisteredFirst(q) ==
  \A i, j \in 1 .. Len(q) : q[i].type = "REGISTERED" /\ q[j].type = "TICK" => i < j
SyncIs(q, c) == \A i \in 1 .. Len(q) : q[i].type = "REGISTERED" => q[i].cycle = c

LEMMA EmptyQueue ==
  /\ \A type : ~Has(<<>>, type) /\ Once(<<>>, type)
  /\ DownLast(<<>>) /\ RegisteredFirst(<<>>) /\ \A c : SyncIs(<<>>, c)
BY DEF Has, Once, DownLast, RegisteredFirst, SyncIs

LEMMA NoSync == \A q, c : ~Has(q, "REGISTERED") => SyncIs(q, c)
BY DEF Has, SyncIs

\* Sending a message.
LEMMA Sent ==
  ASSUME NEW S, NEW q \in Seq(S), NEW x \in S
  PROVE  LET p == Append(q, x)
         IN /\ p \in Seq(S) /\ p # <<>>
            /\ \A type : Has(p, type) <=> Has(q, type) \/ x.type = type
            /\ \A type : Once(q, type) /\ (x.type = type => ~Has(q, type)) => Once(p, type)
            /\ ~Has(q, "DOWN") => DownLast(p)
            /\ RegisteredFirst(q) /\ (x.type = "REGISTERED" => ~Has(q, "TICK")) => RegisteredFirst(p)
            /\ \A c : SyncIs(q, c) /\ (x.type = "REGISTERED" => x.cycle = c) => SyncIs(p, c)
<1> DEFINE p == Append(q, x)
           n == Len(q)
<1>1. /\ p \in Seq(S) /\ n \in Nat /\ Len(p) = n + 1 /\ p[n + 1] = x /\ p # <<>>
      /\ \A i \in 1 .. n : p[i] = q[i]
  OBVIOUS
<1>2. \A i \in 1 .. n + 1 : i = n + 1 \/ i \in 1 .. n
  BY <1>1
<1>3. \A i \in 1 .. n : i \in 1 .. n + 1 /\ i < n + 1
  BY <1>1
<1>4. n + 1 \in 1 .. n + 1
  BY <1>1
<1> HIDE DEF p, n
<1>5. \A type : Has(p, type) <=> Has(q, type) \/ x.type = type
  BY <1>1, <1>2, <1>3, <1>4 DEF Has, n
<1>6. \A type : Once(q, type) /\ (x.type = type => ~Has(q, type)) => Once(p, type)
  BY <1>1, <1>2 DEF Once, Has, n
<1>7. ~Has(q, "DOWN") => DownLast(p)
  BY <1>1, <1>2 DEF Has, DownLast, n
<1>8. RegisteredFirst(q) /\ (x.type = "REGISTERED" => ~Has(q, "TICK")) => RegisteredFirst(p)
  <2> SUFFICES ASSUME RegisteredFirst(q), x.type = "REGISTERED" => ~Has(q, "TICK"),
                      NEW i \in 1 .. n + 1, NEW j \in 1 .. n + 1,
                      p[i].type = "REGISTERED", p[j].type = "TICK"
               PROVE  i < j
    BY <1>1 DEF RegisteredFirst
  <2>1. CASE i = n + 1
    BY <1>1, <1>2, <2>1 DEF Has, n
  <2>2. CASE i \in 1 .. n /\ j = n + 1
    BY <1>3, <2>2
  <2>3. CASE i \in 1 .. n /\ j \in 1 .. n
    BY <1>1, <2>3 DEF RegisteredFirst, n
  <2> QED BY <1>2, <2>1, <2>2, <2>3
<1>9. \A c : SyncIs(q, c) /\ (x.type = "REGISTERED" => x.cycle = c) => SyncIs(p, c)
  BY <1>1, <1>2 DEF SyncIs, n
<1> QED BY <1>1, <1>5, <1>6, <1>7, <1>8, <1>9 DEF p

\* Reading a message.
LEMMA Read ==
  ASSUME NEW S, NEW q \in Seq(S), q # <<>>
  PROVE  LET p == Tail(q)
             x == Head(q)
         IN /\ p \in Seq(S) /\ x \in S
            /\ \A type : Has(p, type) => Has(q, type)
            /\ \A type : Has(q, type) => Has(p, type) \/ x.type = type
            /\ Has(q, x.type)
            /\ \A type : Once(q, type) => Once(p, type)
            /\ Once(q, x.type) => ~Has(p, x.type)
            /\ DownLast(q) => DownLast(p) /\ (x.type = "DOWN" => p = <<>>)
            /\ RegisteredFirst(q) =>
                 RegisteredFirst(p) /\ (x.type = "TICK" => ~Has(q, "REGISTERED"))
            /\ \A c : SyncIs(q, c) => SyncIs(p, c) /\ (x.type = "REGISTERED" => x.cycle = c)
<1> DEFINE p == Tail(q)
           x == Head(q)
           n == Len(p)
<1>1. /\ p \in Seq(S) /\ x \in S /\ n \in Nat /\ Len(q) = n + 1 /\ x = q[1]
      /\ \A i \in 1 .. n : p[i] = q[i + 1]
      /\ n = 0 => p = <<>>
  <2>1. p \in Seq(S) /\ x \in S /\ n \in Nat /\ Len(q) = n + 1 /\ x = q[1]
    OBVIOUS
  <2>2. \A i \in 1 .. n : p[i] = q[i + 1]
    OBVIOUS
  <2>3. n = 0 => p = <<>>
    BY <2>1, EmptySeq
  <2> QED BY <2>1, <2>2, <2>3
<1>2. \A i \in 1 .. n : i + 1 \in 1 .. n + 1 /\ i + 1 # 1
  BY <1>1
<1>3. 1 \in 1 .. n + 1
  BY <1>1
<1>4. \A i \in 1 .. n + 1 : i = 1 \/ (i - 1 \in 1 .. n /\ (i - 1) + 1 = i)
  BY <1>1
<1> HIDE DEF p, x, n
<1>5. \A type : Has(p, type) => Has(q, type)
  BY <1>1, <1>2 DEF Has, n
<1>6. \A type : Has(q, type) => Has(p, type) \/ x.type = type
  <2> SUFFICES ASSUME NEW type, NEW i \in 1 .. n + 1, q[i].type = type, x.type # type
               PROVE  Has(p, type)
    BY <1>1 DEF Has
  <2>1. i - 1 \in 1 .. n /\ (i - 1) + 1 = i
    BY <1>1, <1>4
  <2>2. p[i - 1].type = type
    BY <1>1, <2>1
  <2> QED BY <2>1, <2>2 DEF Has, n
<1>7. Has(q, x.type)
  BY <1>1, <1>3 DEF Has, n
<1>8. \A type : Once(q, type) => Once(p, type)
  <2> SUFFICES ASSUME NEW type, Once(q, type), NEW i \in 1 .. n, NEW j \in 1 .. n,
                      p[i].type = type, p[j].type = type
               PROVE  i = j
    BY DEF Once, n
  <2>1. i + 1 = j + 1
    BY <1>1, <1>2 DEF Once, n
  <2> QED BY <1>1, <2>1
<1>9. Once(q, x.type) => ~Has(p, x.type)
  BY <1>1, <1>2, <1>3 DEF Once, Has, n
<1>10. ASSUME DownLast(q) PROVE DownLast(p) /\ (x.type = "DOWN" => p = <<>>)
  <2>1. DownLast(p)
    <3> SUFFICES ASSUME NEW i \in 1 .. n, p[i].type = "DOWN" PROVE i = n
      BY DEF DownLast, n
    <3>1. i + 1 = n + 1
      BY <1>1, <1>2, <1>10 DEF DownLast, n
    <3> QED BY <1>1, <3>1
  <2>2. x.type = "DOWN" => n + 1 = 1
    BY <1>1, <1>3, <1>10 DEF DownLast, n
  <2> QED BY <1>1, <2>1, <2>2
<1>11. ASSUME RegisteredFirst(q)
       PROVE  RegisteredFirst(p) /\ (x.type = "TICK" => ~Has(q, "REGISTERED"))
  <2>1. RegisteredFirst(p)
    <3> SUFFICES ASSUME NEW i \in 1 .. n, NEW j \in 1 .. n,
                        p[i].type = "REGISTERED", p[j].type = "TICK"
                 PROVE  i < j
      BY DEF RegisteredFirst, n
    <3>1. i + 1 < j + 1
      BY <1>1, <1>2, <1>11 DEF RegisteredFirst, n
    <3> QED BY <1>1, <3>1
  <2>2. ASSUME x.type = "TICK", NEW i \in 1 .. Len(q), q[i].type = "REGISTERED" PROVE FALSE
    <3>1. i < 1
      BY <1>1, <1>3, <1>11, <2>2 DEF RegisteredFirst, n
    <3> QED BY <1>1, <3>1
  <2> QED BY <2>1, <2>2 DEF Has
<1>12. \A c : SyncIs(q, c) => SyncIs(p, c) /\ (x.type = "REGISTERED" => x.cycle = c)
  BY <1>1, <1>2, <1>3 DEF SyncIs, n
<1> QED BY <1>1, <1>5, <1>6, <1>7, <1>8, <1>9, <1>10, <1>11, <1>12 DEF p, x

\* A connection that breaks delivers the beginning of a queue and then its end.
LEMMA Broken ==
  ASSUME NEW S, NEW q \in Seq(S), NEW kept \in Nat, Down \in S, ~Has(q, "DOWN")
  PROVE  LET p == Cut(q, kept)
         IN /\ p \in Seq(S) /\ p # <<>> /\ Has(p, "DOWN") /\ DownLast(p)
            /\ \A type : Has(p, type) => Has(q, type) \/ type = "DOWN"
            /\ \A type : Once(q, type) /\ type # "DOWN" => Once(p, type)
            /\ RegisteredFirst(q) =>
                 /\ RegisteredFirst(p)
                 /\ Has(p, "TICK") /\ Has(q, "REGISTERED") => Has(p, "REGISTERED")
            /\ \A c : SyncIs(q, c) => SyncIs(p, c)
<1> DEFINE k == IF kept < Len(q) THEN kept ELSE Len(q)
           b == SubSeq(q, 1, k)
<1>1. k \in Nat /\ k \in 0 .. Len(q) /\ Len(q) \in Nat
  OBVIOUS
<1>2. b \in Seq(S) /\ Len(b) = k /\ \A i \in 1 .. k : b[i] = q[i] /\ i \in 1 .. Len(q)
  <2> HIDE DEF k
  <2> QED BY <1>1
<1>3. Cut(q, kept) = Append(b, Down)
  BY DEF Cut
<1> HIDE DEF k, b
<1>4. \A type : Has(b, type) => Has(q, type)
  BY <1>2 DEF Has
<1>5. \A type : Once(q, type) => Once(b, type)
  BY <1>2 DEF Once
<1>6. \A c : SyncIs(q, c) => SyncIs(b, c)
  BY <1>2 DEF SyncIs
<1>7. RegisteredFirst(q) =>
        RegisteredFirst(b) /\ (Has(b, "TICK") /\ Has(q, "REGISTERED") => Has(b, "REGISTERED"))
  <2> SUFFICES ASSUME RegisteredFirst(q)
               PROVE  /\ RegisteredFirst(b)
                      /\ Has(b, "TICK") /\ Has(q, "REGISTERED") => Has(b, "REGISTERED")
    OBVIOUS
  <2>1. RegisteredFirst(b)
    BY <1>2 DEF RegisteredFirst
  <2>2. ASSUME NEW j \in 1 .. k, b[j].type = "TICK", NEW i \in 1 .. Len(q),
               q[i].type = "REGISTERED"
        PROVE  Has(b, "REGISTERED")
    <3>1. i < j
      BY <1>2, <2>2 DEF RegisteredFirst
    <3>2. i \in 1 .. k
      BY <1>1, <3>1
    <3> QED BY <1>2, <2>2, <3>2 DEF Has
  <2> QED BY <1>2, <2>1, <2>2 DEF Has
<1>8. Down.type = "DOWN"
  BY MessageTypes
<1>9. ~Has(b, "DOWN")
  BY <1>4
<1> QED BY <1>2, <1>3, <1>4, <1>5, <1>6, <1>7, <1>8, <1>9, Sent

--------------------------------------------------------------------------------
\* The link of a service to the mirror service of its machine.

\* s plays the tick of a mirror service in state r: its TICK is on its way, s is at it,
\* or its TOCK is on its way back.
Playing(r, s) ==
  s \in r.Services /\ r.State = "ExpectingLocalTocks" /\ s \notin r.TockedServices

\* The cycle s is at when it has read its sync.
Due(r, o) == r.GameCycle - IF Has(o, "TICK") THEN 1 ELSE 0

\* q is what s has sent to its mirror service, in state r.
InLink(s, r, q) ==
  /\ DownLast(q) /\ (Has(q, "DOWN") => s \notin svcLinked)
  /\ Once(q, "REGISTER") /\ Once(q, "TOCK")
  /\ Has(q, "REGISTER") => s \notin r.Services
  /\ Has(q, "TOCK") => Playing(r, s)
  /\ s \in svcUp \ svcLinked => q = <<>>
  /\ s \notin svcLinked /\ (q # <<>> \/ s \in r.Services) => Has(q, "DOWN")
  /\ s \in svcLinked => s \in svcUp /\ Home[s] \in msUp

\* o is what the mirror service has sent to s.
OutLink(s, r, q, o) ==
  /\ DownLast(o) /\ RegisteredFirst(o) /\ Once(o, "TICK") /\ Once(o, "REGISTERED")
  /\ s \notin svcUp => o = <<>> /\ s \notin svcSynced
  /\ s \notin svcLinked /\ (o # <<>> \/ s \in svcSynced) => Has(o, "DOWN")
  /\ Has(o, "REGISTERED") => s \notin svcSynced
  /\ Has(o, "TICK") => s \in svcSynced \/ Has(o, "REGISTERED")
  /\ s \in svcLinked =>
       /\ ~Has(o, "DOWN")
       /\ Has(o, "TICK") => Playing(r, s) /\ ~Has(q, "TOCK")
       /\ s \in svcSynced \/ Has(o, "REGISTERED") <=> s \in r.Services /\ r.Syncd
       /\ s \in svcSynced => svcCycle[s] = Due(r, o)
       /\ SyncIs(o, Due(r, o))

Links(s, r, q, o) == InLink(s, r, q) /\ OutLink(s, r, q, o)
ServiceLinks == \A s \in Services : Links(s, ms[Home[s]], fromSvc[s], toSvc[s])
ShardInv == MasterInv /\ ServiceLinks

\* The automaton only ends a tick that no service plays any more.
LEMMA MovedServiceLink ==
  ASSUME NEW m \in Hosts, NEW s \in Services, NEW r, NEW q, NEW o, Links(s, r, q, o), Moved(m, r)
  PROVE  Links(s, ms'[m], q, o)
<1>1. /\ ms'[m].Syncd = r.Syncd /\ ms'[m].GameCycle = r.GameCycle
      /\ ms'[m].Services = r.Services
  BY DEF Moved
<1>2. Playing(r, s) => Playing(ms'[m], s)
  BY <1>1 DEF Playing, Moved
<1>3. Due(r, o) = Due(ms'[m], o)
  BY <1>1 DEF Due
<1> QED BY <1>1, <1>2, <1>3, Zenon DEF Links, InLink, OutLink

\* The automaton keeps the link to TICKS.
LEMMA MovedMasterLink ==
  ASSUME NEW m \in Hosts, NEW r \in MSRecord, Sound(m, r), Moved(m, r), m \in msUp, NEW o,
         toTicks \in [Hosts -> Seq(FromHosts)],
         Link(m, r, GameCycle, ClientInfos[m], toTicks[m], o)
  PROVE  Link(m, ms'[m], GameCycle, ClientInfos[m], toTicks'[m], o)
<1>1. CASE ms'[m].State = r.State /\ ms'[m].TockedServices = r.TockedServices /\ toTicks' = toTicks
  BY <1>1 DEF Moved, Link, Opened
<1>2. CASE /\ r.State = "ExpectingLocalTocks" /\ r.Services \subseteq r.TockedServices
           /\ ms'[m].State = "ExpectingMasterTick"
           /\ toTicks' = IF m \in msLinked THEN [toTicks EXCEPT ![m] = Append(@, Tock)] ELSE toTicks
  <2>1. CASE m \notin msLinked
    BY <1>2, <2>1 DEF Moved, Link
  <2>2. CASE m \in msLinked
    <3>1. toTicks'[m] = Append(toTicks[m], Tock)
      BY <1>2, <2>2
    <3>2. r.Syncd
      BY <1>2 DEF Sound
    <3>3. Link(m, ms'[m], GameCycle, ClientInfos[m], toTicks'[m], o)
      <4>1. /\ toTicks[m] = <<>> /\ o = <<>> /\ ClientInfos[m].Registered
            /\ ~ClientInfos[m].TockReceived /\ r.GameCycle = GameCycle
        BY <1>2, <2>2, <3>2 DEF Link, Opened
      <4>2. toTicks'[m] = <<Tock>>
        BY <3>1, <4>1, ShortQueues
      <4> QED BY <1>2, <2>2, <3>2, <4>1, <4>2 DEF Moved, Link, Opened
    <3> QED BY <3>3
  <2> QED BY <2>1, <2>2
<1> QED BY <1>1, <1>2 DEF Moved

LEMMA MovedTypes ==
  ASSUME NEW m \in Hosts, NEW r, Moved(m, r), toTicks \in [Hosts -> Seq(FromHosts)]
  PROVE  /\ toTicks' \in [Hosts -> Seq(FromHosts)]
         /\ \A h \in Hosts \ {m} : toTicks'[h] = toTicks[h]
<1>1. Tock \in FromHosts
  BY DEF FromHosts
<1>2. Append(toTicks[m], Tock) \in Seq(FromHosts)
  BY <1>1
<1>3. [toTicks EXCEPT ![m] = Append(@, Tock)] \in [Hosts -> Seq(FromHosts)]
  BY <1>2
<1> QED BY <1>3 DEF Moved

\* A handler of m has left m in state r and the queues of its services with their links,
\* and then let the automaton go on.
Handled(m, r, out) ==
  /\ m \in msUp /\ r \in MSRecord /\ Sound(m, r) /\ Moved(m, r)
  /\ out \in [Hosts -> Seq(ToHosts)] /\ toHost' = out
  /\ Link(m, r, GameCycle, ClientInfos[m], toTicks[m], out[m])
  /\ \A h \in Hosts \ {m} : out[h] = toHost[h]
  /\ peer' \in [Pairs -> Seq(Between)]
  /\ fromSvc' \in [Services -> Seq(FromServices)] /\ toSvc' \in [Services -> Seq(ToServices)]
  /\ \A s \in Services \ Local(m) : fromSvc'[s] = fromSvc[s] /\ toSvc'[s] = toSvc[s]
  /\ \A s \in Local(m) : Links(s, r, fromSvc'[s], toSvc'[s])
  /\ UNCHANGED <<ticksState, msUp, msLinked, svcLinked, svcVars>>

LEMMA HandlerKeeps ==
  ASSUME ShardInv, NEW m \in Hosts, NEW r, NEW out, Handled(m, r, out)
  PROVE  ShardInv'
<1> USE DEF Handled
<1>1. /\ Types /\ Control /\ MasterLinks /\ ServiceLinks
      /\ \A h \in Hosts : Sound(h, ms[h])
      /\ toTicks \in [Hosts -> Seq(FromHosts)]
      /\ ms' \in [Hosts -> MSRecord] /\ Sound(m, ms'[m])
      /\ \A h \in Hosts \ {m} : ms'[h] = ms[h]
  BY DEF ShardInv, MasterInv, Types, TicksTypes, Moved
<1>2. /\ toTicks' \in [Hosts -> Seq(FromHosts)]
      /\ \A h \in Hosts \ {m} : toTicks'[h] = toTicks[h]
  BY <1>1, MovedTypes
<1>3. Types'
  BY <1>1, <1>2 DEF Types, TicksTypes, MSTypes, ServiceTypes, ticksState, svcVars
<1>4. Control'
  BY <1>1 DEF Control, ticksState, ticksControl
<1>5. MasterLinks'
  <2> SUFFICES ASSUME NEW h \in Hosts
               PROVE  Link(h, ms'[h], GameCycle, ClientInfos[h], toTicks'[h], out[h])
    BY DEF MasterLinks, Link, ticksState
  <2>1. CASE h = m
    <3>1. Link(m, ms'[m], GameCycle, ClientInfos[m], toTicks'[m], out[m])
      BY <1>1, MovedMasterLink
    <3> QED BY <2>1, <3>1
  <2>2. CASE h # m
    BY <1>1, <1>2, <2>2 DEF MasterLinks
  <2> QED BY <2>1, <2>2
<1>6. (\A h \in Hosts : Sound(h, ms[h]))'
  <2>1. \A h \in Hosts : Sound(h, ms'[h])
    BY <1>1, Zenon
  <2> QED BY <2>1 DEF Sound
<1>7. ServiceLinks'
  <2> SUFFICES ASSUME NEW s \in Services
               PROVE  Links(s, ms'[Home[s]], fromSvc'[s], toSvc'[s])
    BY DEF ServiceLinks, Links, InLink, OutLink, svcVars
  <2>1. CASE Home[s] = m
    BY <2>1, MovedServiceLink DEF Local
  <2>2. CASE Home[s] # m
    BY <1>1, <2>2, HomeAssumption DEF ServiceLinks, Local
  <2> QED BY <2>1, <2>2
<1> QED BY <1>3, <1>4, <1>5, <1>6, <1>7 DEF ShardInv, MasterInv

--------------------------------------------------------------------------------
\* The handlers of a mirror service.

LEMMA ServiceReads ==
  ASSUME Types, NEW s \in Services, NEW type, ServiceHas(s, type)
  PROVE  /\ fromSvc[s] \in Seq(FromServices) /\ fromSvc[s] # <<>>
         /\ Head(fromSvc[s]).type = type /\ Home[s] \in msUp
         /\ [fromSvc EXCEPT ![s] = Tail(@)] \in [Services -> Seq(FromServices)]
         /\ [fromSvc EXCEPT ![s] = Tail(@)][s] = Tail(fromSvc[s])
         /\ \A t \in Services \ {s} : [fromSvc EXCEPT ![s] = Tail(@)][t] = fromSvc[t]
<1>1. fromSvc[s] \in Seq(FromServices) /\ fromSvc[s] # <<>>
  BY DEF Types, ServiceTypes, ServiceHas
<1>2. Tail(fromSvc[s]) \in Seq(FromServices)
  BY <1>1, HeadTailProperties
<1> QED BY <1>1, <1>2 DEF Types, ServiceTypes, ServiceHas

LEMMA SentTo ==
  ASSUME Types, NEW S, NEW msg \in ToServices
  PROVE  /\ SendTo(toSvc, S, msg) \in [Services -> Seq(ToServices)]
         /\ \A s \in Services :
              SendTo(toSvc, S, msg)[s] =
                IF s \in S \cap svcLinked THEN Append(toSvc[s], msg) ELSE toSvc[s]
<1>1. toSvc \in [Services -> Seq(ToServices)] /\ DOMAIN toSvc = Services
  BY DEF Types, ServiceTypes
<1>2. \A s \in Services : Append(toSvc[s], msg) \in Seq(ToServices) /\ toSvc[s] \in Seq(ToServices)
  BY <1>1
<1> QED BY <1>1, <1>2 DEF SendTo

\* A link only depends on what the service sees of its mirror service.
LEMMA SameView ==
  ASSUME NEW s, NEW r, NEW r2, NEW q, NEW o, Links(s, r, q, o),
         s \in r2.Services <=> s \in r.Services, Playing(r2, s) <=> Playing(r, s),
         r2.Syncd = r.Syncd, r2.GameCycle = r.GameCycle
  PROVE  Links(s, r2, q, o)
<1>1. Due(r, o) = Due(r2, o)
  BY DEF Due
<1> QED BY <1>1, Zenon DEF Links, InLink, OutLink

\* A message that is no part of the ticks is read or sent.
LEMMA OtherRead ==
  ASSUME NEW s, NEW r, NEW q \in Seq(FromServices), NEW o, Links(s, r, q, o), q # <<>>,
         Head(q).type \notin {"REGISTER", "TOCK", "DOWN"}
  PROVE  Links(s, r, Tail(q), o)
<1> DEFINE p == Tail(q)
<1>1. /\ \A type : Has(p, type) => Has(q, type)
      /\ Has(q, "DOWN") => Has(p, "DOWN")
      /\ \A type : Once(q, type) => Once(p, type)
      /\ DownLast(q) => DownLast(p)
  BY Read
<1>2. s \notin svcLinked => Has(q, "DOWN")
  BY DEF Links, InLink
<1>3. s \in svcUp \ svcLinked => FALSE
  BY DEF Links, InLink
<1> HIDE DEF p
<1> QED BY <1>1, <1>2, <1>3 DEF Links, InLink, OutLink, p

LEMMA OtherSent ==
  ASSUME NEW s \in svcLinked, NEW r, NEW q, NEW o \in Seq(ToServices), Links(s, r, q, o),
         NEW msg \in ToServices, msg.type \notin {"REGISTERED", "TICK", "DOWN"}
  PROVE  Links(s, r, q, Append(o, msg))
<1> DEFINE p == Append(o, msg)
<1>1. /\ ~Has(o, "DOWN") => DownLast(p) /\ ~Has(p, "DOWN")
      /\ Has(p, "TICK") <=> Has(o, "TICK")
      /\ Has(p, "REGISTERED") <=> Has(o, "REGISTERED")
      /\ RegisteredFirst(o) => RegisteredFirst(p)
      /\ Once(o, "TICK") => Once(p, "TICK")
      /\ Once(o, "REGISTERED") => Once(p, "REGISTERED")
      /\ \A c : SyncIs(o, c) => SyncIs(p, c)
  BY Sent
<1>2. Due(r, p) = Due(r, o)
  BY <1>1 DEF Due
<1>3. s \in svcUp
  BY DEF Links, InLink
<1> HIDE DEF p
<1> QED BY <1>1, <1>2, <1>3 DEF Links, OutLink, p

\* A handler that does not call the automaton.
LEMMA Unmoved ==
  ASSUME NEW m \in Hosts, ms \in [Hosts -> MSRecord], NEW r \in MSRecord, Sound(m, r),
         ms' = [ms EXCEPT ![m] = r], UNCHANGED toTicks
  PROVE  Moved(m, r)
BY DEF Moved

\* What the invariant says of one mirror service and its services.
LEMMA OneOf ==
  ASSUME ShardInv, NEW m \in Hosts
  PROVE  /\ Types /\ ms \in [Hosts -> MSRecord] /\ ms[m] \in MSRecord /\ Sound(m, ms[m])
         /\ Link(m, ms[m], GameCycle, ClientInfos[m], toTicks[m], toHost[m])
         /\ toHost \in [Hosts -> Seq(ToHosts)] /\ toTicks \in [Hosts -> Seq(FromHosts)]
         /\ peer \in [Pairs -> Seq(Between)]
         /\ fromSvc \in [Services -> Seq(FromServices)] /\ toSvc \in [Services -> Seq(ToServices)]
         /\ \A s \in Services : Home[s] = m => Links(s, ms[m], fromSvc[s], toSvc[s])
BY DEF ShardInv, MasterInv, MasterLinks, ServiceLinks, Types, MSTypes, TicksTypes, ServiceTypes

\* Only the tick proxy's own fields matter to the link to TICKS.
LEMMA SameLink ==
  ASSUME NEW m \in msUp, NEW r, NEW r2, NEW c, NEW i, NEW o, Link(m, r, GameCycle, c, i, o),
         r2.State = r.State, r2.Syncd = r.Syncd, r2.GameCycle = r.GameCycle
  PROVE  Link(m, r2, GameCycle, c, i, o)
BY DEF Link, Opened

\* The records of the handlers.
WithTocks(a, k, T) == [a EXCEPT !.NbTocked = k, !.TockedServices = T]

LEMMA WithTocksType ==
  ASSUME NEW a \in MSRecord, NEW k \in Int, NEW T \in SUBSET Services
  PROVE  LET r == WithTocks(a, k, T)
         IN /\ r \in MSRecord /\ r.NbTocked = k /\ r.TockedServices = T
            /\ r.Services = a.Services /\ r.State = a.State /\ r.Syncd = a.Syncd
            /\ r.GameCycle = a.GameCycle /\ r.DeltaSent = a.DeltaSent
            /\ r.ClientServices = a.ClientServices /\ r.RemoteMSList = a.RemoteMSList
            /\ r.NbExpected = a.NbExpected
            /\ r.RemoteMSToWaitForDelta = a.RemoteMSToWaitForDelta
BY DEF MSRecord, WithTocks

LEMMA TocksRecord ==
  ASSUME NEW a \in MSRecord, NEW s \in Services
  PROVE  LET r == ReceiveTock(a, s)
         IN /\ r \in MSRecord /\ r.NbTocked = a.NbTocked + 1
            /\ r.TockedServices = a.TockedServices \cup {s}
            /\ r.Services = a.Services /\ r.State = a.State /\ r.Syncd = a.Syncd
            /\ r.GameCycle = a.GameCycle /\ r.DeltaSent = a.DeltaSent
            /\ r.ClientServices = a.ClientServices /\ r.RemoteMSList = a.RemoteMSList
            /\ r.NbExpected = a.NbExpected
            /\ r.RemoteMSToWaitForDelta = a.RemoteMSToWaitForDelta
<1>1. ReceiveTock(a, s) = WithTocks(a, a.NbTocked + 1, a.TockedServices \cup {s})
  BY DEF ReceiveTock, WithTocks
<1>2. a.NbTocked + 1 \in Int /\ a.TockedServices \cup {s} \in SUBSET Services
  BY DEF MSRecord
<1> QED BY <1>1, <1>2, WithTocksType

LEMMA OneMore ==
  ASSUME NEW X, IsFiniteSet(X), NEW s, s \notin X, NEW n, n = Cardinality(X)
  PROVE  n + 1 = Cardinality(X \cup {s})
BY FS_AddElement

LEMMA OneLess ==
  ASSUME NEW X, IsFiniteSet(X), NEW s, NEW n, n = Cardinality(X)
  PROVE  (IF s \in X THEN n - 1 ELSE n) = Cardinality(X \ {s})
BY FS_RemoveElement

LEMMA AddServiceRecord ==
  ASSUME NEW m \in Hosts, ms[m] \in MSRecord, Sound(m, ms[m]), NEW s \in Services, Home[s] = m,
         s \notin ms[m].Services
  PROVE  LET r == AddService(m, s)
         IN /\ r \in MSRecord /\ Sound(m, r) /\ r.Services = ms[m].Services \cup {s}
            /\ r.State = ms[m].State /\ r.Syncd = ms[m].Syncd /\ r.GameCycle = ms[m].GameCycle
            /\ r.TockedServices = ms[m].TockedServices
                 \cup IF r.State = "ExpectingLocalTocks" THEN {s} ELSE {}
<1> DEFINE a == [ms[m] EXCEPT !.Services = @ \cup {s}]
           r == AddService(m, s)
<1>1. /\ a \in MSRecord /\ a.Services = ms[m].Services \cup {s} /\ a.State = ms[m].State
      /\ a.Syncd = ms[m].Syncd /\ a.GameCycle = ms[m].GameCycle
      /\ a.TockedServices = ms[m].TockedServices /\ a.NbTocked = ms[m].NbTocked
      /\ a.DeltaSent = ms[m].DeltaSent /\ a.ClientServices = ms[m].ClientServices
      /\ a.RemoteMSList = ms[m].RemoteMSList /\ a.NbExpected = ms[m].NbExpected
      /\ a.RemoteMSToWaitForDelta = ms[m].RemoteMSToWaitForDelta
  BY DEF MSRecord
<1>2. a.Services \subseteq Local(m) /\ IsFiniteSet(a.Services)
  BY <1>1, FS_AddElement DEF Sound, Local
<1> HIDE DEF a
<1>3. CASE a.State = "ExpectingLocalTocks"
  <2>1. r = ReceiveTock(a, s)
    BY <1>3 DEF AddService, a
  <2>2. a.NbTocked \in Int
    BY <1>1 DEF MSRecord
  <2>3. /\ r \in MSRecord /\ r.NbTocked = a.NbTocked + 1
        /\ r.TockedServices = a.TockedServices \cup {s} /\ r.Services = a.Services
        /\ r.State = a.State /\ r.Syncd = a.Syncd /\ r.GameCycle = a.GameCycle
        /\ r.DeltaSent = a.DeltaSent /\ r.ClientServices = a.ClientServices
        /\ r.RemoteMSList = a.RemoteMSList /\ r.NbExpected = a.NbExpected
        /\ r.RemoteMSToWaitForDelta = a.RemoteMSToWaitForDelta
    BY <1>1, <2>1, TocksRecord
  <2>4. r.TockedServices \cap r.Services = (ms[m].TockedServices \cap ms[m].Services) \cup {s}
    BY <1>1, <2>3
  <2>5. r.NbTocked = Cardinality(r.TockedServices \cap r.Services)
    <3>1. /\ IsFiniteSet(ms[m].TockedServices \cap ms[m].Services)
          /\ s \notin ms[m].TockedServices \cap ms[m].Services
      BY FS_Subset DEF Sound
    <3>2. ms[m].NbTocked = Cardinality(ms[m].TockedServices \cap ms[m].Services)
      BY DEF Sound
    <3>3. ms[m].NbTocked + 1
            = Cardinality((ms[m].TockedServices \cap ms[m].Services) \cup {s})
      BY <3>1, <3>2, OneMore, Zenon
    <3> QED BY <1>1, <2>3, <2>4, <3>3
  <2> HIDE DEF r
  <2>6. Sound(m, r)
    BY <1>1, <1>2, <1>3, <2>3, <2>5 DEF Sound
  <2> QED BY <1>1, <1>3, <2>3, <2>6 DEF r
<1>4. CASE a.State # "ExpectingLocalTocks"
  <2>1. r = a
    BY <1>4 DEF AddService, a
  <2>2. a.State = "ExpectingMasterTick"
    BY <1>1, <1>4 DEF MSRecord
  <2>3. a.TockedServices = {} /\ a.TockedServices \cap a.Services = {} /\ ~a.DeltaSent
          /\ ms[m].TockedServices \cap ms[m].Services = {}
    BY <1>1, <2>2 DEF Sound
  <2>4. Sound(m, a)
    BY <1>1, <1>2, <2>2, <2>3 DEF Sound
  <2> QED BY <1>1, <2>1, <2>2, <2>4
<1> QED BY <1>3, <1>4

LEMMA ReceiveTockRecord ==
  ASSUME NEW m \in Hosts, NEW a \in MSRecord, Sound(m, a), NEW s \in Services, Playing(a, s)
  PROVE  LET r == ReceiveTock(a, s)
         IN /\ r \in MSRecord /\ Sound(m, r) /\ r.Services = a.Services
            /\ r.State = a.State /\ r.Syncd = a.Syncd /\ r.GameCycle = a.GameCycle
            /\ r.TockedServices = a.TockedServices \cup {s}
<1> DEFINE r == ReceiveTock(a, s)
<1>3. /\ r \in MSRecord /\ r.NbTocked = a.NbTocked + 1
      /\ r.TockedServices = a.TockedServices \cup {s} /\ r.Services = a.Services
      /\ r.State = a.State /\ r.Syncd = a.Syncd /\ r.GameCycle = a.GameCycle
      /\ r.DeltaSent = a.DeltaSent /\ r.ClientServices = a.ClientServices
      /\ r.RemoteMSList = a.RemoteMSList /\ r.NbExpected = a.NbExpected
      /\ r.RemoteMSToWaitForDelta = a.RemoteMSToWaitForDelta
  BY TocksRecord
<1> HIDE DEF r
<1>4. /\ r.TockedServices \cap r.Services = (a.TockedServices \cap a.Services) \cup {s}
      /\ IsFiniteSet(a.TockedServices \cap a.Services) /\ s \notin a.TockedServices \cap a.Services
  BY <1>3, FS_Subset DEF Sound, Playing
<1>5. r.NbTocked = Cardinality(r.TockedServices \cap r.Services)
  <2>1. a.NbTocked = Cardinality(a.TockedServices \cap a.Services)
    BY DEF Sound
  <2>2. a.NbTocked + 1 = Cardinality((a.TockedServices \cap a.Services) \cup {s})
    BY <1>4, <2>1, OneMore, Zenon
  <2> QED BY <1>3, <1>4, <2>2
<1>6. Sound(m, r)
  BY <1>3, <1>5 DEF Sound, Playing
<1> QED BY <1>3, <1>6 DEF r

\* The record that is left when s is gone, both for the mirror and the tick proxy.
Left(r, s) ==
  LET c == NoLongerClient(r, s) IN IF s \in c.Services THEN RemoveService(c, s) ELSE c

LEMMA LeftRecord ==
  ASSUME NEW m \in Hosts, NEW a \in MSRecord, Sound(m, a), NEW s \in Services
  PROVE  LET r == Left(a, s)
         IN /\ r \in MSRecord /\ Sound(m, r) /\ r.Services = a.Services \ {s}
            /\ r.State = a.State /\ r.Syncd = a.Syncd /\ r.GameCycle = a.GameCycle
            /\ r.TockedServices = a.TockedServices
<1> DEFINE c == NoLongerClient(a, s)
           r == Left(a, s)
<1>1. /\ c \in MSRecord /\ c.Services = a.Services /\ c.State = a.State
      /\ c.Syncd = a.Syncd /\ c.GameCycle = a.GameCycle /\ c.NbTocked = a.NbTocked
      /\ c.TockedServices = a.TockedServices /\ c.DeltaSent = a.DeltaSent
      /\ c.ClientServices = a.ClientServices \ {s} /\ c.RemoteMSList = a.RemoteMSList
      /\ c.NbExpected = a.NbExpected /\ c.RemoteMSToWaitForDelta = a.RemoteMSToWaitForDelta
  <2> DEFINE acks == [a.NbExpectedATAcknowledges EXCEPT ![s] = IF s \in a.ClientServices THEN 0 ELSE @]
  <2>1. acks \in [Services -> Nat]
    BY DEF MSRecord
  <2>2. c = [a EXCEPT !.ClientServices = a.ClientServices \ {s}, !.NbExpectedATAcknowledges = acks]
    BY DEF NoLongerClient, MSRecord
  <2>3. a.ClientServices \ {s} \in SUBSET Services
    BY DEF MSRecord
  <2> HIDE DEF acks, c
  <2> QED BY <2>1, <2>2, <2>3 DEF MSRecord
<1> HIDE DEF c
<1>2. /\ IsFiniteSet(a.ClientServices \ {s}) /\ IsFiniteSet(a.Services \ {s})
      /\ IsFiniteSet(a.TockedServices \cap a.Services)
  BY FS_RemoveElement, FS_Subset DEF Sound
<1>3. CASE s \in c.Services
  <2> DEFINE n == IF s \in c.TockedServices /\ c.State = "ExpectingLocalTocks"
                  THEN c.NbTocked - 1 ELSE c.NbTocked
  <2>1. r = [c EXCEPT !.Services = c.Services \ {s}, !.NbTocked = n]
    BY <1>3 DEF Left, RemoveService, c
  <2>2. n \in Int /\ c.Services \ {s} \in SUBSET Services
    BY <1>1 DEF MSRecord
  <2> HIDE DEF n, r
  <2>3. /\ r \in MSRecord /\ r.Services = c.Services \ {s} /\ r.State = c.State
        /\ r.Syncd = c.Syncd /\ r.GameCycle = c.GameCycle /\ r.NbTocked = n
        /\ r.TockedServices = c.TockedServices /\ r.DeltaSent = c.DeltaSent
        /\ r.ClientServices = c.ClientServices /\ r.RemoteMSList = c.RemoteMSList
        /\ r.NbExpected = c.NbExpected /\ r.RemoteMSToWaitForDelta = c.RemoteMSToWaitForDelta
    BY <1>1, <2>1, <2>2 DEF MSRecord
  <2>4. r.TockedServices \cap r.Services = (a.TockedServices \cap a.Services) \ {s}
    BY <1>1, <2>3
  <2>5. r.NbTocked = Cardinality(r.TockedServices \cap r.Services)
    <3>1. a.State = "ExpectingLocalTocks" \/ s \notin a.TockedServices
      BY DEF Sound, MSRecord
    <3>2. n = IF s \in a.TockedServices \cap a.Services THEN a.NbTocked - 1 ELSE a.NbTocked
      BY <1>1, <1>3, <3>1 DEF n
    <3>3. a.NbTocked = Cardinality(a.TockedServices \cap a.Services)
      BY DEF Sound
    <3>4. n = Cardinality((a.TockedServices \cap a.Services) \ {s})
      BY <1>2, <3>2, <3>3, OneLess, Zenon
    <3> QED BY <2>3, <2>4, <3>4
  <2>6. Sound(m, r)
    BY <1>1, <1>2, <2>3, <2>5 DEF Sound
  <2> QED BY <1>1, <2>3, <2>6 DEF r
<1>4. CASE s \notin c.Services
  <2>1. r = c
    BY <1>4 DEF Left, c
  <2>2. a.Services \ {s} = a.Services
    BY <1>1, <1>4
  <2>3. Sound(m, c)
    BY <1>1, <1>2 DEF Sound
  <2> QED BY <1>1, <2>1, <2>2, <2>3
<1> QED BY <1>3, <1>4

\* A handler that may call the automaton when it has computed r.
Goes(m, r, net) ==
  \/ DoNextTask(m, r, net)
  \/ ms' = [ms EXCEPT ![m] = r] /\ peer' = net /\ UNCHANGED toTicks

LEMMA GoesMoves ==
  ASSUME NEW m \in Hosts, ms \in [Hosts -> MSRecord], NEW r \in MSRecord, Sound(m, r),
         NEW net \in [Pairs -> Seq(Between)], Goes(m, r, net)
  PROVE  Moved(m, r) /\ peer' \in [Pairs -> Seq(Between)]
BY NextTask, Unmoved DEF Goes

\* The handler of a message of s that leaves its mirror service in state r.
LEMMA ServiceHandlerKeeps ==
  ASSUME ShardInv, NEW s \in Services, NEW m \in Hosts, NEW type,
         ServiceHas(s, type), m = Home[s],
         NEW r \in MSRecord, Sound(m, r),
         r.State = ms[m].State, r.Syncd = ms[m].Syncd, r.GameCycle = ms[m].GameCycle,
         Goes(m, r, peer), fromSvc' = [fromSvc EXCEPT ![s] = Tail(@)],
         toSvc' \in [Services -> Seq(ToServices)],
         \A t \in Services \ Local(m) : toSvc'[t] = toSvc[t],
         \A t \in Services \ {s} : Home[t] = m => Links(t, r, fromSvc[t], toSvc'[t]),
         Links(s, r, Tail(fromSvc[s]), toSvc'[s]),
         UNCHANGED <<ticksState, toHost, msUp, msLinked, svcLinked, svcVars>>
  PROVE  ShardInv'
<1>1. /\ Types /\ ms \in [Hosts -> MSRecord] /\ toHost \in [Hosts -> Seq(ToHosts)]
      /\ peer \in [Pairs -> Seq(Between)]
      /\ Link(m, ms[m], GameCycle, ClientInfos[m], toTicks[m], toHost[m])
  BY OneOf
<1>2. /\ m \in msUp /\ fromSvc' \in [Services -> Seq(FromServices)]
      /\ fromSvc'[s] = Tail(fromSvc[s])
      /\ \A t \in Services \ {s} : fromSvc'[t] = fromSvc[t]
  BY <1>1, ServiceReads
<1>3. Moved(m, r) /\ peer' \in [Pairs -> Seq(Between)]
  BY <1>1, GoesMoves
<1>4. Link(m, r, GameCycle, ClientInfos[m], toTicks[m], toHost[m])
  BY <1>1, <1>2, SameLink
<1>5. \A t \in Services \ Local(m) : fromSvc'[t] = fromSvc[t] /\ toSvc'[t] = toSvc[t]
  BY <1>2 DEF Local
<1>6. \A t \in Local(m) : Links(t, r, fromSvc'[t], toSvc'[t])
  BY <1>2 DEF Local
<1>7. Handled(m, r, toHost)
  BY <1>1, <1>2, <1>3, <1>4, <1>5, <1>6 DEF Handled
<1> QED BY <1>7, HandlerKeeps

\* A registration gives s a place in the tick and, when there is one, the cycle.
LEMMA RegistrationLink ==
  ASSUME ShardInv, NEW s \in Services, NEW m \in Hosts, CbRegisterToTickSystem(m, s)
  PROVE  /\ s \notin ms[m].Services
         /\ Links(s, AddService(m, s), Tail(fromSvc[s]), toSvc'[s])
         /\ \A t \in Services \ {s} : toSvc'[t] = toSvc[t]
         /\ toSvc' \in [Services -> Seq(ToServices)]
<1> DEFINE r == AddService(m, s)
           q == fromSvc[s]
           o == toSvc[s]
           p == Tail(q)
           v == toSvc'[s]
           msg == Registered(ms[m].GameCycle)
<1>1. /\ Types /\ ms[m] \in MSRecord /\ Sound(m, ms[m]) /\ Links(s, ms[m], q, o)
      /\ q \in Seq(FromServices) /\ o \in Seq(ToServices) /\ q # <<>> /\ Head(q).type = "REGISTER"
      /\ m = Home[s] /\ toSvc \in [Services -> Seq(ToServices)]
  BY OneOf DEF CbRegisterToTickSystem, ServiceHas
<1>2. /\ Has(q, "REGISTER") /\ ~Has(p, "REGISTER") /\ DownLast(p) /\ Once(p, "REGISTER")
      /\ Once(p, "TOCK") /\ (Has(p, "TOCK") => Has(q, "TOCK"))
      /\ Has(p, "DOWN") <=> Has(q, "DOWN")
  BY <1>1, Read DEF Links, InLink
<1>3. s \notin ms[m].Services /\ ~Playing(ms[m], s)
  BY <1>1, <1>2 DEF Links, InLink, Playing
<1>4. /\ r.Services = ms[m].Services \cup {s} /\ r.Syncd = ms[m].Syncd
      /\ r.GameCycle = ms[m].GameCycle
  BY <1>1, <1>3, AddServiceRecord
<1>5. msg \in ToServices /\ msg.type = "REGISTERED" /\ msg.cycle = ms[m].GameCycle
  BY <1>1, MessageTypes DEF MSRecord, ToServices
<1>6. /\ v = IF ms[m].Syncd /\ s \in svcLinked THEN Append(o, msg) ELSE o
      /\ toSvc' \in [Services -> Seq(ToServices)]
      /\ \A t \in Services \ {s} : toSvc'[t] = toSvc[t]
  BY <1>1, <1>5, SentTo DEF CbRegisterToTickSystem
<1> HIDE DEF r, q, o, p, v, msg
<1>7. InLink(s, r, p)
  <2>1. s \notin svcLinked => Has(p, "DOWN")
    BY <1>1, <1>2 DEF Links, InLink
  <2>2. ~Has(p, "TOCK")
    BY <1>1, <1>2, <1>3 DEF Links, InLink
  <2>3. s \in svcUp \ svcLinked => FALSE
    BY <1>1 DEF Links, InLink
  <2> QED BY <1>1, <1>2, <2>1, <2>2, <2>3 DEF Links, InLink
<1>8. OutLink(s, r, p, v)
  <2>1. CASE s \notin svcLinked
    BY <1>1, <1>6, <2>1 DEF Links, OutLink
  <2>2. CASE s \in svcLinked
    <3>1. /\ ~Has(o, "DOWN") /\ ~Has(o, "TICK") /\ s \notin svcSynced /\ ~Has(o, "REGISTERED")
          /\ s \in svcUp
      BY <1>1, <1>3, <2>2 DEF Links, OutLink, InLink
    <3>2. CASE ~ms[m].Syncd
      BY <1>1, <1>4, <1>6, <2>2, <3>1, <3>2, NoSync DEF Links, OutLink
    <3>3. CASE ms[m].Syncd
      <4>1. v = Append(o, msg)
        BY <1>6, <2>2, <3>3
      <4>2. /\ DownLast(v) /\ ~Has(v, "DOWN") /\ ~Has(v, "TICK") /\ Has(v, "REGISTERED")
            /\ RegisteredFirst(v) /\ Once(v, "TICK") /\ Once(v, "REGISTERED")
            /\ SyncIs(v, ms[m].GameCycle)
        <5>1. /\ RegisteredFirst(o) /\ Once(o, "TICK") /\ Once(o, "REGISTERED")
              /\ SyncIs(o, ms[m].GameCycle)
          BY <1>1, <3>1, NoSync DEF Links, OutLink
        <5> QED BY <1>1, <1>5, <3>1, <4>1, <5>1, Sent
      <4>3. Due(r, v) = ms[m].GameCycle
        <5>1. ms[m].GameCycle \in Nat
          BY <1>1 DEF MSRecord
        <5> QED BY <1>4, <4>2, <5>1 DEF Due
      <4> QED BY <1>4, <2>2, <3>1, <3>3, <4>2, <4>3 DEF OutLink
    <3> QED BY <3>2, <3>3
  <2> QED BY <2>1, <2>2
<1> QED BY <1>3, <1>6, <1>7, <1>8 DEF Links, r, p, q, v

LEMMA CbRegisterToTickSystemKeeps ==
  ASSUME ShardInv, NEW s \in Services, NEW m \in Hosts, CbRegisterToTickSystem(m, s),
         UNCHANGED svcVars
  PROVE  ShardInv'
<1> DEFINE r == AddService(m, s)
<1>1. /\ Types /\ ms[m] \in MSRecord /\ Sound(m, ms[m]) /\ m = Home[s] /\ ServiceHas(s, "REGISTER")
      /\ \A t \in Services : Home[t] = m => Links(t, ms[m], fromSvc[t], toSvc[t])
  BY OneOf DEF CbRegisterToTickSystem
<1>2. /\ s \notin ms[m].Services
      /\ Links(s, r, Tail(fromSvc[s]), toSvc'[s])
      /\ \A t \in Services \ {s} : toSvc'[t] = toSvc[t]
      /\ toSvc' \in [Services -> Seq(ToServices)]
  BY RegistrationLink
<1>3. /\ r \in MSRecord /\ Sound(m, r) /\ r.Services = ms[m].Services \cup {s}
      /\ r.State = ms[m].State /\ r.Syncd = ms[m].Syncd /\ r.GameCycle = ms[m].GameCycle
      /\ r.TockedServices = ms[m].TockedServices
           \cup IF r.State = "ExpectingLocalTocks" THEN {s} ELSE {}
  BY <1>1, <1>2, AddServiceRecord
<1>4. /\ Goes(m, r, peer) /\ fromSvc' = [fromSvc EXCEPT ![s] = Tail(@)]
      /\ UNCHANGED <<ticksState, toHost, msUp, msLinked, svcLinked, svcVars>>
  BY DEF Goes, CbRegisterToTickSystem
<1> HIDE DEF r
<1>5. ASSUME NEW t \in Services \ {s}, Home[t] = m
      PROVE  Links(t, r, fromSvc[t], toSvc'[t])
  <2>1. (t \in r.Services <=> t \in ms[m].Services) /\ (Playing(r, t) <=> Playing(ms[m], t))
    BY <1>3 DEF Playing
  <2> QED BY <1>1, <1>2, <1>3, <1>5, <2>1, SameView
<1>6. \A t \in Services \ Local(m) : toSvc'[t] = toSvc[t]
  BY <1>1, <1>2 DEF Local
<1>7. \A t \in Services \ {s} : Home[t] = m => Links(t, r, fromSvc[t], toSvc'[t])
  BY <1>5
<1>8. /\ ServiceHas(s, "REGISTER") /\ m = Home[s] /\ r \in MSRecord /\ Sound(m, r)
      /\ r.State = ms[m].State /\ r.Syncd = ms[m].Syncd /\ r.GameCycle = ms[m].GameCycle
      /\ Links(s, r, Tail(fromSvc[s]), toSvc'[s]) /\ toSvc' \in [Services -> Seq(ToServices)]
  BY <1>1, <1>2, <1>3
<1> QED BY <1>4, <1>6, <1>7, <1>8, ServiceHandlerKeeps

LEMMA CbClientTockKeeps ==
  ASSUME ShardInv, NEW s \in Services, NEW m \in Hosts, CbClientTock(m, s), UNCHANGED svcVars
  PROVE  ShardInv'
<1> DEFINE r == ReceiveTock(ms[m], s)
           q == fromSvc[s]
           o == toSvc[s]
           p == Tail(q)
<1>1. /\ Types /\ ms[m] \in MSRecord /\ Sound(m, ms[m]) /\ m = Home[s] /\ ServiceHas(s, "TOCK")
      /\ \A t \in Services : Home[t] = m => Links(t, ms[m], fromSvc[t], toSvc[t])
      /\ q \in Seq(FromServices) /\ q # <<>> /\ Head(q).type = "TOCK"
      /\ toSvc \in [Services -> Seq(ToServices)]
  BY OneOf DEF CbClientTock, ServiceHas
<1>2. Links(s, ms[m], q, o)
  BY <1>1
<1>3. /\ Has(q, "TOCK") /\ ~Has(p, "TOCK") /\ DownLast(p) /\ Once(p, "REGISTER")
      /\ Once(p, "TOCK") /\ (Has(p, "REGISTER") => Has(q, "REGISTER"))
      /\ Has(p, "DOWN") <=> Has(q, "DOWN")
  BY <1>1, <1>2, Read DEF Links, InLink
<1>4. Playing(ms[m], s)
  BY <1>2, <1>3 DEF Links, InLink
<1>5. /\ r \in MSRecord /\ Sound(m, r) /\ r.Services = ms[m].Services
      /\ r.State = ms[m].State /\ r.Syncd = ms[m].Syncd /\ r.GameCycle = ms[m].GameCycle
      /\ r.TockedServices = ms[m].TockedServices \cup {s}
  BY <1>1, <1>4, ReceiveTockRecord
<1>6. /\ Goes(m, r, peer) /\ fromSvc' = [fromSvc EXCEPT ![s] = Tail(@)] /\ toSvc' = toSvc
      /\ UNCHANGED <<ticksState, toHost, msUp, msLinked, svcLinked, svcVars>>
  BY DEF Goes, CbClientTock
<1> HIDE DEF r, q, o, p
<1>7. Links(s, r, p, o)
  <2>1. InLink(s, r, p)
    <3>1. s \notin svcLinked => Has(p, "DOWN")
      BY <1>1, <1>2, <1>3 DEF Links, InLink
    <3>2. ~Has(p, "REGISTER")
      BY <1>2, <1>3, <1>4 DEF Links, InLink, Playing
    <3>3. s \in svcUp \ svcLinked => FALSE
      BY <1>1, <1>2 DEF Links, InLink
    <3> QED BY <1>2, <1>3, <3>1, <3>2, <3>3 DEF Links, InLink
  <2>2. OutLink(s, r, p, o)
    <3>1. s \in svcLinked => ~Has(o, "TICK")
      BY <1>2, <1>3 DEF Links, OutLink
    <3>2. Due(r, o) = Due(ms[m], o)
      BY <1>5 DEF Due
    <3> QED BY <1>2, <1>5, <3>1, <3>2 DEF Links, OutLink
  <2> QED BY <2>1, <2>2 DEF Links
<1>8. ASSUME NEW t \in Services \ {s}, Home[t] = m
      PROVE  Links(t, r, fromSvc[t], toSvc'[t])
  <2>1. (t \in r.Services <=> t \in ms[m].Services) /\ (Playing(r, t) <=> Playing(ms[m], t))
    BY <1>5 DEF Playing
  <2> QED BY <1>1, <1>5, <1>6, <1>8, <2>1, SameView
<1> QED BY <1>1, <1>5, <1>6, <1>7, <1>8, ServiceHandlerKeeps DEF q, o, p

LEMMA CbServiceDownKeeps ==
  ASSUME ShardInv, NEW s \in Services, NEW m \in Hosts, CbServiceDown(m, s), UNCHANGED svcVars
  PROVE  ShardInv'
<1> DEFINE r == Left(ms[m], s)
           q == fromSvc[s]
           o == toSvc[s]
<1>1. /\ Types /\ ms[m] \in MSRecord /\ Sound(m, ms[m]) /\ m = Home[s] /\ ServiceHas(s, "DOWN")
      /\ \A t \in Services : Home[t] = m => Links(t, ms[m], fromSvc[t], toSvc[t])
      /\ q \in Seq(FromServices) /\ q # <<>> /\ Head(q).type = "DOWN"
      /\ toSvc \in [Services -> Seq(ToServices)]
  BY OneOf DEF CbServiceDown, ServiceHas
<1>2. Links(s, ms[m], q, o)
  BY <1>1
<1>3. Has(q, "DOWN") /\ Tail(q) = <<>>
  BY <1>1, <1>2, Read DEF Links, InLink
<1>4. s \notin svcLinked
  BY <1>2, <1>3 DEF Links, InLink
<1>5. /\ r \in MSRecord /\ Sound(m, r) /\ r.Services = ms[m].Services \ {s}
      /\ r.State = ms[m].State /\ r.Syncd = ms[m].Syncd /\ r.GameCycle = ms[m].GameCycle
      /\ r.TockedServices = ms[m].TockedServices
  BY <1>1, LeftRecord
<1>6. /\ Goes(m, r, peer) /\ fromSvc' = [fromSvc EXCEPT ![s] = Tail(@)] /\ toSvc' = toSvc
      /\ UNCHANGED <<ticksState, toHost, msUp, msLinked, svcLinked, svcVars>>
  BY DEF Goes, CbServiceDown, Left
<1> HIDE DEF r, q, o
<1>7. Links(s, r, <<>>, o)
  BY <1>2, <1>4, <1>5, EmptyQueue DEF Links, InLink, OutLink
<1>8. ASSUME NEW t \in Services \ {s}, Home[t] = m
      PROVE  Links(t, r, fromSvc[t], toSvc'[t])
  <2>1. (t \in r.Services <=> t \in ms[m].Services) /\ (Playing(r, t) <=> Playing(ms[m], t))
    BY <1>5 DEF Playing
  <2> QED BY <1>1, <1>5, <1>6, <1>8, <2>1, SameView
<1>9. \A t \in Services \ {s} : Home[t] = m => Links(t, r, fromSvc[t], toSvc'[t])
  BY <1>8
<1>10. /\ Links(s, r, Tail(fromSvc[s]), toSvc'[s]) /\ toSvc' \in [Services -> Seq(ToServices)]
       /\ \A t \in Services \ Local(m) : toSvc'[t] = toSvc[t]
  BY <1>1, <1>3, <1>6, <1>7 DEF q, o
<1> QED BY <1>1, <1>5, <1>6, <1>9, <1>10, ServiceHandlerKeeps

\* A message of s that is no part of the ticks, and what its mirror service makes of it.
LEMMA OtherHandlerKeeps ==
  ASSUME ShardInv, NEW s \in Services, NEW m \in Hosts, NEW type,
         ServiceHas(s, type), m = Home[s], type \notin {"REGISTER", "TOCK", "DOWN"},
         NEW r \in MSRecord, Sound(m, r), r.Services = ms[m].Services,
         r.State = ms[m].State, r.Syncd = ms[m].Syncd, r.GameCycle = ms[m].GameCycle,
         r.TockedServices = ms[m].TockedServices,
         Goes(m, r, peer), fromSvc' = [fromSvc EXCEPT ![s] = Tail(@)],
         toSvc' \in [Services -> Seq(ToServices)],
         \A t \in Services \ Local(m) : toSvc'[t] = toSvc[t],
         \A t \in Local(m) :
           \/ toSvc'[t] = toSvc[t]
           \/ t \in svcLinked /\ \E nb \in Nat : toSvc'[t] = Append(toSvc[t], AddTrackers(nb)),
         UNCHANGED <<ticksState, toHost, msUp, msLinked, svcLinked, svcVars>>
  PROVE  ShardInv'
<1>1. /\ Types /\ fromSvc \in [Services -> Seq(FromServices)]
      /\ toSvc \in [Services -> Seq(ToServices)]
      /\ \A t \in Services : Home[t] = m => Links(t, ms[m], fromSvc[t], toSvc[t])
  BY OneOf
<1>2. ASSUME NEW t \in Services, Home[t] = m, NEW q, Links(t, ms[m], q, toSvc[t])
      PROVE  Links(t, r, q, toSvc'[t])
  <2>1. Links(t, ms[m], q, toSvc'[t])
    <3>1. t \in Local(m) /\ toSvc[t] \in Seq(ToServices)
      BY <1>1, <1>2 DEF Local
    <3>2. CASE toSvc'[t] = toSvc[t]
      BY <1>2, <3>2
    <3>3. ASSUME t \in svcLinked, NEW nb \in Nat, toSvc'[t] = Append(toSvc[t], AddTrackers(nb))
          PROVE  Links(t, ms[m], q, toSvc'[t])
      <4>1. AddTrackers(nb) \in ToServices /\ AddTrackers(nb).type = "ATE"
        BY MessageTypes DEF ToServices
      <4>2. AddTrackers(nb).type \notin {"REGISTERED", "TICK", "DOWN"}
        BY <4>1
      <4> QED BY <1>2, <3>1, <3>3, <4>1, <4>2, OtherSent
    <3> QED BY <3>1, <3>2, <3>3
  <2>2. (t \in r.Services <=> t \in ms[m].Services) /\ (Playing(r, t) <=> Playing(ms[m], t))
    BY DEF Playing
  <2> QED BY <2>1, <2>2, SameView
<1>3. Links(s, ms[m], Tail(fromSvc[s]), toSvc[s])
  <2>1. /\ fromSvc[s] \in Seq(FromServices) /\ fromSvc[s] # <<>>
        /\ Head(fromSvc[s]).type \notin {"REGISTER", "TOCK", "DOWN"}
        /\ Links(s, ms[m], fromSvc[s], toSvc[s])
    BY <1>1 DEF ServiceHas
  <2> QED BY <2>1, OtherRead
<1>4. Links(s, r, Tail(fromSvc[s]), toSvc'[s])
  BY <1>2, <1>3
<1>5. \A t \in Services \ {s} : Home[t] = m => Links(t, r, fromSvc[t], toSvc'[t])
  BY <1>1, <1>2
<1> QED BY <1>4, <1>5, ServiceHandlerKeeps

LEMMA DeclareDataSetsKeeps ==
  ASSUME ShardInv, NEW s \in Services, NEW m \in Hosts, DeclareDataSets(m, s), UNCHANGED svcVars
  PROVE  ShardInv'
<1> DEFINE others == ms[m].ClientServices \ {s}
           clients == others \cup {s}
           acks == [c \in Services |-> ms[m].NbExpectedATAcknowledges[c]
                      + (IF c = s THEN Cardinality(clients) ELSE IF c \in others THEN 1 ELSE 0)]
           r == [ms[m] EXCEPT !.ClientServices = clients, !.NbExpectedATAcknowledges = acks]
<1>1. /\ Types /\ ms \in [Hosts -> MSRecord] /\ ms[m] \in MSRecord /\ Sound(m, ms[m])
      /\ m = Home[s] /\ ServiceHas(s, "DATASETS") /\ toSvc \in [Services -> Seq(ToServices)]
  BY OneOf DEF DeclareDataSets
<1>2. /\ clients \in SUBSET Local(m) /\ IsFiniteSet(clients) /\ others \subseteq Local(m)
      /\ Cardinality(clients) \in Nat
  <2>1. IsFiniteSet(others)
    BY <1>1, FS_RemoveElement DEF Sound
  <2>2. IsFiniteSet(clients)
    BY <2>1, FS_AddElement
  <2> QED BY <1>1, <2>2, FS_CardinalityType DEF Sound, Local
<1>3. acks \in [Services -> Nat]
  <2>1. ms[m].NbExpectedATAcknowledges \in [Services -> Nat]
    BY <1>1 DEF MSRecord
  <2> HIDE DEF clients, others
  <2> QED BY <1>2, <2>1
<1>4. /\ ms' = [ms EXCEPT ![m] = r] /\ peer' = peer /\ UNCHANGED toTicks
      /\ fromSvc' = [fromSvc EXCEPT ![s] = Tail(@)]
      /\ toSvc' = SendTo(SendTo(toSvc, others, AddTrackers(1)), {s},
                         AddTrackers(Cardinality(clients)))
      /\ UNCHANGED <<ticksState, toHost, msUp, msLinked, svcLinked, svcVars>>
  BY <1>1 DEF DeclareDataSets
<1> HIDE DEF clients, acks
<1>5. /\ r \in MSRecord /\ r.Services = ms[m].Services /\ r.TockedServices = ms[m].TockedServices
      /\ r.State = ms[m].State /\ r.Syncd = ms[m].Syncd /\ r.GameCycle = ms[m].GameCycle
      /\ Sound(m, r)
  <2>1. clients \in SUBSET Services
    BY <1>2 DEF Local
  <2> QED BY <1>1, <1>2, <1>3, <2>1 DEF Sound, MSRecord
<1> HIDE DEF r
<1>6. Goes(m, r, peer)
  BY <1>4 DEF Goes
<1>7. /\ toSvc' \in [Services -> Seq(ToServices)]
      /\ \A t \in Services : toSvc'[t] =
           IF t \in svcLinked /\ t = s THEN Append(toSvc[t], AddTrackers(Cardinality(clients)))
           ELSE IF t \in svcLinked /\ t \in others THEN Append(toSvc[t], AddTrackers(1)) ELSE toSvc[t]
  <2> DEFINE x == AddTrackers(1)
             y == AddTrackers(Cardinality(clients))
             a == SendTo(toSvc, others, x)
  <2>1. x \in ToServices /\ y \in ToServices
    BY <1>2, MessageTypes DEF ToServices
  <2> HIDE DEF x, y, others
  <2>2. /\ a \in [Services -> Seq(ToServices)]
        /\ \A t \in Services :
             a[t] = IF t \in others \cap svcLinked THEN Append(toSvc[t], x) ELSE toSvc[t]
    BY <1>1, <2>1, SentTo
  <2>3. \A t \in Services : Append(a[t], y) \in Seq(ToServices) /\ a[t] \in Seq(ToServices)
    BY <2>1, <2>2
  <2>4. /\ SendTo(a, {s}, y) \in [Services -> Seq(ToServices)]
        /\ \A t \in Services :
             SendTo(a, {s}, y)[t] = IF t \in {s} \cap svcLinked THEN Append(a[t], y) ELSE a[t]
    <3> HIDE DEF a
    <3>1. DOMAIN a = Services
      BY <2>2
    <3> QED BY <2>3, <3>1 DEF SendTo
  <2>5. toSvc' = SendTo(a, {s}, y)
    BY <1>4 DEF x, y
  <2>6. s \notin others
    BY DEF others
  <2> HIDE DEF a
  <2> QED BY <2>2, <2>4, <2>5, <2>6 DEF x, y
<1>8. \A t \in Services \ Local(m) : toSvc'[t] = toSvc[t]
  <2>1. s \in Local(m)
    BY <1>1 DEF Local
  <2> QED BY <1>2, <1>7, <2>1
<1>9. \A t \in Local(m) :
        \/ toSvc'[t] = toSvc[t]
        \/ t \in svcLinked /\ \E nb \in Nat : toSvc'[t] = Append(toSvc[t], AddTrackers(nb))
  <2>1. \A t \in Local(m) : t \in Services
    BY DEF Local
  <2> QED BY <1>2, <1>7, <2>1
<1>10. "DATASETS" \notin {"REGISTER", "TOCK", "DOWN"}
  OBVIOUS
<1> QED BY <1>1, <1>4, <1>5, <1>6, <1>7, <1>8, <1>9, <1>10, OtherHandlerKeeps

LEMMA CbForwardACKATEKeeps ==
  ASSUME ShardInv, NEW s \in Services, NEW m \in Hosts, CbForwardACKATE(m, s), UNCHANGED svcVars
  PROVE  ShardInv'
<1> DEFINE n == IF ms[m].NbExpectedATAcknowledges[s] > 0
                THEN ms[m].NbExpectedATAcknowledges[s] - 1 ELSE 0
           acks == [ms[m].NbExpectedATAcknowledges EXCEPT ![s] = n]
           a == [ms[m] EXCEPT !.NbExpectedATAcknowledges = acks]
           b == [a EXCEPT !.BlockedAwaitingATAck = FALSE]
<1>1. /\ Types /\ ms \in [Hosts -> MSRecord] /\ ms[m] \in MSRecord /\ Sound(m, ms[m])
      /\ m = Home[s] /\ ServiceHas(s, "FWD_ACKATE") /\ toSvc \in [Services -> Seq(ToServices)]
  BY OneOf DEF CbForwardACKATE
<1>2. acks \in [Services -> Nat]
  <2>1. ms[m].NbExpectedATAcknowledges \in [Services -> Nat]
    BY <1>1 DEF MSRecord
  <2>2. n \in Nat
    BY <2>1
  <2> HIDE DEF n
  <2> QED BY <2>1, <2>2
<1>3. /\ Goes(m, a, peer) \/ Goes(m, b, peer)
      /\ fromSvc' = [fromSvc EXCEPT ![s] = Tail(@)] /\ toSvc' = toSvc
      /\ UNCHANGED <<ticksState, toHost, msUp, msLinked, svcLinked, svcVars>>
  <2>1. ms[m].NbExpectedATAcknowledges \in [Services -> Nat]
    BY <1>1 DEF MSRecord
  <2>2. [ms[m] EXCEPT !.NbExpectedATAcknowledges[s] = IF @ > 0 THEN @ - 1 ELSE 0] = a
    BY <1>1, <2>1
  <2> HIDE DEF a
  <2> QED BY <2>2 DEF CbForwardACKATE, Goes
<1> HIDE DEF acks
<1>4. ASSUME NEW r, r \in {a, b}
      PROVE  /\ r \in MSRecord /\ r.Services = ms[m].Services
             /\ r.TockedServices = ms[m].TockedServices
             /\ r.State = ms[m].State /\ r.Syncd = ms[m].Syncd /\ r.GameCycle = ms[m].GameCycle
             /\ Sound(m, r)
  <2>1. CASE r = a
    <3> HIDE DEF b
    <3> QED BY <1>1, <1>2, <2>1 DEF Sound, MSRecord
  <2>2. CASE r = b
    <3>1. b = [ms[m] EXCEPT !.NbExpectedATAcknowledges = acks, !.BlockedAwaitingATAck = FALSE]
      OBVIOUS
    <3> HIDE DEF b
    <3> QED BY <1>1, <1>2, <2>2, <3>1 DEF Sound, MSRecord
  <2> QED BY <1>4, <2>1, <2>2
<1> HIDE DEF a, b
<1>5. PICK r \in {a, b} : Goes(m, r, peer)
  BY <1>3
<1>6. /\ \A t \in Services \ Local(m) : toSvc'[t] = toSvc[t]
      /\ \A t \in Local(m) :
           \/ toSvc'[t] = toSvc[t]
           \/ t \in svcLinked /\ \E nb \in Nat : toSvc'[t] = Append(toSvc[t], AddTrackers(nb))
      /\ toSvc' \in [Services -> Seq(ToServices)]
      /\ "FWD_ACKATE" \notin {"REGISTER", "TOCK", "DOWN"}
  BY <1>1, <1>3
<1> QED BY <1>1, <1>3, <1>4, <1>5, <1>6, OtherHandlerKeeps

\* A handler of m that leaves the queues of its services and what the ticks see of it.
LEMMA PeerHandlerKeeps ==
  ASSUME ShardInv, NEW m \in Hosts, m \in msUp,
         NEW r \in MSRecord, Sound(m, r), r.Services = ms[m].Services,
         r.State = ms[m].State, r.Syncd = ms[m].Syncd, r.GameCycle = ms[m].GameCycle,
         r.TockedServices = ms[m].TockedServices,
         NEW net \in [Pairs -> Seq(Between)], Goes(m, r, net),
         UNCHANGED <<ticksState, toHost, fromSvc, toSvc, msUp, msLinked, svcLinked, svcVars>>
  PROVE  ShardInv'
<1>1. /\ Types /\ ms \in [Hosts -> MSRecord] /\ toHost \in [Hosts -> Seq(ToHosts)]
      /\ Link(m, ms[m], GameCycle, ClientInfos[m], toTicks[m], toHost[m])
      /\ fromSvc \in [Services -> Seq(FromServices)]
      /\ toSvc \in [Services -> Seq(ToServices)]
      /\ \A t \in Services : Home[t] = m => Links(t, ms[m], fromSvc[t], toSvc[t])
  BY OneOf
<1>2. Moved(m, r) /\ peer' \in [Pairs -> Seq(Between)]
  BY <1>1, GoesMoves
<1>3. Link(m, r, GameCycle, ClientInfos[m], toTicks[m], toHost[m])
  BY <1>1, SameLink
<1>4. /\ toHost' = toHost /\ fromSvc' = fromSvc /\ toSvc' = toSvc
      /\ UNCHANGED <<ticksState, msUp, msLinked, svcLinked, svcVars>>
  OBVIOUS
<1>5. \A s \in Services \ Local(m) : fromSvc'[s] = fromSvc[s] /\ toSvc'[s] = toSvc[s]
  BY <1>4
<1>6. ASSUME NEW t \in Services, Home[t] = m
      PROVE  Links(t, r, fromSvc'[t], toSvc'[t])
  <2>1. (t \in r.Services <=> t \in ms[m].Services) /\ (Playing(r, t) <=> Playing(ms[m], t))
    BY DEF Playing
  <2> QED BY <1>1, <1>4, <1>6, <2>1, SameView
<1>7. \A t \in Local(m) : Links(t, r, fromSvc'[t], toSvc'[t])
  BY <1>6 DEF Local
<1>8. Handled(m, r, toHost)
  BY <1>1, <1>2, <1>3, <1>4, <1>5, <1>7 DEF Handled
<1> QED BY <1>8, HandlerKeeps

LEMMA PeerReads ==
  ASSUME ShardInv, NEW m \in Hosts, NEW n \in Hosts \ {m}, NEW type, PeerHas(n, m, type)
  PROVE  /\ Types /\ ms \in [Hosts -> MSRecord] /\ ms[m] \in MSRecord /\ Sound(m, ms[m])
         /\ m \in msUp /\ Rest(n, m) \in [Pairs -> Seq(Between)]
         /\ Head(peer[<<n, m>>]) \in Between /\ Head(peer[<<n, m>>]).type = type
<1>1. /\ Types /\ ms \in [Hosts -> MSRecord] /\ ms[m] \in MSRecord /\ Sound(m, ms[m])
      /\ peer \in [Pairs -> Seq(Between)] /\ <<n, m>> \in Pairs
  BY OneOf DEF Pairs
<1>2. peer[<<n, m>>] \in Seq(Between) /\ peer[<<n, m>>] # <<>>
  BY <1>1 DEF PeerHas
<1>3. Tail(peer[<<n, m>>]) \in Seq(Between) /\ Head(peer[<<n, m>>]) \in Between
  BY <1>2, HeadTailProperties
<1> QED BY <1>1, <1>3 DEF PeerHas, Rest

LEMMA AddRemoteMSKeeps ==
  ASSUME ShardInv, NEW m \in Hosts, NEW n \in Hosts \ {m}, AddRemoteMS(n, m), UNCHANGED svcVars
  PROVE  ShardInv'
<1> DEFINE r == [ms[m] EXCEPT !.RemoteMSList = @ \cup {n}]
<1>1. /\ Types /\ ms \in [Hosts -> MSRecord] /\ ms[m] \in MSRecord /\ Sound(m, ms[m])
      /\ m \in msUp /\ Rest(n, m) \in [Pairs -> Seq(Between)]
  BY PeerReads DEF AddRemoteMS
<1>2. /\ r \in MSRecord /\ Sound(m, r) /\ r.Services = ms[m].Services
      /\ r.State = ms[m].State /\ r.Syncd = ms[m].Syncd /\ r.GameCycle = ms[m].GameCycle
      /\ r.TockedServices = ms[m].TockedServices
  BY <1>1 DEF Sound, MSRecord
<1>3. /\ Goes(m, r, Rest(n, m))
      /\ UNCHANGED <<ticksState, toHost, fromSvc, toSvc, msUp, msLinked, svcLinked, svcVars>>
  BY <1>1 DEF Goes, AddRemoteMS
<1> HIDE DEF r
<1> QED BY <1>1, <1>2, <1>3, PeerHandlerKeeps

\* What the handlers of the other mirror services' messages do to a record.
LEMMA StoreDeltaRecord ==
  ASSUME NEW m \in Hosts, NEW n \in Hosts \ {m}, NEW a \in MSRecord, Sound(m, a),
         NEW msg \in [type : {"DELTA"}, waitForIt : BOOLEAN, cycle : Nat]
  PROVE  LET r == StoreDelta(a, n, msg)
         IN /\ r \in MSRecord /\ Sound(m, r) /\ r.Services = a.Services
            /\ r.State = a.State /\ r.Syncd = a.Syncd /\ r.GameCycle = a.GameCycle
            /\ r.TockedServices = a.TockedServices
<1> DEFINE isNew == msg.waitForIt /\ n \notin a.RemoteMSToWaitForDelta
           waited == IF isNew THEN a.RemoteMSToWaitForDelta \cup {n}
                              ELSE a.RemoteMSToWaitForDelta
           k == IF isNew THEN a.NbExpected + 1 ELSE a.NbExpected
           pending == a.PendingDeltas \cup {<<n, msg.cycle>>}
           r == StoreDelta(a, n, msg)
<1>1. r = [a EXCEPT !.PendingDeltas = pending, !.RemoteMSToWaitForDelta = waited, !.NbExpected = k]
  BY DEF StoreDelta
<1>2. /\ waited \subseteq Hosts \ {m} /\ IsFiniteSet(waited) /\ k = Cardinality(waited)
  <2>1. /\ IsFiniteSet(a.RemoteMSToWaitForDelta)
        /\ a.NbExpected = Cardinality(a.RemoteMSToWaitForDelta)
        /\ a.RemoteMSToWaitForDelta \subseteq Hosts \ {m}
    BY DEF Sound
  <2>2. CASE isNew
    <3>1. /\ a.NbExpected + 1 = Cardinality(a.RemoteMSToWaitForDelta \cup {n})
          /\ IsFiniteSet(a.RemoteMSToWaitForDelta \cup {n})
      BY <2>1, <2>2, OneMore, FS_AddElement
    <3> QED BY <2>1, <2>2, <3>1
  <2>3. CASE ~isNew
    BY <2>1, <2>3
  <2> QED BY <2>2, <2>3
<1>3. k \in Int /\ pending \in SUBSET (Hosts \X Nat) /\ waited \in SUBSET Hosts
  <2>1. k \in Int /\ pending \in SUBSET (Hosts \X Nat)
    BY DEF MSRecord
  <2> HIDE DEF waited
  <2> QED BY <1>2, <2>1
<1> HIDE DEF r, k, waited, pending, isNew
<1>4. /\ r \in MSRecord /\ r.Services = a.Services /\ r.NbTocked = a.NbTocked
      /\ r.State = a.State /\ r.Syncd = a.Syncd /\ r.GameCycle = a.GameCycle
      /\ r.TockedServices = a.TockedServices /\ r.DeltaSent = a.DeltaSent
      /\ r.ClientServices = a.ClientServices /\ r.RemoteMSList = a.RemoteMSList
      /\ r.RemoteMSToWaitForDelta = waited /\ r.NbExpected = k
  BY <1>1, <1>3 DEF MSRecord
<1>5. Sound(m, r)
  BY <1>2, <1>4 DEF Sound
<1> QED BY <1>4, <1>5 DEF r

LEMMA ReceiveDeltaFromRemoteMSKeeps ==
  ASSUME ShardInv, NEW m \in Hosts, NEW n \in Hosts \ {m}, ReceiveDeltaFromRemoteMS(n, m),
         UNCHANGED svcVars
  PROVE  ShardInv'
<1> DEFINE msg == Head(peer[<<n, m>>])
           a == StoreDelta(ms[m], n, msg)
           b == [a EXCEPT !.ReceivedBeforeSync = Append(@, msg.cycle)]
           c == [a EXCEPT !.NbReceived = @ + 1]
<1>1. /\ Types /\ ms \in [Hosts -> MSRecord] /\ ms[m] \in MSRecord /\ Sound(m, ms[m])
      /\ m \in msUp /\ Rest(n, m) \in [Pairs -> Seq(Between)]
      /\ msg \in Between /\ msg.type = "DELTA"
  BY PeerReads DEF ReceiveDeltaFromRemoteMS
<1>2. msg \in [type : {"DELTA"}, waitForIt : BOOLEAN, cycle : Nat] /\ msg.cycle \in Nat
  BY <1>1 DEF Between, Up, Down
<1>3. /\ UNCHANGED <<ticksState, toHost, fromSvc, toSvc, msUp, msLinked, svcLinked, svcVars>>
      /\ \E r \in {a, b, c} : Goes(m, r, Rest(n, m))
  BY <1>1 DEF Goes, ReceiveDeltaFromRemoteMS
<1> HIDE DEF msg
<1>4. /\ a \in MSRecord /\ Sound(m, a) /\ a.Services = ms[m].Services
      /\ a.State = ms[m].State /\ a.Syncd = ms[m].Syncd /\ a.GameCycle = ms[m].GameCycle
      /\ a.TockedServices = ms[m].TockedServices
  BY <1>1, <1>2, StoreDeltaRecord
<1> HIDE DEF a
<1>5. a.NbReceived + 1 \in Nat /\ Append(a.ReceivedBeforeSync, msg.cycle) \in Seq(Nat)
  BY <1>2, <1>4 DEF MSRecord
<1>6. /\ b \in MSRecord /\ Sound(m, b) /\ b.Services = ms[m].Services
      /\ b.State = ms[m].State /\ b.Syncd = ms[m].Syncd /\ b.GameCycle = ms[m].GameCycle
      /\ b.TockedServices = ms[m].TockedServices
  BY <1>4, <1>5 DEF Sound, MSRecord
<1>7. /\ c \in MSRecord /\ Sound(m, c) /\ c.Services = ms[m].Services
      /\ c.State = ms[m].State /\ c.Syncd = ms[m].Syncd /\ c.GameCycle = ms[m].GameCycle
      /\ c.TockedServices = ms[m].TockedServices
  BY <1>4, <1>5 DEF Sound, MSRecord
<1> HIDE DEF b, c
<1>8. PICK r \in {a, b, c} : Goes(m, r, Rest(n, m))
  BY <1>3
<1>9. /\ r \in MSRecord /\ Sound(m, r) /\ r.Services = ms[m].Services
      /\ r.State = ms[m].State /\ r.Syncd = ms[m].Syncd /\ r.GameCycle = ms[m].GameCycle
      /\ r.TockedServices = ms[m].TockedServices
  BY <1>4, <1>6, <1>7
<1> QED BY <1>1, <1>3, <1>8, <1>9, PeerHandlerKeeps

LEMMA RemoveRemoteMSKeeps ==
  ASSUME ShardInv, NEW m \in Hosts, NEW n \in Hosts \ {m}, RemoveRemoteMS(n, m), UNCHANGED svcVars
  PROVE  ShardInv'
<1> DEFINE a == ms[m]
           list == a.RemoteMSList \ {n}
           waited == a.RemoteMSToWaitForDelta \ {n}
           k == IF n \in a.RemoteMSToWaitForDelta THEN a.NbExpected - 1 ELSE a.NbExpected
           r == [a EXCEPT !.RemoteMSList = list, !.RemoteMSToWaitForDelta = waited, !.NbExpected = k]
<1>1. /\ Types /\ ms \in [Hosts -> MSRecord] /\ a \in MSRecord /\ Sound(m, a)
      /\ m \in msUp /\ Rest(n, m) \in [Pairs -> Seq(Between)]
  BY PeerReads DEF RemoveRemoteMS
<1>2. /\ Goes(m, r, Rest(n, m))
      /\ UNCHANGED <<ticksState, toHost, fromSvc, toSvc, msUp, msLinked, svcLinked, svcVars>>
  BY <1>1 DEF Goes, RemoveRemoteMS
<1> HIDE DEF a
<1>3. /\ list \in SUBSET Hosts /\ waited \subseteq Hosts \ {m} /\ IsFiniteSet(waited)
      /\ waited \in SUBSET Hosts /\ list \subseteq Hosts \ {m} /\ k = Cardinality(waited) /\ k \in Int
  <2>1. /\ IsFiniteSet(a.RemoteMSToWaitForDelta)
        /\ a.NbExpected = Cardinality(a.RemoteMSToWaitForDelta)
        /\ a.RemoteMSToWaitForDelta \subseteq Hosts \ {m} /\ a.RemoteMSList \subseteq Hosts \ {m}
    BY <1>1 DEF Sound
  <2>2. k = Cardinality(waited) /\ IsFiniteSet(waited)
    BY <2>1, OneLess, FS_RemoveElement
  <2>3. k \in Int
    BY <1>1 DEF MSRecord
  <2> QED BY <2>1, <2>2, <2>3
<1> HIDE DEF list, waited, k
<1>4. /\ r \in MSRecord /\ r.Services = a.Services /\ r.NbTocked = a.NbTocked
      /\ r.State = a.State /\ r.Syncd = a.Syncd /\ r.GameCycle = a.GameCycle
      /\ r.TockedServices = a.TockedServices /\ r.DeltaSent = a.DeltaSent
      /\ r.ClientServices = a.ClientServices /\ r.RemoteMSList = list
      /\ r.RemoteMSToWaitForDelta = waited /\ r.NbExpected = k
  BY <1>1, <1>3 DEF MSRecord
<1> HIDE DEF r
<1>5. Sound(m, r)
  BY <1>1, <1>3, <1>4 DEF Sound
<1> QED BY <1>1, <1>2, <1>4, <1>5, PeerHandlerKeeps DEF a

\* A message from TICKS.
LEMMA MasterReads ==
  ASSUME ShardInv, NEW m \in Hosts, NEW type, MasterHas(m, type)
  PROVE  /\ m \in msUp /\ m \in msLinked
         /\ toHost[m] # <<>> /\ Head(toHost[m]).type = type
         /\ [toHost EXCEPT ![m] = Tail(@)] \in [Hosts -> Seq(ToHosts)]
         /\ [toHost EXCEPT ![m] = Tail(@)][m] = Tail(toHost[m])
         /\ \A h \in Hosts \ {m} : [toHost EXCEPT ![m] = Tail(@)][h] = toHost[h]
         /\ Opened(ms[m], GameCycle, ClientInfos[m], toTicks[m], toHost[m])
<1>1. /\ toHost \in [Hosts -> Seq(ToHosts)]
      /\ Link(m, ms[m], GameCycle, ClientInfos[m], toTicks[m], toHost[m])
  BY OneOf
<1>2. m \in msUp /\ toHost[m] # <<>> /\ Head(toHost[m]).type = type /\ toHost[m] \in Seq(ToHosts)
  BY <1>1 DEF MasterHas
<1>3. m \in msLinked /\ Opened(ms[m], GameCycle, ClientInfos[m], toTicks[m], toHost[m])
  BY <1>1, <1>2 DEF Link
<1>4. Tail(toHost[m]) \in Seq(ToHosts)
  BY <1>2, HeadTailProperties
<1> QED BY <1>1, <1>2, <1>3, <1>4

LEMMA FirstToHost ==
  /\ Head(<<Tick>>).type = "TICK" /\ Tail(<<Tick>>) = <<>>
  /\ \A c : /\ Head(<<Registered(c)>>) = Registered(c) /\ Tail(<<Registered(c)>>) = <<>>
            /\ Head(<<Registered(c), Tick>>) = Registered(c)
            /\ Tail(<<Registered(c), Tick>>) = <<Tick>>
            /\ Registered(c).type = "REGISTERED" /\ Registered(c).cycle = c
<1>1. Head(<<Tick>>) = Tick /\ Tail(<<Tick>>) = <<>>
  BY ShortQueues, Zenon
<1>2. \A c : /\ Head(<<Registered(c)>>) = Registered(c) /\ Tail(<<Registered(c)>>) = <<>>
             /\ Head(<<Registered(c), Tick>>) = Registered(c)
             /\ Tail(<<Registered(c), Tick>>) = <<Tick>>
  BY ShortQueues, Zenon
<1> QED BY <1>1, <1>2, MessageTypes, Zenon

\* A TICK is alone on its way when it comes first.
LEMMA TickFirst ==
  ASSUME NEW r, NEW cycle, NEW c, NEW i, NEW o, Opened(r, cycle, c, i, o), o # <<>>,
         Head(o).type = "TICK"
  PROVE  /\ o = <<Tick>> /\ i = <<>> /\ c.Registered /\ ~c.TockReceived /\ r.Syncd
         /\ r.State = "ExpectingMasterTick" /\ r.GameCycle = cycle - 1
<1>1. "TICK" # "REGISTERED"
  OBVIOUS
<1>2. o # <<Registered(cycle)>> /\ o # <<Registered(cycle - 1), Tick>>
  <2>1. ASSUME o = <<Registered(cycle)>> PROVE FALSE
    <3>1. Head(o) = Registered(cycle) /\ Registered(cycle).type = "REGISTERED"
      BY <2>1, FirstToHost, Zenon
    <3> QED BY <1>1, <3>1
  <2>2. ASSUME o = <<Registered(cycle - 1), Tick>> PROVE FALSE
    <3>1. /\ Head(o) = Registered(cycle - 1)
          /\ Registered(cycle - 1).type = "REGISTERED"
      BY <2>2, FirstToHost, Zenon
    <3> QED BY <1>1, <3>1
  <2> QED BY <2>1, <2>2
<1> QED BY <1>2 DEF Opened

\* A message of TICKS that m hands on to its services.
LEMMA MasterHandlerKeeps ==
  ASSUME ShardInv, NEW m \in Hosts, NEW type, MasterHas(m, type),
         NEW r \in MSRecord, Sound(m, r), r.Services = ms[m].Services,
         Goes(m, r, peer), toHost' = [toHost EXCEPT ![m] = Tail(@)],
         Opened(r, GameCycle, ClientInfos[m], toTicks[m], Tail(toHost[m])),
         NEW msg \in ToServices, toSvc' = SendTo(toSvc, ms[m].Services, msg),
         \A t \in Local(m) : Links(t, r, fromSvc[t],
           IF t \in ms[m].Services \cap svcLinked THEN Append(toSvc[t], msg) ELSE toSvc[t]),
         UNCHANGED <<ticksState, msUp, msLinked, fromSvc, svcLinked, svcVars>>
  PROVE  ShardInv'
<1>1. /\ Types /\ ms \in [Hosts -> MSRecord] /\ peer \in [Pairs -> Seq(Between)]
      /\ fromSvc \in [Services -> Seq(FromServices)] /\ Sound(m, ms[m])
  BY OneOf
<1>2. Moved(m, r) /\ peer' \in [Pairs -> Seq(Between)]
  BY <1>1, GoesMoves
<1> DEFINE out == [toHost EXCEPT ![m] = Tail(@)]
<1>3. /\ m \in msUp /\ m \in msLinked /\ out \in [Hosts -> Seq(ToHosts)]
      /\ out[m] = Tail(toHost[m])
  BY MasterReads
<1>10. \A h \in Hosts \ {m} : out[h] = toHost[h]
  BY MasterReads
<1>4. toHost' = out
  OBVIOUS
<1> HIDE DEF out
<1>5. Link(m, r, GameCycle, ClientInfos[m], toTicks[m], out[m])
  BY <1>3 DEF Link
<1>6. /\ toSvc' \in [Services -> Seq(ToServices)]
      /\ \A s \in Services : toSvc'[s] =
           IF s \in ms[m].Services \cap svcLinked THEN Append(toSvc[s], msg) ELSE toSvc[s]
  BY <1>1, SentTo
<1>7. fromSvc' = fromSvc
  OBVIOUS
<1>8. \A s \in Services \ Local(m) : fromSvc'[s] = fromSvc[s] /\ toSvc'[s] = toSvc[s]
  BY <1>1, <1>6, <1>7 DEF Sound, Local
<1>9. \A s \in Local(m) : Links(s, r, fromSvc'[s], toSvc'[s])
  BY <1>6, <1>7 DEF Local
<1>11. /\ fromSvc' \in [Services -> Seq(FromServices)]
       /\ toSvc' \in [Services -> Seq(ToServices)]
  BY <1>1, <1>6, <1>7
<1>12. Handled(m, r, out)
  BY <1>2, <1>3, <1>4, <1>5, <1>8, <1>9, <1>10, <1>11 DEF Handled
<1> QED BY <1>12, HandlerKeeps

\* The sync of TICKS goes on to the services that have registered before it.
LEMMA SyncLinks ==
  ASSUME NEW m \in Hosts, NEW a \in MSRecord, Sound(m, a), ~a.Syncd, NEW k \in Nat,
         NEW t \in Services, NEW q, NEW o \in Seq(ToServices), Links(t, a, q, o),
         NEW r, r.Services = a.Services, r.State = a.State, r.Syncd = TRUE, r.GameCycle = k,
         r.TockedServices = a.TockedServices
  PROVE  Links(t, r, q, IF t \in a.Services \cap svcLinked THEN Append(o, Registered(k)) ELSE o)
<1> DEFINE v == IF t \in a.Services \cap svcLinked THEN Append(o, Registered(k)) ELSE o
<1>1. Playing(r, t) <=> Playing(a, t)
  BY DEF Playing
<1>2. InLink(t, r, q)
  BY <1>1 DEF Links, InLink
<1>3. CASE t \notin svcLinked
  <2>1. v = o
    BY <1>3
  <2> QED BY <1>2, <1>3, <2>1 DEF Links, OutLink
<1>4. CASE t \in svcLinked
  <2>1. /\ ~Has(o, "DOWN") /\ ~Has(o, "TICK") /\ t \notin svcSynced /\ ~Has(o, "REGISTERED")
        /\ t \in svcUp /\ DownLast(o) /\ RegisteredFirst(o) /\ Once(o, "TICK")
        /\ Once(o, "REGISTERED") /\ SyncIs(o, k)
    BY <1>4, NoSync DEF Links, OutLink, InLink
  <2>2. CASE t \notin a.Services
    <3>1. v = o
      BY <2>2
    <3> HIDE DEF v
    <3> QED BY <1>2, <1>4, <2>1, <2>2, <3>1, NoSync DEF Links, OutLink
  <2>3. CASE t \in a.Services
    <3>1. v = Append(o, Registered(k))
      BY <1>4, <2>3
    <3>2. /\ Registered(k) \in ToServices /\ Registered(k).type = "REGISTERED"
          /\ Registered(k).cycle = k
      BY MessageTypes DEF ToServices
    <3> HIDE DEF v
    <3>3. /\ DownLast(v) /\ ~Has(v, "DOWN") /\ ~Has(v, "TICK") /\ Has(v, "REGISTERED")
          /\ RegisteredFirst(v) /\ Once(v, "TICK") /\ Once(v, "REGISTERED") /\ SyncIs(v, k)
      BY <2>1, <3>1, <3>2, Sent
    <3>4. Due(r, v) = k
      BY <3>3 DEF Due
    <3> QED BY <1>2, <1>4, <2>1, <2>3, <3>3, <3>4 DEF Links, OutLink, v
  <2> QED BY <2>2, <2>3
<1> QED BY <1>3, <1>4

LEMMA CbSyncFromMasterKeeps ==
  ASSUME ShardInv, NEW m \in Hosts, CbSyncFromMaster(m), UNCHANGED svcVars
  PROVE  ShardInv'
<1> DEFINE a == ms[m]
           k == Head(toHost[m]).cycle
           early == {i \in DOMAIN a.ReceivedBeforeSync : a.ReceivedBeforeSync[i] > k}
           b == [a EXCEPT !.GameCycle = k, !.Syncd = TRUE]
           c == [b EXCEPT !.NbReceived = @ + Cardinality(early), !.ReceivedBeforeSync = <<>>]
<1>1. /\ Types /\ a \in MSRecord /\ Sound(m, a) /\ MasterHas(m, "REGISTERED")
      /\ toSvc \in [Services -> Seq(ToServices)] /\ GameCycle \in Nat
      /\ \A t \in Services : Home[t] = m => Links(t, a, fromSvc[t], toSvc[t])
  <2>1. GameCycle \in Nat
    BY DEF ShardInv, MasterInv, Control
  <2>2. MasterHas(m, "REGISTERED")
    BY DEF CbSyncFromMaster
  <2> QED BY <2>1, <2>2, OneOf
<1>2. /\ toHost[m] # <<>> /\ Head(toHost[m]).type = "REGISTERED"
      /\ Opened(a, GameCycle, ClientInfos[m], toTicks[m], toHost[m])
  BY <1>1, MasterReads
<1>3. /\ ~a.Syncd /\ toTicks[m] = <<>> /\ ClientInfos[m].Registered
      /\ \/ toHost[m] = <<Registered(GameCycle)>> /\ ClientInfos[m].TockReceived
         \/ toHost[m] = <<Registered(GameCycle - 1), Tick>> /\ ~ClientInfos[m].TockReceived
            /\ GameCycle > 0
  BY <1>2, FirstToHost DEF Opened
<1>4. /\ k \in Nat
      /\ \/ k = GameCycle /\ Tail(toHost[m]) = <<>> /\ ClientInfos[m].TockReceived
         \/ k = GameCycle - 1 /\ Tail(toHost[m]) = <<Tick>> /\ ~ClientInfos[m].TockReceived
  <2>1. ASSUME NEW j, toHost[m] = <<Registered(j)>>
        PROVE  k = j /\ Tail(toHost[m]) = <<>>
    BY <2>1, FirstToHost
  <2>2. ASSUME NEW j, toHost[m] = <<Registered(j), Tick>>
        PROVE  k = j /\ Tail(toHost[m]) = <<Tick>>
    BY <2>2, FirstToHost
  <2> HIDE DEF k, a
  <2>3. CASE toHost[m] = <<Registered(GameCycle)>> /\ ClientInfos[m].TockReceived
    BY <1>1, <2>1, <2>3
  <2>4. CASE /\ toHost[m] = <<Registered(GameCycle - 1), Tick>> /\ ~ClientInfos[m].TockReceived
             /\ GameCycle > 0
    <3>1. k = GameCycle - 1 /\ Tail(toHost[m]) = <<Tick>>
      BY <2>2, <2>4
    <3> QED BY <1>1, <2>4, <3>1
  <2> QED BY <1>3, <2>3, <2>4
<1>5. a.State = "ExpectingMasterTick"
  BY <1>1, <1>3 DEF Sound
<1>6. /\ \E r \in {b, c} : Goes(m, r, peer)
      /\ toHost' = [toHost EXCEPT ![m] = Tail(@)]
      /\ \E j : j = k /\ toSvc' = SendTo(toSvc, a.Services, Registered(j))
      /\ UNCHANGED <<ticksState, msUp, msLinked, fromSvc, svcLinked, svcVars>>
  <2> DEFINE r == [ms[m] EXCEPT !.GameCycle = Head(toHost[m]).cycle, !.Syncd = TRUE]
  <2>1. r.GameCycle = k /\ r.Services = a.Services /\ r.ReceivedBeforeSync = a.ReceivedBeforeSync
    BY <1>1 DEF MSRecord
  <2>2. ExamineDeltaUpdatesReceivedBeforeSync(r) = c
    BY <2>1 DEF ExamineDeltaUpdatesReceivedBeforeSync
  <2>3. b = r
    OBVIOUS
  <2> HIDE DEF k, b, c
  <2> QED BY <2>1, <2>2, <2>3 DEF CbSyncFromMaster, Goes
<1>7. Cardinality(early) \in Nat
  <2>1. a.ReceivedBeforeSync \in Seq(Nat)
    BY <1>1 DEF MSRecord
  <2>2. IsFiniteSet(early)
    <3>1. early \in SUBSET (1 .. Len(a.ReceivedBeforeSync)) /\ Len(a.ReceivedBeforeSync) \in Nat
      BY <2>1
    <3>2. IsFiniteSet(1 .. Len(a.ReceivedBeforeSync))
      BY <3>1, FS_Interval
    <3> QED BY <3>1, <3>2, FS_Subset
  <2> QED BY <2>2, FS_CardinalityType
<1> HIDE DEF early, k, a
<1>8. /\ b \in MSRecord /\ Sound(m, b) /\ b.Services = a.Services
      /\ b.State = a.State /\ b.Syncd = TRUE /\ b.GameCycle = k
      /\ b.TockedServices = a.TockedServices
  BY <1>1, <1>4, <1>5 DEF MSRecord, Sound
<1> HIDE DEF b
<1>9. /\ c \in MSRecord /\ Sound(m, c) /\ c.Services = a.Services
      /\ c.State = a.State /\ c.Syncd = TRUE /\ c.GameCycle = k
      /\ c.TockedServices = a.TockedServices
  <2>1. b.NbReceived + Cardinality(early) \in Nat /\ <<>> \in Seq(Nat)
    BY <1>7, <1>8 DEF MSRecord
  <2> QED BY <1>8, <2>1 DEF MSRecord, Sound
<1> HIDE DEF c
<1>10. PICK r \in {b, c} : Goes(m, r, peer)
  BY <1>6
<1>11. /\ r \in MSRecord /\ Sound(m, r) /\ r.Services = a.Services
       /\ r.State = a.State /\ r.Syncd = TRUE /\ r.GameCycle = k
       /\ r.TockedServices = a.TockedServices
  BY <1>8, <1>9, <1>10
<1>12. Opened(r, GameCycle, ClientInfos[m], toTicks[m], Tail(toHost[m]))
  BY <1>3, <1>4, <1>5, <1>11 DEF Opened
<1>13. Registered(k) \in ToServices
  BY <1>4, MessageTypes DEF ToServices
<1>14. ASSUME NEW t \in Local(m)
       PROVE  Links(t, r, fromSvc[t],
                IF t \in a.Services \cap svcLinked THEN Append(toSvc[t], Registered(k))
                ELSE toSvc[t])
  <2>1. t \in Services /\ Links(t, a, fromSvc[t], toSvc[t]) /\ toSvc[t] \in Seq(ToServices)
    BY <1>1 DEF Local
  <2> QED BY <1>1, <1>3, <1>4, <1>11, <2>1, SyncLinks
<1>15. toSvc' = SendTo(toSvc, a.Services, Registered(k))
  BY <1>6
<1> HIDE DEF a
<1>16. a = ms[m]
  BY DEF a
<1> QED BY <1>1, <1>6, <1>10, <1>11, <1>12, <1>13, <1>14, <1>15, <1>16, MasterHandlerKeeps

\* The TICK goes on to the services, which all play it.
LEMMA TickLinks ==
  ASSUME NEW m \in Hosts, NEW a \in MSRecord, Sound(m, a), a.Syncd,
         a.State = "ExpectingMasterTick",
         NEW t \in Services, NEW q, NEW o \in Seq(ToServices), Links(t, a, q, o),
         NEW r, r.Services = a.Services, r.State = "ExpectingLocalTocks", r.Syncd = TRUE,
         r.GameCycle = a.GameCycle + 1, r.TockedServices = a.TockedServices
  PROVE  Links(t, r, q, IF t \in a.Services \cap svcLinked THEN Append(o, Tick) ELSE o)
<1> DEFINE v == IF t \in a.Services \cap svcLinked THEN Append(o, Tick) ELSE o
<1>1. ~Playing(a, t) /\ (Playing(r, t) <=> t \in a.Services)
  BY DEF Playing, Sound
<1>2. InLink(t, r, q) /\ ~Has(q, "TOCK")
  BY <1>1 DEF Links, InLink
<1>3. CASE t \notin svcLinked
  <2>1. v = o
    BY <1>3
  <2> QED BY <1>2, <1>3, <2>1 DEF Links, OutLink
<1>4. CASE t \in svcLinked
  <2>1. /\ ~Has(o, "DOWN") /\ ~Has(o, "TICK") /\ t \in svcUp
        /\ DownLast(o) /\ RegisteredFirst(o) /\ Once(o, "TICK") /\ Once(o, "REGISTERED")
        /\ t \in svcSynced \/ Has(o, "REGISTERED") <=> t \in a.Services
        /\ Has(o, "REGISTERED") => t \notin svcSynced
        /\ t \in svcSynced => svcCycle[t] = Due(a, o)
        /\ SyncIs(o, Due(a, o))
    BY <1>1, <1>4 DEF Links, OutLink, InLink
  <2>2. Due(a, o) = a.GameCycle /\ a.GameCycle \in Nat
    BY <2>1 DEF Due, MSRecord
  <2>3. CASE t \notin a.Services
    <3>1. v = o
      BY <2>3
    <3>2. t \notin svcSynced /\ ~Has(o, "REGISTERED")
      BY <2>1, <2>3
    <3> HIDE DEF v
    <3> QED BY <1>2, <1>4, <2>1, <2>3, <3>1, <3>2, NoSync DEF Links, OutLink
  <2>4. CASE t \in a.Services
    <3>1. v = Append(o, Tick)
      BY <1>4, <2>4
    <3>2. Tick \in ToServices /\ Tick.type = "TICK"
      BY MessageTypes DEF ToServices
    <3> HIDE DEF v
    <3>3. /\ DownLast(v) /\ ~Has(v, "DOWN") /\ Has(v, "TICK")
          /\ Has(v, "REGISTERED") <=> Has(o, "REGISTERED")
          /\ RegisteredFirst(v) /\ Once(v, "TICK") /\ Once(v, "REGISTERED")
          /\ SyncIs(v, a.GameCycle)
      BY <2>1, <2>2, <3>1, <3>2, Sent
    <3>4. Due(r, v) = a.GameCycle
      BY <2>2, <3>3 DEF Due
    <3>5. OutLink(t, r, q, v)
      BY <1>1, <1>2, <1>4, <2>1, <2>2, <2>4, <3>3, <3>4 DEF OutLink
    <3> QED BY <1>2, <3>5 DEF Links, v
  <2> QED BY <2>3, <2>4
<1> QED BY <1>3, <1>4

LEMMA MasterTickKeeps ==
  ASSUME ShardInv, NEW m \in Hosts, MasterTick(m), UNCHANGED svcVars
  PROVE  ShardInv'
<1> DEFINE a == ms[m]
           r == [a EXCEPT !.GameCycle = @ + 1, !.State = "ExpectingLocalTocks"]
<1>1. /\ Types /\ a \in MSRecord /\ Sound(m, a) /\ MasterHas(m, "TICK")
      /\ a.State = "ExpectingMasterTick"
      /\ toSvc \in [Services -> Seq(ToServices)] /\ GameCycle \in Nat
      /\ \A t \in Services : Home[t] = m => Links(t, a, fromSvc[t], toSvc[t])
  <2>1. GameCycle \in Nat
    BY DEF ShardInv, MasterInv, Control
  <2>2. MasterHas(m, "TICK") /\ a.State = "ExpectingMasterTick"
    BY DEF MasterTick
  <2> QED BY <2>1, <2>2, OneOf
<1>2. /\ toHost[m] # <<>> /\ Head(toHost[m]).type = "TICK"
      /\ Opened(a, GameCycle, ClientInfos[m], toTicks[m], toHost[m])
  BY <1>1, MasterReads
<1>3. /\ a.Syncd /\ toTicks[m] = <<>> /\ ClientInfos[m].Registered
      /\ toHost[m] = <<Tick>> /\ ~ClientInfos[m].TockReceived /\ a.GameCycle = GameCycle - 1
  BY <1>2, TickFirst
<1>4. /\ Goes(m, r, peer) /\ toHost' = [toHost EXCEPT ![m] = Tail(@)]
      /\ toSvc' = SendTo(toSvc, a.Services, Tick)
      /\ UNCHANGED <<ticksState, msUp, msLinked, fromSvc, svcLinked, svcVars>>
  BY DEF MasterTick, Goes
<1> HIDE DEF a
<1>5. /\ r \in MSRecord /\ Sound(m, r) /\ r.Services = a.Services
      /\ r.State = "ExpectingLocalTocks" /\ r.Syncd = TRUE /\ r.GameCycle = a.GameCycle + 1
      /\ r.TockedServices = a.TockedServices
  <2>1. a.GameCycle + 1 \in Nat
    BY <1>1 DEF MSRecord
  <2> QED BY <1>1, <1>3, <2>1 DEF MSRecord, Sound
<1> HIDE DEF r
<1>6. Opened(r, GameCycle, ClientInfos[m], toTicks[m], Tail(toHost[m]))
  <2>1. r.GameCycle = GameCycle /\ Tail(toHost[m]) = <<>>
    BY <1>1, <1>3, <1>5, FirstToHost
  <2> QED BY <1>3, <1>5, <2>1 DEF Opened
<1>7. Tick \in ToServices
  BY DEF ToServices
<1>8. ASSUME NEW t \in Local(m)
      PROVE  Links(t, r, fromSvc[t],
               IF t \in a.Services \cap svcLinked THEN Append(toSvc[t], Tick) ELSE toSvc[t])
  <2>1. t \in Services /\ Links(t, a, fromSvc[t], toSvc[t]) /\ toSvc[t] \in Seq(ToServices)
    BY <1>1 DEF Local
  <2> QED BY <1>1, <1>3, <1>5, <2>1, TickLinks
<1>9. a = ms[m]
  BY DEF a
<1> QED BY <1>1, <1>4, <1>5, <1>6, <1>7, <1>8, <1>9, MasterHandlerKeeps

--------------------------------------------------------------------------------
\* Starts and losses of mirror services.

LEMMA CbTPTicksUpKeeps ==
  ASSUME ShardInv, NEW m \in Hosts, CbTPTicksUp(m), UNCHANGED svcVars
  PROVE  ShardInv'
<1>1. /\ Types /\ Control /\ MasterLinks /\ ServiceLinks
      /\ \A h \in Hosts : Sound(h, ms[h])
      /\ toTicks \in [Hosts -> Seq(FromHosts)] /\ msLinked \in SUBSET Hosts
  BY DEF ShardInv, MasterInv, Types, TicksTypes, MSTypes
<1>2. /\ m \in msUp \ msLinked /\ msLinked' = msLinked \cup {m}
      /\ toTicks' = [toTicks EXCEPT ![m] = Append(@, Register(TRUE, 0))]
      /\ UNCHANGED <<ticksState, toHost, ms, msUp, msNet, svcVars>>
  BY DEF CbTPTicksUp
<1>3. Register(TRUE, 0) \in FromHosts
  BY DEF FromHosts
<1>4. /\ toTicks' \in [Hosts -> Seq(FromHosts)]
      /\ toTicks'[m] = Append(toTicks[m], Register(TRUE, 0))
      /\ \A h \in Hosts \ {m} : toTicks'[h] = toTicks[h]
  <2>1. Append(toTicks[m], Register(TRUE, 0)) \in Seq(FromHosts)
    <3>1. toTicks[m] \in Seq(FromHosts)
      BY <1>1
    <3>2. \A x \in FromHosts : Append(toTicks[m], x) \in Seq(FromHosts)
      BY <3>1
    <3> QED BY <1>3, <3>2, Zenon
  <2> QED BY <1>1, <1>2, <2>1
<1>5. Types'
  BY <1>1, <1>2, <1>4
     DEF Types, TicksTypes, MSTypes, ServiceTypes, ticksState, msNet, svcVars
<1>6. Control'
  BY <1>1, <1>2 DEF Control, ticksState, ticksControl
<1>7. MasterLinks'
  <2> SUFFICES ASSUME NEW h \in Hosts
               PROVE  Link(h, ms[h], GameCycle, ClientInfos[h], toTicks[h], toHost[h])'
    BY DEF MasterLinks
  <2>0. Link(h, ms[h], GameCycle, ClientInfos[h], toTicks[h], toHost[h])
    BY <1>1 DEF MasterLinks
  <2>1. CASE h = m
    <3>1. /\ toTicks[m] = <<>> /\ toHost[m] = <<>> /\ ~ClientInfos[m].Registered
          /\ ~ms[m].Syncd
      BY <1>2, <2>0, <2>1 DEF Link
    <3>2. toTicks'[m] = <<Register(TRUE, 0)>>
      BY <1>4, <3>1, ShortQueues
    <3> QED BY <1>2, <2>1, <3>1, <3>2 DEF Link, Opened, ticksState
  <2>2. CASE h # m
    <3>1. toTicks'[h] = toTicks[h] /\ (h \in msLinked' <=> h \in msLinked)
      BY <1>2, <1>4, <2>2
    <3> QED BY <1>2, <2>0, <3>1 DEF Link, ticksState
  <2> QED BY <2>1, <2>2
<1>8. (\A h \in Hosts : Sound(h, ms[h]))'
  BY <1>1, <1>2 DEF Sound
<1>9. ServiceLinks'
  BY <1>1, <1>2 DEF ServiceLinks, Links, InLink, OutLink, msNet, svcVars
<1> QED BY <1>5, <1>6, <1>7, <1>8, <1>9 DEF ShardInv, MasterInv

LEMMA NewMSRecord == NewMS \in MSRecord /\ \A m \in Hosts : Sound(m, NewMS)
<1>1. IsFiniteSet({}) /\ Cardinality({}) = 0
  BY FS_EmptySet
<1>2. [s \in Services |-> 0] \in [Services -> Nat]
  OBVIOUS
<1>3. <<>> \in Seq(Nat)
  OBVIOUS
<1>4. NewMS \in MSRecord
  BY <1>2, <1>3 DEF NewMS, MSRecord
<1>5. \A m \in Hosts : Sound(m, NewMS)
  <2>1. NewMS.TockedServices \cap NewMS.Services = {}
    BY DEF NewMS
  <2> QED BY <1>1, <2>1 DEF NewMS, Sound
<1> QED BY <1>4, <1>5

LEMMA MSStartKeeps ==
  ASSUME ShardInv, NEW m \in Hosts, MSStart(m), UNCHANGED svcVars
  PROVE  ShardInv'
<1>1. /\ Types /\ Control /\ MasterLinks /\ ServiceLinks
      /\ \A h \in Hosts : Sound(h, ms[h]) /\ peer \in [Pairs -> Seq(Between)]
      /\ msUp \in SUBSET Hosts
  BY DEF ShardInv, MasterInv, Types, MSTypes
<1>2. /\ m \notin msUp /\ msUp' = msUp \cup {m} /\ toTicks[m] = <<>> /\ toHost[m] = <<>>
      /\ UNCHANGED <<ticksState, toTicks, toHost, ms, msLinked, fromSvc, toSvc, svcLinked, svcVars>>
  BY DEF MSStart, Silent
<1>3. peer' \in [Pairs -> Seq(Between)]
  <2>1. Up \in Between
    BY DEF Between
  <2>2. \A p \in Pairs : peer[p] \in Seq(Between) /\ Append(peer[p], Up) \in Seq(Between)
    BY <1>1, <2>1
  <2> QED BY <2>2 DEF MSStart
<1>4. Types'
  BY <1>1, <1>2, <1>3 DEF Types, TicksTypes, MSTypes, ServiceTypes, ticksState, svcVars
<1>5. Control'
  BY <1>1, <1>2 DEF Control, ticksState, ticksControl
<1>6. MasterLinks'
  <2> SUFFICES ASSUME NEW h \in Hosts
               PROVE  Link(h, ms[h], GameCycle, ClientInfos[h], toTicks[h], toHost[h])'
    BY DEF MasterLinks
  <2>0. Link(h, ms[h], GameCycle, ClientInfos[h], toTicks[h], toHost[h])
    BY <1>1 DEF MasterLinks
  <2>1. CASE h = m
    <3>1. ms[m] = NewMS /\ Ended(ClientInfos[m], toTicks[m]) /\ m \notin msLinked
      BY <1>2, <2>0, <2>1 DEF Link
    <3>2. ~ClientInfos[m].Registered
      BY <1>2, <3>1, ShortQueues DEF Ended
    <3>3. ~NewMS.Syncd
      BY DEF NewMS
    <3> QED BY <1>2, <2>1, <3>1, <3>2, <3>3 DEF Link, ticksState
  <2>2. CASE h # m
    <3>1. h \in msUp' <=> h \in msUp
      BY <1>2, <2>2
    <3> QED BY <1>2, <2>0, <3>1 DEF Link, ticksState
  <2> QED BY <2>1, <2>2
<1>7. (\A h \in Hosts : Sound(h, ms[h]))'
  BY <1>1, <1>2 DEF Sound
<1>8. ServiceLinks'
  BY <1>1, <1>2 DEF ServiceLinks, Links, InLink, OutLink, svcVars
<1> QED BY <1>4, <1>5, <1>6, <1>7, <1>8 DEF ShardInv, MasterInv

LEMMA SentToNobodyKeeps ==
  ASSUME ShardInv, NEW m \in Hosts, SentToNobody(m)
  PROVE  ShardInv'
<1>1. /\ Types /\ Control /\ MasterLinks /\ ServiceLinks
      /\ \A h \in Hosts : Sound(h, ms[h])
      /\ toHost \in [Hosts -> Seq(ToHosts)]
  BY DEF ShardInv, MasterInv, Types, TicksTypes
<1>2. /\ m \notin msUp /\ toHost' = [toHost EXCEPT ![m] = <<>>]
      /\ UNCHANGED <<ticksState, toTicks, msVars, msNet, svcVars>>
  BY DEF SentToNobody, LoseSent, ticksState
<1>3. /\ toHost' \in [Hosts -> Seq(ToHosts)] /\ \A h \in Hosts \ {m} : toHost'[h] = toHost[h]
  BY <1>1, <1>2
<1>4. Types'
  BY <1>1, <1>2, <1>3
     DEF Types, TicksTypes, MSTypes, ServiceTypes, ticksState, msVars, msNet, svcVars
<1>5. Control'
  BY <1>1, <1>2 DEF Control, ticksState, ticksControl
<1>6. MasterLinks'
  <2> SUFFICES ASSUME NEW h \in Hosts
               PROVE  Link(h, ms[h], GameCycle, ClientInfos[h], toTicks[h], toHost[h])'
    BY DEF MasterLinks
  <2>0. Link(h, ms[h], GameCycle, ClientInfos[h], toTicks[h], toHost[h])
    BY <1>1 DEF MasterLinks
  <2>1. CASE h = m
    BY <1>2, <2>0, <2>1 DEF Link, ticksState, msVars
  <2>2. CASE h # m
    BY <1>2, <1>3, <2>0, <2>2 DEF Link, ticksState, msVars
  <2> QED BY <2>1, <2>2
<1>7. (\A h \in Hosts : Sound(h, ms[h]))'
  BY <1>1, <1>2 DEF Sound, msVars
<1>8. ServiceLinks'
  BY <1>1, <1>2 DEF ServiceLinks, Links, InLink, OutLink, msVars, msNet, svcVars
<1> QED BY <1>4, <1>5, <1>6, <1>7, <1>8 DEF ShardInv, MasterInv

\* What TICKS still gets of a mirror service that is lost.
LEMMA CutToTicks ==
  ASSUME NEW kept \in Nat, NEW i, i \in {<<>>, <<Register(TRUE, 0)>>, <<Tock>>}
  PROVE  /\ Cut(i, kept) \in {<<Down>>, <<Tock, Down>>, <<Register(TRUE, 0), Down>>}
         /\ Cut(i, kept) \in Seq(FromHosts)
<1>1. Down \in FromHosts /\ Tock \in FromHosts /\ Register(TRUE, 0) \in FromHosts
  BY DEF FromHosts
<1>2. CASE i = <<>>
  <2>1. SubSeq(i, 1, IF kept < Len(i) THEN kept ELSE Len(i)) = <<>>
    BY <1>2
  <2>2. Cut(i, kept) = <<Down>>
    BY <2>1, ShortQueues DEF Cut
  <2> QED BY <1>1, <2>2
<1>3. ASSUME NEW x \in FromHosts, i = <<x>>
      PROVE  Cut(i, kept) \in {<<Down>>, <<x, Down>>}
  <2>1. CASE kept = 0
    <3>1. SubSeq(i, 1, IF kept < Len(i) THEN kept ELSE Len(i)) = <<>>
      BY <1>3, <2>1
    <3> QED BY <3>1, ShortQueues DEF Cut
  <2>2. CASE kept > 0
    <3>1. SubSeq(i, 1, IF kept < Len(i) THEN kept ELSE Len(i)) = <<x>>
      <4>1. Len(i) = 1 /\ i[1] = x /\ i \in Seq(FromHosts)
        BY <1>3
      <4>2. (IF kept < Len(i) THEN kept ELSE Len(i)) = 1
        BY <2>2, <4>1
      <4>3. SubSeq(i, 1, 1) = <<x>>
        <5>1. /\ SubSeq(i, 1, 1) \in Seq(FromHosts) /\ Len(SubSeq(i, 1, 1)) = 1
              /\ SubSeq(i, 1, 1)[1] = x
          BY <4>1
        <5>2. i \in Seq(FromHosts) /\ Len(SubSeq(i, 1, 1)) = Len(i)
          BY <4>1, <5>1
        <5>3. \A j \in 1 .. Len(i) : SubSeq(i, 1, 1)[j] = i[j]
          BY <4>1, <5>1
        <5>4. SubSeq(i, 1, 1) = i
          BY <5>1, <5>2, <5>3, SeqEqual
        <5> QED BY <1>3, <5>4
      <4> QED BY <4>2, <4>3
    <3> QED BY <3>1, ShortQueues DEF Cut
  <2> QED BY <2>1, <2>2
<1>4. ASSUME NEW x \in FromHosts PROVE <<x, Down>> \in Seq(FromHosts) /\ <<Down>> \in Seq(FromHosts)
  BY <1>1
<1> QED BY <1>1, <1>2, <1>3, <1>4

LEMMA MSCrashMasterLinks ==
  ASSUME ShardInv, NEW m \in Hosts, NEW kept \in Nat, MSCrash(m, kept)
  PROVE  MasterLinks' /\ toTicks' \in [Hosts -> Seq(FromHosts)]
         /\ toHost' \in [Hosts -> Seq(ToHosts)]
<1>1. /\ MasterLinks /\ toTicks \in [Hosts -> Seq(FromHosts)]
      /\ toHost \in [Hosts -> Seq(ToHosts)] /\ ms \in [Hosts -> MSRecord]
  BY DEF ShardInv, MasterInv, Types, TicksTypes, MSTypes
<1>2. /\ m \in msUp /\ msUp' = msUp \ {m} /\ msLinked' = msLinked \ {m}
      /\ toHost' = [toHost EXCEPT ![m] = <<>>]
      /\ toTicks' = IF m \in msLinked THEN [toTicks EXCEPT ![m] = Cut(@, kept)] ELSE toTicks
      /\ ms' = [ms EXCEPT ![m] = NewMS] /\ UNCHANGED ticksState
  BY DEF MSCrash
<1>3. Link(m, ms[m], GameCycle, ClientInfos[m], toTicks[m], toHost[m])
  BY <1>1 DEF MasterLinks
<1>4. /\ toTicks' \in [Hosts -> Seq(FromHosts)] /\ \A h \in Hosts \ {m} : toTicks'[h] = toTicks[h]
      /\ Ended(ClientInfos[m], toTicks'[m])
  <2>1. CASE m \in msLinked
    <3>1. toTicks[m] \in {<<>>, <<Register(TRUE, 0)>>, <<Tock>>}
      BY <1>3, <2>1 DEF Link, Opened
    <3>2. /\ Cut(toTicks[m], kept) \in {<<Down>>, <<Tock, Down>>, <<Register(TRUE, 0), Down>>}
          /\ Cut(toTicks[m], kept) \in Seq(FromHosts)
      BY <3>1, CutToTicks
    <3> QED BY <1>1, <1>2, <2>1, <3>2 DEF Ended
  <2>2. CASE m \notin msLinked
    BY <1>1, <1>2, <1>3, <2>2 DEF Link, Ended
  <2> QED BY <2>1, <2>2
<1>5. toHost' \in [Hosts -> Seq(ToHosts)] /\ \A h \in Hosts \ {m} : toHost'[h] = toHost[h]
  BY <1>1, <1>2
<1>6. MasterLinks'
  <2> SUFFICES ASSUME NEW h \in Hosts
               PROVE  Link(h, ms[h], GameCycle, ClientInfos[h], toTicks[h], toHost[h])'
    BY DEF MasterLinks
  <2>0. Link(h, ms[h], GameCycle, ClientInfos[h], toTicks[h], toHost[h])
    BY <1>1 DEF MasterLinks
  <2>1. CASE h = m
    <3>1. ms'[m] = NewMS /\ m \notin msUp' /\ m \notin msLinked'
      BY <1>1, <1>2
    <3> QED BY <1>2, <1>4, <2>1, <3>1 DEF Link, Ended, ticksState
  <2>2. CASE h # m
    <3>1. /\ ms'[h] = ms[h] /\ toTicks'[h] = toTicks[h] /\ toHost'[h] = toHost[h]
          /\ h \in msUp' <=> h \in msUp
          /\ h \in msLinked' <=> h \in msLinked
      BY <1>1, <1>2, <1>4, <1>5, <2>2
    <3> QED BY <1>2, <2>0, <3>1 DEF Link, Opened, Ended, ticksState
  <2> QED BY <2>1, <2>2
<1> QED BY <1>4, <1>5, <1>6

LEMMA MSCrashServiceLinks ==
  ASSUME ShardInv, NEW m \in Hosts, NEW kept \in Nat, MSCrash(m, kept), UNCHANGED svcVars
  PROVE  ServiceLinks' /\ ServiceTypes'
<1>1. /\ Types /\ ServiceLinks /\ ServiceTypes /\ ms \in [Hosts -> MSRecord]
      /\ fromSvc \in [Services -> Seq(FromServices)] /\ toSvc \in [Services -> Seq(ToServices)]
  BY DEF ShardInv, MasterInv, Types, MSTypes, ServiceTypes
<1>2. /\ msUp' = msUp \ {m} /\ svcLinked' = svcLinked \ Local(m)
      /\ fromSvc' = [s \in Services |-> IF Home[s] = m THEN <<>> ELSE fromSvc[s]]
      /\ toSvc' = [s \in Services |-> IF s \in svcLinked \cap Local(m)
                                      THEN Cut(toSvc[s], kept) ELSE toSvc[s]]
      /\ ms' = [ms EXCEPT ![m] = NewMS] /\ UNCHANGED <<svcUp, svcSynced, svcCycle>>
  BY DEF MSCrash, svcVars
<1>3. ASSUME NEW s \in Services
      PROVE  Links(s, ms[Home[s]], fromSvc[s], toSvc[s])
  BY <1>1 DEF ServiceLinks
<1>4. ASSUME NEW s \in Services, s \in svcLinked
      PROVE  LET p == Cut(toSvc[s], kept)
                 o == toSvc[s]
             IN /\ p \in Seq(ToServices) /\ p # <<>> /\ Has(p, "DOWN") /\ DownLast(p)
                /\ Has(p, "TICK") => Has(o, "TICK")
                /\ Has(p, "REGISTERED") => Has(o, "REGISTERED")
                /\ Once(p, "TICK") /\ Once(p, "REGISTERED") /\ RegisteredFirst(p)
                /\ Has(p, "TICK") /\ Has(o, "REGISTERED") => Has(p, "REGISTERED")
  <2>1. /\ toSvc[s] \in Seq(ToServices) /\ Down \in ToServices /\ ~Has(toSvc[s], "DOWN")
        /\ RegisteredFirst(toSvc[s]) /\ Once(toSvc[s], "TICK") /\ Once(toSvc[s], "REGISTERED")
    BY <1>1, <1>3, <1>4 DEF Links, OutLink, ToServices
  <2>2. "TICK" # "DOWN" /\ "REGISTERED" # "DOWN"
    OBVIOUS
  <2> QED BY <2>1, <2>2, Broken
<1>5. ASSUME NEW s \in Services PROVE Links(s, ms[Home[s]], fromSvc[s], toSvc[s])'
  <2>1. CASE Home[s] # m
    <3>1. /\ ms'[Home[s]] = ms[Home[s]] /\ fromSvc'[s] = fromSvc[s] /\ toSvc'[s] = toSvc[s]
          /\ s \in svcLinked' <=> s \in svcLinked
          /\ Home[s] \in msUp' <=> Home[s] \in msUp
      BY <1>1, <1>2, <2>1, HomeAssumption DEF Local
    <3> QED BY <1>2, <1>3, <3>1 DEF Links, InLink, OutLink
  <2>2. CASE Home[s] = m
    <3>1. /\ ms'[Home[s]] = NewMS /\ fromSvc'[s] = <<>> /\ s \notin svcLinked'
          /\ toSvc'[s] = IF s \in svcLinked THEN Cut(toSvc[s], kept) ELSE toSvc[s]
      BY <1>1, <1>2, <2>2 DEF Local
    <3>2. InLink(s, ms[Home[s]], fromSvc[s])'
      <4>1. s \notin NewMS.Services
        BY DEF NewMS
      <4> QED BY <3>1, <4>1, EmptyQueue DEF InLink
    <3>3. OutLink(s, ms[Home[s]], fromSvc[s], toSvc[s])'
      <4>1. CASE s \in svcLinked
        <5>1. toSvc'[s] = Cut(toSvc[s], kept)
          BY <3>1, <4>1
        <5>2. s \in svcUp
          BY <1>3, <4>1 DEF Links, InLink
        <5> QED BY <1>2, <1>3, <1>4, <3>1, <4>1, <5>1, <5>2 DEF Links, OutLink
      <4>2. CASE s \notin svcLinked
        BY <1>2, <1>3, <3>1, <4>2 DEF Links, OutLink
      <4> QED BY <4>1, <4>2
    <3> QED BY <3>2, <3>3 DEF Links
  <2> QED BY <2>1, <2>2
<1>6. ServiceTypes'
  <2>1. <<>> \in Seq(FromServices)
    OBVIOUS
  <2>2. fromSvc' \in [Services -> Seq(FromServices)] /\ toSvc' \in [Services -> Seq(ToServices)]
    BY <1>1, <1>2, <1>4, <2>1
  <2> QED BY <1>1, <1>2, <2>2 DEF ServiceTypes
<1> QED BY <1>5, <1>6 DEF ServiceLinks

LEMMA MSCrashKeeps ==
  ASSUME ShardInv, NEW m \in Hosts, NEW kept \in Nat, MSCrash(m, kept), UNCHANGED svcVars
  PROVE  ShardInv'
<1>1. /\ Types /\ Control /\ \A h \in Hosts : Sound(h, ms[h])
      /\ ms \in [Hosts -> MSRecord] /\ peer \in [Pairs -> Seq(Between)]
      /\ msUp \in SUBSET Hosts /\ msLinked \in SUBSET Hosts
  BY DEF ShardInv, MasterInv, Types, MSTypes
<1>2. /\ MasterLinks' /\ ServiceLinks' /\ ServiceTypes'
      /\ toTicks' \in [Hosts -> Seq(FromHosts)] /\ toHost' \in [Hosts -> Seq(ToHosts)]
  BY MSCrashMasterLinks, MSCrashServiceLinks
<1>3. /\ msUp' = msUp \ {m} /\ msLinked' = msLinked \ {m}
      /\ peer' = [p \in Pairs |->
                    IF p[1] = m /\ p[2] \in msUp \ {m} THEN Cut(peer[p], kept)
                    ELSE IF p[2] = m THEN <<>> ELSE peer[p]]
      /\ ms' = [ms EXCEPT ![m] = NewMS] /\ UNCHANGED ticksState
  BY DEF MSCrash
<1>4. peer' \in [Pairs -> Seq(Between)]
  <2>1. ASSUME NEW q \in Seq(Between) PROVE Cut(q, kept) \in Seq(Between)
    <3>1. Down \in Between
      BY DEF Between
    <3> DEFINE k == IF kept < Len(q) THEN kept ELSE Len(q)
    <3>2. k \in 0 .. Len(q)
      OBVIOUS
    <3> HIDE DEF k
    <3>3. SubSeq(q, 1, k) \in Seq(Between)
      BY <3>2
    <3>4. Append(SubSeq(q, 1, k), Down) \in Seq(Between)
      BY <3>1, <3>3
    <3> QED BY <3>4 DEF Cut, k
  <2>2. <<>> \in Seq(Between)
    OBVIOUS
  <2> QED BY <1>1, <1>3, <2>1, <2>2
<1>5. ms' \in [Hosts -> MSRecord] /\ \A h \in Hosts : Sound(h, ms'[h])
  BY <1>1, <1>3, NewMSRecord
<1>6. (\A h \in Hosts : Sound(h, ms[h]))'
  BY <1>5 DEF Sound
<1>7. Types'
  BY <1>1, <1>2, <1>3, <1>4, <1>5 DEF Types, TicksTypes, MSTypes, ticksState
<1>8. Control'
  BY <1>1, <1>3 DEF Control, ticksState, ticksControl
<1> QED BY <1>2, <1>6, <1>7, <1>8 DEF ShardInv, MasterInv

--------------------------------------------------------------------------------
\* The steps of one service.

\* A step that only touches s, and what is between s and its mirror service.
ServiceStep(s) ==
  /\ UNCHANGED <<ticksVars, msVars, peer>>
  /\ ServiceTypes'
  /\ \A t \in Services \ {s} :
       /\ fromSvc'[t] = fromSvc[t] /\ toSvc'[t] = toSvc[t] /\ svcCycle'[t] = svcCycle[t]
       /\ t \in svcLinked' <=> t \in svcLinked
       /\ t \in svcUp' <=> t \in svcUp
       /\ t \in svcSynced' <=> t \in svcSynced

LEMMA ServiceStepKeeps ==
  ASSUME ShardInv, NEW s \in Services, ServiceStep(s),
         Links(s, ms[Home[s]], fromSvc[s], toSvc[s])'
  PROVE  ShardInv'
<1>1. /\ Types /\ Control /\ MasterLinks /\ ServiceLinks /\ \A h \in Hosts : Sound(h, ms[h])
      /\ UNCHANGED <<CurrentMode, Pause, TickSendingMode, ClientInfos, GameCycle, ticksUp,
                     toTicks, toHost, ms, msUp, msLinked, peer>>
  BY DEF ShardInv, MasterInv, ServiceStep, ticksVars, msVars
<1>2. Types'
  BY <1>1 DEF Types, TicksTypes, MSTypes, ServiceStep
<1>3. Control'
  BY <1>1 DEF Control
<1>4. MasterLinks'
  BY <1>1 DEF MasterLinks, Link
<1>5. (\A h \in Hosts : Sound(h, ms[h]))'
  BY <1>1 DEF Sound
<1>6. ServiceLinks'
  <2>1. ASSUME NEW t \in Services \ {s} PROVE Links(t, ms[Home[t]], fromSvc[t], toSvc[t])'
    <3>1. Links(t, ms[Home[t]], fromSvc[t], toSvc[t])
      BY <1>1 DEF ServiceLinks
    <3> QED BY <1>1, <3>1 DEF ServiceStep, Links, InLink, OutLink
  <2> QED BY <2>1 DEF ServiceLinks
<1> QED BY <1>2, <1>3, <1>4, <1>5, <1>6 DEF ShardInv, MasterInv

\* The state a service is in, and what it reads.
LEMMA ServiceAt ==
  ASSUME ShardInv, NEW s \in Services
  PROVE  /\ ServiceTypes /\ fromSvc[s] \in Seq(FromServices) /\ toSvc[s] \in Seq(ToServices)
         /\ Links(s, ms[Home[s]], fromSvc[s], toSvc[s])
BY DEF ShardInv, MasterInv, Types, ServiceTypes, ServiceLinks

LEMMA SvcReads ==
  ASSUME ShardInv, NEW s \in Services, NEW type, SvcHas(s, type), SvcConsume(s)
  PROVE  LET o == toSvc[s]
             v == Tail(o)
         IN /\ s \in svcUp /\ o # <<>> /\ Head(o).type = type /\ Head(o) \in ToServices
            /\ toSvc' \in [Services -> Seq(ToServices)] /\ toSvc'[s] = v
            /\ \A t \in Services \ {s} : toSvc'[t] = toSvc[t]
            /\ DownLast(v) /\ RegisteredFirst(v) /\ Once(v, "TICK") /\ Once(v, "REGISTERED")
            /\ \A x : Has(v, x) => Has(o, x)
            /\ \A x : Has(o, x) /\ x # type => Has(v, x)
            /\ Has(o, type)
            /\ \A c : SyncIs(o, c) => SyncIs(v, c) /\ (type = "REGISTERED" => Head(o).cycle = c)
            /\ type = "TICK" => ~Has(v, "TICK") /\ ~Has(o, "REGISTERED")
            /\ type = "REGISTERED" => ~Has(v, "REGISTERED")
            /\ type = "DOWN" => v = <<>>
            /\ s \notin svcLinked => Has(o, "DOWN")
<1>1. /\ toSvc \in [Services -> Seq(ToServices)] /\ toSvc[s] \in Seq(ToServices)
      /\ Links(s, ms[Home[s]], fromSvc[s], toSvc[s])
  BY ServiceAt DEF ServiceTypes
<1>2. /\ s \in svcUp /\ toSvc[s] # <<>> /\ Head(toSvc[s]).type = type
      /\ toSvc' = [toSvc EXCEPT ![s] = Tail(@)]
  BY DEF SvcHas, SvcConsume
<1>3. /\ DownLast(toSvc[s]) /\ RegisteredFirst(toSvc[s]) /\ Once(toSvc[s], "TICK")
      /\ Once(toSvc[s], "REGISTERED") /\ (s \notin svcLinked => Has(toSvc[s], "DOWN"))
  BY <1>1, <1>2 DEF Links, OutLink
<1>4. Tail(toSvc[s]) \in Seq(ToServices) /\ Head(toSvc[s]) \in ToServices
  BY <1>1, <1>2, HeadTailProperties
<1>5. /\ toSvc' \in [Services -> Seq(ToServices)] /\ toSvc'[s] = Tail(toSvc[s])
      /\ \A t \in Services \ {s} : toSvc'[t] = toSvc[t]
  BY <1>1, <1>2, <1>4
<1> DEFINE o == toSvc[s]
           v == Tail(o)
<1>6. /\ \A x : Has(v, x) => Has(o, x)
      /\ \A x : Has(o, x) => Has(v, x) \/ Head(o).type = x
      /\ Has(o, Head(o).type)
      /\ \A x : Once(o, x) => Once(v, x)
      /\ Once(o, Head(o).type) => ~Has(v, Head(o).type)
      /\ DownLast(o) => DownLast(v) /\ (Head(o).type = "DOWN" => v = <<>>)
      /\ RegisteredFirst(o) =>
           RegisteredFirst(v) /\ (Head(o).type = "TICK" => ~Has(o, "REGISTERED"))
      /\ \A c : SyncIs(o, c) => SyncIs(v, c) /\ (Head(o).type = "REGISTERED" => Head(o).cycle = c)
  BY <1>1, <1>2, Read
<1> QED BY <1>2, <1>3, <1>4, <1>5, <1>6

LEMMA SvcStartKeeps ==
  ASSUME ShardInv, NEW s \in Services, SvcStart(s) PROVE ShardInv'
<1>1. /\ ServiceTypes /\ Links(s, ms[Home[s]], fromSvc[s], toSvc[s])
  BY ServiceAt
<1>2. /\ s \notin svcUp /\ fromSvc[s] = <<>> /\ svcUp' = svcUp \cup {s}
      /\ svcCycle' = [svcCycle EXCEPT ![s] = 0]
      /\ UNCHANGED <<ticksVars, msVars, peer, fromSvc, toSvc, svcLinked, svcSynced>>
  BY DEF SvcStart, svcElse
<1>3. ServiceStep(s)
  BY <1>1, <1>2 DEF ServiceStep, ServiceTypes
<1>4. /\ s \notin svcLinked /\ toSvc[s] = <<>> /\ s \notin svcSynced
  BY <1>1, <1>2 DEF Links, InLink, OutLink
<1>5. Links(s, ms[Home[s]], fromSvc[s], toSvc[s])'
  BY <1>1, <1>2, <1>4, EmptyQueue DEF Links, InLink, OutLink, msVars
<1> QED BY <1>3, <1>5, ServiceStepKeeps

LEMMA CbTicksUpKeeps ==
  ASSUME ShardInv, NEW s \in Services, CbTicksUp(s) PROVE ShardInv'
<1>1. /\ ServiceTypes /\ Links(s, ms[Home[s]], fromSvc[s], toSvc[s])
  BY ServiceAt
<1>2. /\ s \in svcUp \ svcLinked /\ Home[s] \in msUp /\ toSvc[s] = <<>>
      /\ fromSvc' = [fromSvc EXCEPT ![s] = Append(@, Register(TRUE, 0))]
      /\ svcLinked' = svcLinked \cup {s}
      /\ UNCHANGED <<ticksVars, msVars, peer, svcUp, svcCycle, svcSynced, toSvc>>
  BY DEF CbTicksUp, svcElse, svcVars
<1>3. fromSvc[s] = <<>> /\ s \notin svcSynced /\ s \notin ms[Home[s]].Services
  BY <1>1, <1>2, EmptyQueue DEF Links, InLink, OutLink
<1> DEFINE x == Register(TRUE, 0)
           p == Append(<<>>, x)
<1>4. x \in FromServices /\ x.type = "REGISTER"
  BY MessageTypes DEF FromServices
<1> HIDE DEF x
<1>5. /\ p \in Seq(FromServices) /\ Once(p, "REGISTER") /\ Once(p, "TOCK") /\ DownLast(p)
      /\ ~Has(p, "DOWN") /\ ~Has(p, "TOCK")
  <2>1. <<>> \in Seq(FromServices)
    OBVIOUS
  <2> QED BY <1>4, <2>1, EmptyQueue, Sent
<1>6. fromSvc' = [fromSvc EXCEPT ![s] = p]
  BY <1>2, <1>3 DEF x
<1> HIDE DEF p
<1>7. ServiceStep(s) /\ fromSvc'[s] = p
  BY <1>1, <1>2, <1>5, <1>6 DEF ServiceStep, ServiceTypes
<1>8. InLink(s, ms[Home[s]], fromSvc[s])'
  BY <1>2, <1>3, <1>5, <1>7 DEF InLink, msVars
<1>9. OutLink(s, ms[Home[s]], fromSvc[s], toSvc[s])'
  BY <1>2, <1>3, EmptyQueue DEF OutLink, msVars
<1> QED BY <1>7, <1>8, <1>9, ServiceStepKeeps DEF Links

LEMMA CbRegisteredKeeps ==
  ASSUME ShardInv, NEW s \in Services, CbRegistered(s) PROVE ShardInv'
<1> DEFINE o == toSvc[s]
           v == Tail(o)
           r == ms[Home[s]]
<1>1. /\ ServiceTypes /\ Links(s, r, fromSvc[s], o)
  BY ServiceAt
<1>2. /\ SvcHas(s, "REGISTERED") /\ SvcConsume(s)
      /\ svcCycle' = [svcCycle EXCEPT ![s] = Head(toSvc[s]).cycle]
      /\ svcSynced' = svcSynced \cup {s}
      /\ UNCHANGED <<ticksVars, msVars, peer, fromSvc, svcLinked, svcUp>>
  BY DEF CbRegistered, svcElse
<1>3. /\ s \in svcUp /\ o # <<>> /\ Head(o).type = "REGISTERED" /\ Head(o) \in ToServices
      /\ toSvc' \in [Services -> Seq(ToServices)] /\ toSvc'[s] = v
      /\ \A t \in Services \ {s} : toSvc'[t] = toSvc[t]
      /\ DownLast(v) /\ RegisteredFirst(v) /\ Once(v, "TICK") /\ Once(v, "REGISTERED")
      /\ Has(v, "TICK") <=> Has(o, "TICK")
      /\ Has(v, "DOWN") <=> Has(o, "DOWN")
      /\ Has(o, "REGISTERED") /\ ~Has(v, "REGISTERED")
      /\ \A c : SyncIs(o, c) => SyncIs(v, c) /\ Head(o).cycle = c
      /\ s \notin svcLinked => Has(o, "DOWN")
  BY <1>2, SvcReads
<1>4. Head(o).cycle \in Nat
  <2>1. Head(o) \in Syncs
    BY <1>3, MessageTypes DEF ToServices
  <2> QED BY <2>1 DEF Syncs
<1> HIDE DEF o, v
<1>5. ServiceStep(s) /\ svcCycle'[s] = Head(o).cycle
  BY <1>1, <1>2, <1>3, <1>4 DEF ServiceStep, ServiceTypes, o
<1> HIDE DEF r
<1>6. Due(r, v) = Due(r, o)
  BY <1>3 DEF Due
<1>7. InLink(s, r, fromSvc[s])' /\ r' = r
  BY <1>1, <1>2 DEF Links, InLink, msVars, r
<1>8. OutLink(s, r, fromSvc[s], toSvc[s])'
  BY <1>1, <1>2, <1>3, <1>5, <1>6, <1>7 DEF Links, OutLink
<1> QED BY <1>5, <1>7, <1>8, ServiceStepKeeps DEF Links, r

\* A service sends a message that is no part of the ticks.
LEMMA DoInitMirrorLevel1Keeps ==
  ASSUME ShardInv, NEW s \in Services, DoInitMirrorLevel1(s) PROVE ShardInv'
<1> DEFINE q == fromSvc[s]
           p == Append(q, DataSets)
           r == ms[Home[s]]
<1>1. /\ ServiceTypes /\ Links(s, r, q, toSvc[s]) /\ q \in Seq(FromServices)
  BY ServiceAt
<1>2. /\ s \in svcLinked /\ fromSvc' = [fromSvc EXCEPT ![s] = p]
      /\ UNCHANGED <<ticksVars, msVars, peer, toSvc, svcLinked, svcUp, svcCycle, svcSynced>>
  BY DEF DoInitMirrorLevel1, svcElse
<1>3. DataSets \in FromServices /\ DataSets.type = "DATASETS"
  BY MessageTypes DEF FromServices
<1>4. ~Has(q, "DOWN") /\ Once(q, "REGISTER") /\ Once(q, "TOCK")
  BY <1>1, <1>2 DEF Links, InLink
<1>5. /\ p \in Seq(FromServices) /\ DownLast(p) /\ ~Has(p, "DOWN")
      /\ Once(p, "REGISTER") /\ Once(p, "TOCK")
      /\ Has(p, "REGISTER") <=> Has(q, "REGISTER")
      /\ Has(p, "TOCK") <=> Has(q, "TOCK")
  BY <1>1, <1>3, <1>4, Sent
<1> HIDE DEF p, q, r
<1>6. ServiceStep(s) /\ fromSvc'[s] = p
  BY <1>1, <1>2, <1>5 DEF ServiceStep, ServiceTypes
<1>7. InLink(s, r, fromSvc[s])' /\ r' = r
  BY <1>1, <1>2, <1>5, <1>6 DEF Links, InLink, msVars, r
<1>8. OutLink(s, r, fromSvc[s], toSvc[s])'
  BY <1>1, <1>2, <1>5, <1>6, <1>7 DEF Links, OutLink
<1> QED BY <1>6, <1>7, <1>8, ServiceStepKeeps DEF Links, r

\* The acknowledgements of a tracker's entities, sent behind what is in a queue.
LEMMA Acknowledged ==
  ASSUME NEW q \in Seq(FromServices), NEW nb \in Nat
  PROVE  LET p == q \o [i \in 1 .. nb |-> FwdAck]
         IN /\ p \in Seq(FromServices)
            /\ \A type : type # "FWD_ACKATE" => (Has(p, type) <=> Has(q, type))
            /\ \A type : Once(q, type) /\ type # "FWD_ACKATE" => Once(p, type)
            /\ ~Has(q, "DOWN") => DownLast(p)
<1> DEFINE acks == [i \in 1 .. nb |-> FwdAck]
           p == q \o acks
           n == Len(q)
<1>1. FwdAck \in FromServices /\ FwdAck.type = "FWD_ACKATE"
  BY MessageTypes DEF FromServices
<1>2. acks \in Seq(FromServices) /\ Len(acks) = nb
  <2>1. acks \in [1 .. nb -> FromServices]
    BY <1>1
  <2> HIDE DEF acks
  <2> QED BY <2>1
<1>3. \A i \in 1 .. nb : acks[i] = FwdAck
  OBVIOUS
<1> HIDE DEF acks
<1>4. /\ p \in Seq(FromServices) /\ n \in Nat /\ Len(p) = n + nb
      /\ \A i \in 1 .. n : p[i] = q[i] /\ i \in 1 .. n + nb
      /\ \A i \in 1 .. n + nb : i \in 1 .. n \/ (p[i] = acks[i - n] /\ i - n \in 1 .. nb)
  <2>1. p \in Seq(FromServices) /\ n \in Nat /\ Len(p) = n + nb
    BY <1>2
  <2>2. \A i \in 1 .. n : p[i] = q[i] /\ i \in 1 .. n + nb
    BY <1>2
  <2>3. \A i \in 1 .. n + nb : i \in 1 .. n \/ (p[i] = acks[i - n] /\ i - n \in 1 .. nb)
    BY <1>2
  <2> QED BY <2>1, <2>2, <2>3
<1>5. \A i \in 1 .. n + nb : i \in 1 .. n \/ p[i].type = "FWD_ACKATE"
  BY <1>1, <1>3, <1>4
<1> HIDE DEF p, n
<1>6. \A type : type # "FWD_ACKATE" => (Has(p, type) <=> Has(q, type))
  BY <1>4, <1>5 DEF Has, n
<1>7. \A type : Once(q, type) /\ type # "FWD_ACKATE" => Once(p, type)
  BY <1>4, <1>5 DEF Once, n
<1>8. ~Has(q, "DOWN") => DownLast(p)
  BY <1>6 DEF Has, DownLast
<1> QED BY <1>4, <1>6, <1>7, <1>8 DEF p, acks

LEMMA ReceiveTrackerKeeps ==
  ASSUME ShardInv, NEW s \in Services, ReceiveTracker(s) PROVE ShardInv'
<1> DEFINE o == toSvc[s]
           v == Tail(o)
           q == fromSvc[s]
           r == ms[Home[s]]
           nb == Head(o).nb
           p == q \o [i \in 1 .. nb |-> FwdAck]
<1>1. /\ ServiceTypes /\ Links(s, r, q, o) /\ q \in Seq(FromServices)
  BY ServiceAt
<1>2. /\ SvcHas(s, "ATE") /\ SvcConsume(s)
      /\ fromSvc' = IF s \in svcLinked THEN [fromSvc EXCEPT ![s] = p] ELSE fromSvc
      /\ UNCHANGED <<ticksVars, msVars, peer, svcLinked, svcUp, svcCycle, svcSynced>>
  BY DEF ReceiveTracker, svcElse, svcVars
<1>3. /\ Head(o) \in ToServices /\ Head(o).type = "ATE"
      /\ toSvc' \in [Services -> Seq(ToServices)] /\ toSvc'[s] = v
      /\ \A t \in Services \ {s} : toSvc'[t] = toSvc[t]
      /\ DownLast(v) /\ RegisteredFirst(v) /\ Once(v, "TICK") /\ Once(v, "REGISTERED")
      /\ \A x : x # "ATE" => (Has(v, x) <=> Has(o, x))
      /\ \A c : SyncIs(o, c) => SyncIs(v, c)
      /\ s \in svcUp /\ (s \notin svcLinked => Has(o, "DOWN"))
  BY <1>2, SvcReads
<1>11. /\ Has(v, "TICK") <=> Has(o, "TICK")
       /\ Has(v, "DOWN") <=> Has(o, "DOWN")
       /\ Has(v, "REGISTERED") <=> Has(o, "REGISTERED")
  BY <1>3
<1>4. nb \in Nat
  BY <1>3, MessageTypes DEF ToServices
<1> HIDE DEF nb
<1>5. /\ p \in Seq(FromServices)
      /\ \A type : type # "FWD_ACKATE" => (Has(p, type) <=> Has(q, type))
      /\ \A type : Once(q, type) /\ type # "FWD_ACKATE" => Once(p, type)
      /\ ~Has(q, "DOWN") => DownLast(p)
  BY <1>1, <1>4, Acknowledged
<1> HIDE DEF o, v, q, p, r
<1>6. /\ fromSvc' \in [Services -> Seq(FromServices)]
      /\ fromSvc'[s] = IF s \in svcLinked THEN p ELSE q
      /\ \A t \in Services \ {s} : fromSvc'[t] = fromSvc[t]
  BY <1>1, <1>2, <1>5 DEF ServiceTypes, q
<1>7. ServiceStep(s)
  BY <1>1, <1>2, <1>3, <1>6 DEF ServiceStep, ServiceTypes
<1>8. Due(r, v) = Due(r, o)
  BY <1>11 DEF Due
<1>9. InLink(s, r, fromSvc[s])' /\ r' = r /\ (Has(fromSvc'[s], "TOCK") <=> Has(q, "TOCK"))
  <2>1. r' = r
    BY <1>2 DEF r, msVars
  <2>2. CASE s \in svcLinked
    <3>1. InLink(s, r, q) /\ ~Has(q, "DOWN")
      BY <1>1, <2>2 DEF Links, InLink
    <3>2. /\ DownLast(p) /\ ~Has(p, "DOWN") /\ Once(p, "REGISTER") /\ Once(p, "TOCK")
          /\ Has(p, "REGISTER") <=> Has(q, "REGISTER")
          /\ Has(p, "TOCK") <=> Has(q, "TOCK")
      BY <1>5, <3>1 DEF InLink
    <3> QED BY <1>2, <1>6, <2>1, <2>2, <3>1, <3>2 DEF InLink, msVars
  <2>3. CASE s \notin svcLinked
    BY <1>1, <1>2, <1>6, <2>1, <2>3 DEF Links, InLink, msVars
  <2> QED BY <2>2, <2>3
<1>10. OutLink(s, r, fromSvc[s], toSvc[s])'
  BY <1>1, <1>2, <1>3, <1>8, <1>9, <1>11 DEF Links, OutLink
<1> QED BY <1>7, <1>9, <1>10, ServiceStepKeeps DEF Links, r

\* The TICK a service reads is the one its mirror service waits for.
LEMMA TickUpdateAt ==
  ASSUME ShardInv, NEW s \in Services, SvcHas(s, "TICK"), SvcConsume(s), s \in svcLinked
  PROVE  LET r == ms[Home[s]]
         IN /\ Playing(r, s) /\ ~Has(fromSvc[s], "TOCK") /\ s \in svcSynced
            /\ svcCycle[s] = r.GameCycle - 1 /\ r.GameCycle \in Nat
            /\ r.State = "ExpectingLocalTocks"
<1>1. Links(s, ms[Home[s]], fromSvc[s], toSvc[s])
  BY ServiceAt
<1>2. Has(toSvc[s], "TICK") /\ ~Has(toSvc[s], "REGISTERED")
  BY SvcReads
<1>3. ms[Home[s]].GameCycle \in Nat
  BY HomeAssumption DEF ShardInv, MasterInv, Types, MSTypes, MSRecord
<1> QED BY <1>1, <1>2, <1>3 DEF Links, OutLink, Due, Playing

LEMMA TickUpdateKeeps ==
  ASSUME ShardInv, NEW s \in Services, TickUpdate(s) PROVE ShardInv'
<1> DEFINE o == toSvc[s]
           v == Tail(o)
           q == fromSvc[s]
           r == ms[Home[s]]
           p == Append(q, Tock)
<1>1. /\ ServiceTypes /\ Links(s, r, q, o) /\ q \in Seq(FromServices)
  BY ServiceAt
<1>2. /\ SvcHas(s, "TICK") /\ SvcConsume(s)
      /\ svcCycle' = [svcCycle EXCEPT ![s] = @ + 1]
      /\ fromSvc' = IF s \in svcLinked THEN [fromSvc EXCEPT ![s] = p] ELSE fromSvc
      /\ UNCHANGED <<ticksVars, msVars, peer, svcLinked, svcUp, svcSynced>>
  BY DEF TickUpdate, svcElse
<1>3. /\ toSvc' \in [Services -> Seq(ToServices)] /\ toSvc'[s] = v
      /\ \A t \in Services \ {s} : toSvc'[t] = toSvc[t]
      /\ DownLast(v) /\ RegisteredFirst(v) /\ Once(v, "TICK") /\ Once(v, "REGISTERED")
      /\ ~Has(v, "TICK") /\ ~Has(o, "REGISTERED") /\ ~Has(v, "REGISTERED")
      /\ Has(v, "DOWN") <=> Has(o, "DOWN")
      /\ s \in svcUp /\ (s \notin svcLinked => Has(o, "DOWN"))
  BY <1>2, SvcReads
<1>4. s \in svcLinked => /\ Playing(r, s) /\ ~Has(q, "TOCK") /\ s \in svcSynced
                         /\ svcCycle[s] = r.GameCycle - 1 /\ r.GameCycle \in Nat
  BY <1>2, TickUpdateAt
<1>5. Tock \in FromServices /\ Tock.type = "TOCK"
  BY MessageTypes DEF FromServices
<1>6. /\ p \in Seq(FromServices)
      /\ \A type : Has(p, type) <=> Has(q, type) \/ type = "TOCK"
      /\ \A type : Once(q, type) /\ ("TOCK" = type => ~Has(q, type)) => Once(p, type)
      /\ ~Has(q, "DOWN") => DownLast(p)
  BY <1>1, <1>5, Sent
<1> HIDE DEF o, v, q, p, r
<1>7. /\ fromSvc' \in [Services -> Seq(FromServices)]
      /\ fromSvc'[s] = IF s \in svcLinked THEN p ELSE q
      /\ \A t \in Services \ {s} : fromSvc'[t] = fromSvc[t]
  BY <1>1, <1>2, <1>6 DEF ServiceTypes, q
<1>8. /\ svcCycle' \in [Services -> Nat] /\ svcCycle'[s] = svcCycle[s] + 1
      /\ \A t \in Services \ {s} : svcCycle'[t] = svcCycle[t]
  BY <1>1, <1>2 DEF ServiceTypes
<1>9. ServiceStep(s)
  BY <1>1, <1>2, <1>3, <1>7, <1>8 DEF ServiceStep, ServiceTypes
<1>10. r' = r
  BY <1>2 DEF r, msVars
<1>11. InLink(s, r, fromSvc[s])'
  <2>1. CASE s \in svcLinked
    <3>1. InLink(s, r, q) /\ ~Has(q, "DOWN")
      BY <1>1, <2>1 DEF Links, InLink
    <3>2. /\ DownLast(p) /\ ~Has(p, "DOWN") /\ Once(p, "REGISTER") /\ Once(p, "TOCK")
          /\ Has(p, "REGISTER") <=> Has(q, "REGISTER")
      BY <1>4, <1>6, <2>1, <3>1 DEF InLink
    <3> QED BY <1>2, <1>4, <1>7, <1>10, <2>1, <3>1, <3>2 DEF InLink, msVars
  <2>2. CASE s \notin svcLinked
    BY <1>1, <1>2, <1>7, <1>10, <2>2 DEF Links, InLink, msVars
  <2> QED BY <2>1, <2>2
<1>12. OutLink(s, r, fromSvc[s], toSvc[s])'
  <2>1. OutLink(s, r, q, o)
    BY <1>1 DEF Links
  <2>2. CASE s \in svcLinked
    <3>1. Due(r, v) = r.GameCycle
      BY <1>3, <1>4, <2>2 DEF Due
    <3>2. svcCycle'[s] = r.GameCycle
      BY <1>4, <1>8, <2>2
    <3>3. SyncIs(v, Due(r, v))
      BY <1>3, NoSync
    <3> QED BY <1>2, <1>3, <1>4, <1>10, <2>1, <2>2, <3>1, <3>2, <3>3 DEF OutLink
  <2>3. CASE s \notin svcLinked
    BY <1>2, <1>3, <1>10, <2>1, <2>3 DEF OutLink
  <2> QED BY <2>2, <2>3
<1> QED BY <1>9, <1>10, <1>11, <1>12, ServiceStepKeeps DEF Links, r

LEMMA CbTicksDownKeeps ==
  ASSUME ShardInv, NEW s \in Services, CbTicksDown(s) PROVE ShardInv'
<1> DEFINE q == fromSvc[s]
           r == ms[Home[s]]
<1>1. /\ ServiceTypes /\ Links(s, r, q, toSvc[s])
  BY ServiceAt
<1>2. /\ SvcHas(s, "DOWN") /\ SvcConsume(s) /\ svcSynced' = svcSynced \ {s}
      /\ svcUp' \in {svcUp, svcUp \ {s}}
      /\ UNCHANGED <<ticksVars, msVars, peer, fromSvc, svcLinked, svcCycle>>
  BY DEF CbTicksDown, svcElse
<1>3. /\ toSvc' \in [Services -> Seq(ToServices)] /\ toSvc'[s] = <<>>
      /\ \A t \in Services \ {s} : toSvc'[t] = toSvc[t]
      /\ Has(toSvc[s], "DOWN")
  BY <1>2, SvcReads
<1>4. s \notin svcLinked
  BY <1>1, <1>3 DEF Links, OutLink
<1> HIDE DEF q, r
<1>5. ServiceStep(s)
  BY <1>1, <1>2, <1>3 DEF ServiceStep, ServiceTypes
<1>6. r' = r /\ q' = q
  BY <1>2 DEF r, q, msVars
<1>7. InLink(s, r, q)'
  BY <1>1, <1>2, <1>4, <1>6 DEF Links, InLink, msVars
<1>8. OutLink(s, r, q, toSvc[s])'
  BY <1>2, <1>3, <1>4, EmptyQueue DEF OutLink
<1> QED BY <1>5, <1>7, <1>8, ServiceStepKeeps DEF Links, r, q

LEMMA SvcCrashKeeps ==
  ASSUME ShardInv, NEW s \in Services, NEW kept \in Nat, SvcCrash(s, kept) PROVE ShardInv'
<1> DEFINE q == fromSvc[s]
           r == ms[Home[s]]
           p == Cut(q, kept)
<1>1. /\ ServiceTypes /\ Links(s, r, q, toSvc[s]) /\ q \in Seq(FromServices)
  BY ServiceAt
<1>2. /\ s \in svcUp /\ svcUp' = svcUp \ {s} /\ svcSynced' = svcSynced \ {s}
      /\ svcLinked' = svcLinked \ {s} /\ toSvc' = [toSvc EXCEPT ![s] = <<>>]
      /\ fromSvc' = IF s \in svcLinked THEN [fromSvc EXCEPT ![s] = p] ELSE fromSvc
      /\ UNCHANGED <<ticksVars, msVars, peer, svcCycle>>
  BY DEF SvcCrash
<1>3. Down \in FromServices
  BY DEF FromServices
<1>4. ~Has(q, "DOWN") =>
        /\ p \in Seq(FromServices) /\ p # <<>> /\ Has(p, "DOWN") /\ DownLast(p)
        /\ \A type : Has(p, type) => Has(q, type) \/ type = "DOWN"
        /\ \A type : Once(q, type) /\ type # "DOWN" => Once(p, type)
  BY <1>1, <1>3, Broken
<1>5. s \in svcLinked => ~Has(q, "DOWN")
  BY <1>1 DEF Links, InLink
<1>6. <<>> \in Seq(ToServices)
  OBVIOUS
<1> HIDE DEF q, r, p
<1>7. /\ fromSvc' \in [Services -> Seq(FromServices)] /\ toSvc' \in [Services -> Seq(ToServices)]
      /\ fromSvc'[s] = (IF s \in svcLinked THEN p ELSE q) /\ toSvc'[s] = <<>>
      /\ \A t \in Services \ {s} : fromSvc'[t] = fromSvc[t] /\ toSvc'[t] = toSvc[t]
  BY <1>1, <1>2, <1>4, <1>5, <1>6 DEF ServiceTypes, q
<1>8. ServiceStep(s)
  BY <1>1, <1>2, <1>7 DEF ServiceStep, ServiceTypes
<1>9. r' = r
  BY <1>2 DEF r, msVars
<1>10. InLink(s, r, fromSvc[s])'
  <2>1. CASE s \in svcLinked
    <3>1. InLink(s, r, q)
      BY <1>1 DEF Links
    <3>2. /\ DownLast(p) /\ Has(p, "DOWN") /\ Once(p, "REGISTER") /\ Once(p, "TOCK")
          /\ Has(p, "REGISTER") => Has(q, "REGISTER")
          /\ Has(p, "TOCK") => Has(q, "TOCK")
      BY <1>4, <1>5, <2>1, <3>1 DEF InLink
    <3> QED BY <1>2, <1>7, <1>9, <2>1, <3>1, <3>2 DEF InLink
  <2>2. CASE s \notin svcLinked
    BY <1>1, <1>2, <1>7, <1>9, <2>2 DEF Links, InLink
  <2> QED BY <2>1, <2>2
<1>11. OutLink(s, r, fromSvc[s], toSvc[s])'
  BY <1>2, <1>7, EmptyQueue DEF OutLink
<1> QED BY <1>8, <1>10, <1>11, ServiceStepKeeps DEF Links, r

--------------------------------------------------------------------------------
\* The invariant of a shard.

LEMMA InitInv == ShardInit => ShardInv
<1> SUFFICES ASSUME ShardInit PROVE ShardInv
  OBVIOUS
<1>1. /\ CurrentMode = "TickRunning" /\ Pause = FALSE /\ TickSendingMode = "Continuous"
      /\ ClientInfos = [h \in Hosts |-> NoClient] /\ GameCycle = 0 /\ ticksUp = TRUE
      /\ toTicks = [m \in Hosts |-> <<>>] /\ toHost = [m \in Hosts |-> <<>>]
      /\ ms = [m \in Hosts |-> NewMS] /\ msUp = {} /\ msLinked = {}
      /\ peer = [p \in Pairs |-> <<>>] /\ fromSvc = [s \in Services |-> <<>>]
      /\ toSvc = [s \in Services |-> <<>>] /\ svcLinked = {}
      /\ svcUp = {} /\ svcCycle = [s \in Services |-> 0] /\ svcSynced = {}
  BY DEF ShardInit, Start, MSInit
<1>2. NoClient \in CClientInfos /\ Slot(NoClient) /\ ~NoClient.Registered
  BY NoClientSlot
<1>3. NewMS \in MSRecord /\ \A m \in Hosts : Sound(m, NewMS)
  BY NewMSRecord
<1>4. Types
  <2>1. /\ <<>> \in Seq(FromHosts) /\ <<>> \in Seq(ToHosts) /\ <<>> \in Seq(Between)
        /\ <<>> \in Seq(FromServices) /\ <<>> \in Seq(ToServices)
    OBVIOUS
  <2> QED BY <1>1, <1>2, <1>3, <2>1 DEF Types, TicksTypes, MSTypes, ServiceTypes
<1>5. Control
  BY <1>1, <1>2, MaxCycleAssumption DEF Control
<1>6. MasterLinks
  BY <1>1, <1>2 DEF MasterLinks, Link, Ended
<1>7. \A m \in Hosts : Sound(m, ms[m])
  BY <1>1, <1>3
<1>8. ServiceLinks
  <2> SUFFICES ASSUME NEW s \in Services
               PROVE  Links(s, ms[Home[s]], fromSvc[s], toSvc[s])
    BY DEF ServiceLinks
  <2>1. /\ fromSvc[s] = <<>> /\ toSvc[s] = <<>> /\ s \notin svcLinked /\ s \notin svcUp
        /\ s \notin svcSynced /\ ms[Home[s]].Services = {}
    BY <1>1, HomeAssumption DEF NewMS
  <2> QED BY <2>1, EmptyQueue DEF Links, InLink, OutLink
<1> QED BY <1>4, <1>5, <1>6, <1>7, <1>8 DEF ShardInv, MasterInv

\* A step of TICKS touches no connection of a service.
LEMMA TicksLeavesServices ==
  ASSUME ServiceLinks, UNCHANGED <<msVars, msNet, svcVars>> PROVE ServiceLinks'
BY DEF ServiceLinks, Links, InLink, OutLink, msVars, msNet, svcVars

LEMMA MSReceiveKeeps ==
  ASSUME ShardInv, NEW m \in Hosts, MSReceive(m) PROVE ShardInv'
<1>1. UNCHANGED svcVars
  BY DEF MSReceive
<1>2. CASE CbSyncFromMaster(m)
  BY <1>1, <1>2, CbSyncFromMasterKeeps
<1>3. CASE MasterTick(m)
  BY <1>1, <1>3, MasterTickKeeps
<1>4. ASSUME NEW s \in Local(m),
             \/ CbRegisterToTickSystem(m, s) \/ CbClientTock(m, s) \/ CbServiceDown(m, s)
             \/ DeclareDataSets(m, s) \/ CbForwardACKATE(m, s)
      PROVE  ShardInv'
  <2>1. s \in Services
    BY DEF Local
  <2> QED BY <1>1, <1>4, <2>1, CbRegisterToTickSystemKeeps, CbClientTockKeeps,
             CbServiceDownKeeps, DeclareDataSetsKeeps, CbForwardACKATEKeeps
<1>5. ASSUME NEW n \in Hosts \ {m},
             AddRemoteMS(n, m) \/ ReceiveDeltaFromRemoteMS(n, m) \/ RemoveRemoteMS(n, m)
      PROVE  ShardInv'
  BY <1>1, <1>5, AddRemoteMSKeeps, ReceiveDeltaFromRemoteMSKeeps, RemoveRemoteMSKeeps
<1> QED BY <1>2, <1>3, <1>4, <1>5 DEF MSReceive

LEMMA SvcReceiveKeeps ==
  ASSUME ShardInv, NEW s \in Services, SvcReceive(s) PROVE ShardInv'
BY CbRegisteredKeeps, TickUpdateKeeps, CbTicksDownKeeps, ReceiveTrackerKeeps DEF SvcReceive

LEMMA StepKeeps ==
  ASSUME ShardInv, [ShardNext]_shardVars PROVE ShardInv'
<1>1. MasterInv /\ ServiceLinks
  BY DEF ShardInv
<1>2. ASSUME NEW m \in Hosts, TicksStep(m) PROVE ShardInv'
  <2>1. MasterInv'
    BY <1>1, <1>2, TicksMaster
  <2>2. ServiceLinks'
    BY <1>1, <1>2, TicksLeavesServices DEF TicksStep
  <2> QED BY <2>1, <2>2 DEF ShardInv
<1>3. CASE TicksOperator
  <2>1. MasterInv'
    BY <1>1, <1>3, TicksOperatorMaster
  <2>2. ServiceLinks'
    BY <1>1, <1>3, TicksLeavesServices DEF TicksOperator
  <2> QED BY <2>1, <2>2 DEF ShardInv
<1>4. ASSUME NEW m \in Hosts, MSReceive(m) PROVE ShardInv'
  BY <1>4, MSReceiveKeeps
<1>5. ASSUME NEW m \in Hosts, MSConnects(m) PROVE ShardInv'
  BY <1>5, CbTPTicksUpKeeps DEF MSConnects
<1>6. ASSUME NEW m \in Hosts, MSStarts(m) PROVE ShardInv'
  BY <1>6, MSStartKeeps DEF MSStarts
<1>7. ASSUME NEW s \in Services, SvcReceive(s) PROVE ShardInv'
  BY <1>7, SvcReceiveKeeps
<1>8. ASSUME NEW s \in Services, SvcStart(s) \/ CbTicksUp(s) \/ DoInitMirrorLevel1(s)
      PROVE  ShardInv'
  BY <1>8, SvcStartKeeps, CbTicksUpKeeps, DoInitMirrorLevel1Keeps
<1>9. ASSUME NEW s \in Services, NEW kept \in 0 .. 2, SvcCrash(s, kept) PROVE ShardInv'
  BY <1>9, SvcCrashKeeps
<1>10. ASSUME NEW m \in Hosts, SentToNobody(m) PROVE ShardInv'
  BY <1>10, SentToNobodyKeeps
<1>11. ASSUME NEW m \in Hosts, NEW kept \in 0 .. 2, MSCrashes(m, kept) PROVE ShardInv'
  <2>1. kept \in Nat /\ MSCrash(m, kept) /\ UNCHANGED svcVars
    BY <1>11 DEF MSCrashes
  <2> QED BY <2>1, MSCrashKeeps
<1>12. ASSUME UNCHANGED shardVars PROVE ShardInv'
  <2>1. UNCHANGED <<ticksVars, msVars, msNet, svcVars>>
    BY <1>12 DEF shardVars
  <2>2. ServiceLinks'
    BY <1>1, <2>1, TicksLeavesServices
  <2>3. MasterInv'
    BY <1>1, <2>1 DEF MasterInv, Types, TicksTypes, MSTypes, ServiceTypes, Control,
                      MasterLinks, Link, Sound, ticksVars, msVars, msNet, svcVars
  <2> QED BY <2>2, <2>3 DEF ShardInv
<1> QED BY <1>2, <1>3, <1>4, <1>5, <1>6, <1>7, <1>8, <1>9, <1>10, <1>11, <1>12
         DEF ShardNext, ShardNextNoMSCrash

LEMMA ShardAlways == ShardSpec => []ShardInv
<1>1. ShardInv /\ [ShardNext]_shardVars => ShardInv'
  BY StepKeeps
<1> QED BY InitInv, <1>1, PTL DEF ShardSpec

\* nlassert of sendTicks(): a mirror service that gets a TICK has answered the one
\* before, whatever services and mirror services have come and crashed in between.
THEOREM TicksAreExpected == ShardSpec => []MasterTickExpected
<1>1. ShardInv => MasterTickExpected
  <2> SUFFICES ASSUME ShardInv, NEW m \in Hosts, MasterHas(m, "TICK")
               PROVE  ms[m].State = "ExpectingMasterTick"
    BY DEF MasterTickExpected
  <2>1. /\ toHost[m] # <<>> /\ Head(toHost[m]).type = "TICK"
        /\ Opened(ms[m], GameCycle, ClientInfos[m], toTicks[m], toHost[m])
    BY MasterReads
  <2> QED BY <2>1, TickFirst
<1> QED BY <1>1, ShardAlways, PTL

\* nlassert of cbTock(): the TOCK of a service is one for the tick its mirror service
\* is in, also when the service came, or another left, during that tick.
THEOREM TocksAreExpected == ShardSpec => []TockExpected
<1>1. ShardInv => TockExpected
  <2> SUFFICES ASSUME ShardInv, NEW s \in Services, ServiceHas(s, "TOCK")
               PROVE  ms[Home[s]].State = "ExpectingLocalTocks"
    BY DEF TockExpected
  <2>1. Links(s, ms[Home[s]], fromSvc[s], toSvc[s]) /\ fromSvc[s] \in Seq(FromServices)
    BY ServiceAt
  <2>2. Has(fromSvc[s], "TOCK")
    BY <2>1, Read DEF ServiceHas
  <2> QED BY <2>1, <2>2 DEF Links, InLink, Playing
<1> QED BY <1>1, ShardAlways, PTL

\* nlassert of doNextTask(): services that come or go while a mirror service waits for
\* deltas leave it with as many tocks as services.
THEOREM TocksStand == ShardSpec => []TocksStandWithDeltaSent
<1>1. ShardInv => TocksStandWithDeltaSent
  <2> SUFFICES ASSUME ShardInv, NEW m \in Hosts, ms[m].DeltaSent
               PROVE  CheckIfAllClientTocksReceived(ms[m])
    BY DEF TocksStandWithDeltaSent
  <2>1. Sound(m, ms[m]) /\ ms[m] \in MSRecord
    BY DEF ShardInv, MasterInv, Types, MSTypes
  <2>2. ms[m].State = "ExpectingLocalTocks"
    BY <2>1 DEF Sound, MSRecord
  <2>3. ms[m].TockedServices \cap ms[m].Services = ms[m].Services
    BY <2>1 DEF Sound
  <2> QED BY <2>1, <2>2, <2>3 DEF Sound, CheckIfAllClientTocksReceived
<1> QED BY <1>1, ShardAlways, PTL

--------------------------------------------------------------------------------
\* A shard implements the lock step of its services.

\* The services in the game.
InGame == svcSynced \cap svcLinked

\* A mirror service that has its sync is in the cycle of TICKS, or in the one before
\* while the TICK is on its way to it.
LEMMA SyncdMirror ==
  ASSUME MasterLinks, NEW m \in Hosts, ms[m].Syncd
  PROVE  /\ ms[m].GameCycle \in {GameCycle, GameCycle - 1}
         /\ ms[m].State = "ExpectingLocalTocks" => ms[m].GameCycle = GameCycle
<1>1. Link(m, ms[m], GameCycle, ClientInfos[m], toTicks[m], toHost[m])
  BY DEF MasterLinks
<1>2. CASE m \in msUp
  BY <1>1, <1>2 DEF Link, Opened
<1>3. CASE m \notin msUp
  BY <1>1, <1>3 DEF Link, NewMS
<1> QED BY <1>2, <1>3

\* What a connected service has, or is about to have, as its cycle.
LEMMA DueCycle ==
  ASSUME ShardInv, NEW s \in svcLinked, s \in svcSynced \/ Has(toSvc[s], "REGISTERED")
  PROVE  LET r == ms[Home[s]]
         IN /\ s \in Services /\ Home[s] \in Hosts
            /\ GameCycle \in Nat /\ r.GameCycle \in Nat /\ r.Syncd
            /\ r.GameCycle \in {GameCycle, GameCycle - 1}
            /\ r.State = "ExpectingLocalTocks" => r.GameCycle = GameCycle
            /\ Has(toSvc[s], "TICK") => r.State = "ExpectingLocalTocks"
            /\ Due(r, toSvc[s]) \in {GameCycle, GameCycle - 1}
            /\ s \in svcSynced => svcCycle[s] = Due(r, toSvc[s])
<1>1. /\ s \in Services /\ Home[s] \in Hosts /\ MasterLinks
      /\ GameCycle \in Nat /\ ms[Home[s]].GameCycle \in Nat
      /\ Links(s, ms[Home[s]], fromSvc[s], toSvc[s])
  BY HomeAssumption DEF ShardInv, MasterInv, Types, MSTypes, MSRecord, ServiceTypes, Control,
                        ServiceLinks
<1>2. /\ ms[Home[s]].Syncd
      /\ Has(toSvc[s], "TICK") => ms[Home[s]].State = "ExpectingLocalTocks"
      /\ s \in svcSynced => svcCycle[s] = Due(ms[Home[s]], toSvc[s])
  BY <1>1 DEF Links, OutLink, Playing
<1>3. /\ ms[Home[s]].GameCycle \in {GameCycle, GameCycle - 1}
      /\ ms[Home[s]].State = "ExpectingLocalTocks" => ms[Home[s]].GameCycle = GameCycle
  BY <1>1, <1>2, SyncdMirror
<1> QED BY <1>1, <1>2, <1>3 DEF Due

\* The abstract state.
LEMMA PlayedBy ==
  ASSUME ShardInv
  PROVE  /\ InGame \in SUBSET Services /\ Lock!Present = InGame
         /\ Played = [s \in Services |-> IF s \in InGame THEN svcCycle[s] ELSE -1]
         /\ \A s \in Services : svcCycle[s] \in Nat
         /\ \A s \in Services : Played[s] = Lock!Absent <=> s \notin InGame
<1>1. /\ svcSynced \in SUBSET Services /\ \A s \in Services : svcCycle[s] \in Nat
  BY DEF ShardInv, MasterInv, Types, ServiceTypes
<1>2. Played = [s \in Services |-> IF s \in InGame THEN svcCycle[s] ELSE -1]
  BY DEF Played, InGame
<1>3. \A s \in Services : Played[s] = -1 <=> s \notin InGame
  BY <1>1, <1>2
<1> QED BY <1>1, <1>2, <1>3 DEF InGame, Lock!Present, Lock!Absent

\* Steps that leave the services of the game, and their cycles, alone.
LEMMA SamePlayed ==
  ASSUME ShardInv, ShardInv', InGame' = InGame, GameCycle' = GameCycle,
         \A s \in InGame : svcCycle'[s] = svcCycle[s]
  PROVE  [Lock!LockNext]_(Lock!lockVars)
<1>1. Played' = [s \in Services |-> IF s \in InGame' THEN svcCycle'[s] ELSE -1]
  BY DEF Played, InGame
<1>2. Played' = Played
  BY <1>1, PlayedBy
<1> QED BY <1>2 DEF Lock!lockVars

\* Services that leave the game, or none.
LEMMA LeftPlayed ==
  ASSUME ShardInv, ShardInv', NEW P \in SUBSET Services, InGame' = InGame \ P,
         GameCycle' = GameCycle, svcCycle' = svcCycle
  PROVE  [Lock!LockNext]_(Lock!lockVars)
<1> DEFINE Q == P \cap InGame
<1>1. Played' = [s \in Services |-> IF s \in InGame' THEN svcCycle'[s] ELSE -1]
  BY DEF Played, InGame
<1>2. CASE Q = {}
  <2>1. InGame' = InGame
    BY <1>2
  <2> QED BY <2>1, SamePlayed
<1>3. CASE Q # {}
  <2>1. Q \in SUBSET Lock!Present
    BY PlayedBy
  <2>2. Played' = [s \in Services |-> IF s \in Q THEN Lock!Absent ELSE Played[s]]
    BY <1>1, PlayedBy DEF Lock!Absent
  <2>3. Lock!Leave(Q)
    BY <1>3, <2>1, <2>2 DEF Lock!Leave
  <2> QED BY <2>1, <2>3 DEF Lock!LockNext
<1> QED BY <1>2, <1>3

\* A service that reads its sync joins the game.
LEMMA CbRegisteredJoins ==
  ASSUME ShardInv, ShardInv', NEW s \in Services, CbRegistered(s)
  PROVE  [Lock!LockNext]_(Lock!lockVars)
<1> DEFINE o == toSvc[s]
           c == Head(o).cycle
<1>1. /\ SvcHas(s, "REGISTERED") /\ SvcConsume(s)
      /\ svcCycle' = [svcCycle EXCEPT ![s] = c] /\ svcSynced' = svcSynced \cup {s}
      /\ UNCHANGED <<GameCycle, svcLinked>>
  BY DEF CbRegistered, svcElse, ticksVars
<1>2. Links(s, ms[Home[s]], fromSvc[s], o) /\ svcCycle \in [Services -> Nat]
  BY ServiceAt DEF ServiceTypes
<1>3. Has(o, "REGISTERED") /\ \A k : SyncIs(o, k) => c = k
  BY <1>1, SvcReads
<1>4. s \notin InGame /\ (InGame' = IF s \in svcLinked THEN InGame \cup {s} ELSE InGame)
  BY <1>1, <1>2, <1>3 DEF Links, OutLink, InGame
<1> HIDE DEF c
<1>5. CASE s \notin svcLinked
  <2>1. \A t \in InGame : svcCycle'[t] = svcCycle[t]
    BY <1>1, <1>2, <1>4, PlayedBy
  <2> QED BY <1>1, <1>4, <1>5, <2>1, SamePlayed
<1>6. CASE s \in svcLinked
  <2>1. c \in {GameCycle, GameCycle - 1}
    BY <1>2, <1>3, <1>6, DueCycle DEF Links, OutLink
  <2>2. c >= 0
    <3>1. svcCycle'[s] = c
      BY <1>1, <1>2
    <3>2. svcCycle'[s] \in Nat
      BY DEF ShardInv, MasterInv, Types, ServiceTypes
    <3> QED BY <3>1, <3>2
  <2>3. Played' = [t \in Services |-> IF t \in InGame' THEN svcCycle'[t] ELSE -1]
    BY DEF Played, InGame
  <2>4. Played' = [Played EXCEPT ![s] = c]
    BY <1>1, <1>2, <1>4, <1>6, <2>3, PlayedBy
  <2>5. Played[s] = Lock!Absent
    BY <1>4, PlayedBy
  <2>6. Lock!Join(s)
    BY <1>1, <2>1, <2>2, <2>4, <2>5 DEF Lock!Join
  <2> QED BY <2>6 DEF Lock!LockNext
<1> QED BY <1>5, <1>6

\* A service that reads a TICK plays the cycle.
LEMMA TickUpdatePlays ==
  ASSUME ShardInv, ShardInv', NEW s \in Services, TickUpdate(s)
  PROVE  [Lock!LockNext]_(Lock!lockVars)
<1>1. /\ SvcHas(s, "TICK") /\ SvcConsume(s) /\ svcCycle' = [svcCycle EXCEPT ![s] = @ + 1]
      /\ UNCHANGED <<GameCycle, svcLinked, svcSynced>>
  BY DEF TickUpdate, svcElse, ticksVars
<1>2. svcCycle \in [Services -> Nat] /\ InGame' = InGame
  BY <1>1, ServiceAt DEF ServiceTypes, InGame
<1>3. CASE s \notin svcLinked
  <2>1. \A t \in InGame : svcCycle'[t] = svcCycle[t]
    BY <1>1, <1>2, <1>3, PlayedBy DEF InGame
  <2> QED BY <1>1, <1>2, <2>1, SamePlayed
<1>4. CASE s \in svcLinked
  <2>1. /\ s \in svcSynced /\ svcCycle[s] = ms[Home[s]].GameCycle - 1
        /\ ms[Home[s]].GameCycle \in Nat /\ ms[Home[s]].State = "ExpectingLocalTocks"
    BY <1>1, <1>4, TickUpdateAt
  <2>2. ms[Home[s]].GameCycle = GameCycle
    BY <1>4, <2>1, DueCycle
  <2>3. s \in InGame
    BY <1>4, <2>1 DEF InGame
  <2>4. Played[s] = svcCycle[s] /\ Played[s] + 1 = GameCycle /\ svcCycle[s] + 1 = GameCycle
    BY <2>1, <2>2, <2>3, PlayedBy
  <2>5. Played' = [t \in Services |-> IF t \in InGame' THEN svcCycle'[t] ELSE -1]
    BY DEF Played, InGame
  <2>6. Played' = [Played EXCEPT ![s] = GameCycle]
    BY <1>1, <1>2, <2>3, <2>4, <2>5, PlayedBy
  <2>7. Lock!Play(s)
    BY <1>1, <2>3, <2>4, <2>6, PlayedBy DEF Lock!Play
  <2> QED BY <2>7 DEF Lock!LockNext
<1> QED BY <1>3, <1>4

\* TICKS goes to the next cycle or stays in its own.
LEMMA TicksCycle ==
  ASSUME ShardInv, \/ \E m \in Hosts : TicksStep(m)
                   \/ TicksOperator
  PROVE  GameCycle' \in {GameCycle, GameCycle + 1}
<1>1. GameCycle \in Nat /\ GameCycle < MaxCycle
  BY DEF ShardInv, MasterInv, Control, TicksStep, TicksOperator
<1>2. (GameCycle + 1) % CycleMod = GameCycle + 1
  BY <1>1, SmallMod, MaxCycleAssumption, CycleModAssumption
<1>3. ASSUME NEW infos, NEW mode, NEW paused, NEW out, CheckTockReceived(infos, mode, paused, out)
      PROVE  GameCycle' \in {GameCycle, GameCycle + 1}
  BY <1>2, <1>3 DEF CheckTockReceived, BroadcastTick
<1>4. ASSUME NEW m \in Hosts, CbRegister(m)
      PROVE  GameCycle' \in {GameCycle, GameCycle + 1}
  BY <1>3, <1>4 DEF CbRegister
<1>5. ASSUME NEW m \in Hosts, CbTock(m) \/ CbClientDisconnection(m)
      PROVE  GameCycle' \in {GameCycle, GameCycle + 1}
  BY <1>3, <1>5 DEF CbTock, CbClientDisconnection
<1>6. CASE HaltTick \/ ResumeTick
  BY <1>3, <1>6 DEF HaltTick, ResumeTick
<1> QED BY <1>4, <1>5, <1>6 DEF TicksStep, TicksOperator

\* The next cycle starts when every service in the game has played the one before.
LEMMA TicksNextCycle ==
  ASSUME ShardInv, ShardInv', UNCHANGED <<msVars, msNet, svcVars>>,
         GameCycle' \in {GameCycle, GameCycle + 1}
  PROVE  [Lock!LockNext]_(Lock!lockVars)
<1>1. /\ InGame' = InGame /\ svcCycle' = svcCycle /\ toSvc' = toSvc /\ ms' = ms
      /\ GameCycle \in Nat
  BY DEF InGame, msVars, msNet, svcVars, ShardInv, MasterInv, Control
<1>2. CASE GameCycle' = GameCycle
  BY <1>1, <1>2, SamePlayed
<1>3. CASE GameCycle' = GameCycle + 1
  <2>1. ASSUME NEW s \in InGame PROVE svcCycle[s] = GameCycle
    <3>1. s \in svcLinked /\ s \in svcSynced
      BY DEF InGame
    <3>2. /\ ms[Home[s]].GameCycle \in {GameCycle, GameCycle - 1}
          /\ Has(toSvc[s], "TICK") => ms[Home[s]].State = "ExpectingLocalTocks"
          /\ svcCycle[s] = Due(ms[Home[s]], toSvc[s])
          /\ Home[s] \in Hosts /\ ms[Home[s]].Syncd /\ ms[Home[s]].GameCycle \in Nat
      BY <3>1, DueCycle
    <3>3. /\ ms'[Home[s]].GameCycle \in {GameCycle', GameCycle' - 1}
          /\ ms'[Home[s]].State = "ExpectingLocalTocks" => ms'[Home[s]].GameCycle = GameCycle'
      <4>1. MasterLinks' /\ ms'[Home[s]].Syncd
        BY <1>1, <3>2 DEF ShardInv, MasterInv
      <4> DEFINE m == Home[s]
      <4>2. m \in Hosts /\ ms'[m].Syncd
        BY <3>2, <4>1
      <4> HIDE DEF m
      <4>3. /\ ms'[m].GameCycle \in {GameCycle', GameCycle' - 1}
            /\ ms'[m].State = "ExpectingLocalTocks" => ms'[m].GameCycle = GameCycle'
        <5>1. Link(m, ms[m], GameCycle, ClientInfos[m], toTicks[m], toHost[m])'
          BY <4>1, <4>2 DEF MasterLinks
        <5>2. CASE m \in msUp'
          BY <4>2, <5>1, <5>2 DEF Link, Opened
        <5>3. CASE m \notin msUp'
          BY <4>2, <5>1, <5>3 DEF Link, NewMS
        <5> QED BY <5>2, <5>3
      <4> QED BY <4>3 DEF m
    <3>4. ms[Home[s]].GameCycle = GameCycle /\ ms[Home[s]].State # "ExpectingLocalTocks"
      BY <1>1, <1>3, <3>2, <3>3
    <3> QED BY <3>2, <3>4 DEF Due
  <2>2. \A s \in Lock!Present : Played[s] = GameCycle
    BY <2>1, PlayedBy
  <2>3. Played' = Played
    BY <1>1 DEF Played, InGame, svcVars, msNet
  <2>4. Lock!NextCycle
    BY <1>3, <2>2, <2>3 DEF Lock!NextCycle
  <2> QED BY <2>4 DEF Lock!LockNext
<1> QED BY <1>2, <1>3

\* Steps of the mirror services and of the network between them.
LEMMA MirrorStepsStutter ==
  ASSUME ShardInv, ShardInv', NEW m \in Hosts,
         MSReceive(m) \/ MSConnects(m) \/ MSStarts(m) \/ SentToNobody(m)
  PROVE  [Lock!LockNext]_(Lock!lockVars)
<1>1. UNCHANGED <<GameCycle, svcLinked, svcVars>>
  <2>1. CASE MSReceive(m)
    BY <2>1 DEF MSReceive, CbSyncFromMaster, MasterTick, CbRegisterToTickSystem, CbClientTock,
                CbServiceDown, DeclareDataSets, CbForwardACKATE, AddRemoteMS,
                ReceiveDeltaFromRemoteMS, RemoveRemoteMS, ticksState
  <2>2. CASE MSConnects(m)
    BY <2>2 DEF MSConnects, CbTPTicksUp, ticksState, msNet
  <2>3. CASE MSStarts(m)
    BY <2>3 DEF MSStarts, MSStart, ticksState
  <2>4. CASE SentToNobody(m)
    BY <2>4 DEF SentToNobody, LoseSent, msNet
  <2> QED BY <2>1, <2>2, <2>3, <2>4
<1>2. InGame' = InGame /\ svcCycle' = svcCycle
  BY <1>1 DEF InGame, svcVars
<1> QED BY <1>1, <1>2, SamePlayed

\* Steps of a service that is not in the game, or that are none of the game.
LEMMA ServiceStepsStutter ==
  ASSUME ShardInv, ShardInv', NEW s \in Services,
         \/ SvcStart(s) \/ CbTicksUp(s) \/ DoInitMirrorLevel1(s)
         \/ ReceiveTracker(s) \/ CbTicksDown(s)
  PROVE  [Lock!LockNext]_(Lock!lockVars)
<1>1. Links(s, ms[Home[s]], fromSvc[s], toSvc[s]) /\ svcCycle \in [Services -> Nat]
  BY ServiceAt DEF ServiceTypes
<1>2. CASE SvcStart(s)
  <2>1. /\ s \notin svcUp /\ svcCycle' = [svcCycle EXCEPT ![s] = 0]
        /\ UNCHANGED <<GameCycle, svcLinked, svcSynced>>
    BY <1>2 DEF SvcStart, svcElse, ticksVars
  <2>2. s \notin InGame /\ InGame' = InGame
    BY <1>1, <2>1 DEF Links, InLink, InGame
  <2>3. \A t \in InGame : svcCycle'[t] = svcCycle[t]
    BY <1>1, <2>1, <2>2, PlayedBy
  <2> QED BY <2>1, <2>2, <2>3, SamePlayed
<1>3. CASE CbTicksUp(s)
  <2>1. /\ s \notin svcLinked /\ toSvc[s] = <<>> /\ svcLinked' = svcLinked \cup {s}
        /\ UNCHANGED <<GameCycle, svcCycle, svcSynced>>
    BY <1>3 DEF CbTicksUp, svcElse, ticksVars, svcVars
  <2>2. s \notin svcSynced
    BY <1>1, <2>1, EmptyQueue DEF Links, OutLink
  <2>3. InGame' = InGame
    BY <2>1, <2>2 DEF InGame
  <2> QED BY <2>1, <2>3, SamePlayed
<1>4. CASE DoInitMirrorLevel1(s) \/ ReceiveTracker(s)
  <2>1. UNCHANGED <<GameCycle, svcLinked, svcCycle, svcSynced>>
    BY <1>4 DEF DoInitMirrorLevel1, ReceiveTracker, svcElse, ticksVars, svcVars
  <2>2. InGame' = InGame
    BY <2>1 DEF InGame
  <2> QED BY <2>1, <2>2, SamePlayed
<1>5. CASE CbTicksDown(s)
  <2>1. /\ SvcHas(s, "DOWN") /\ SvcConsume(s) /\ svcSynced' = svcSynced \ {s}
        /\ UNCHANGED <<GameCycle, svcLinked, svcCycle>>
    BY <1>5 DEF CbTicksDown, svcElse, ticksVars
  <2>2. Has(toSvc[s], "DOWN")
    BY <2>1, SvcReads
  <2>3. s \notin svcLinked
    BY <1>1, <2>2 DEF Links, OutLink
  <2>4. InGame' = InGame
    BY <2>1, <2>3 DEF InGame
  <2> QED BY <2>1, <2>4, SamePlayed
<1> QED BY <1>2, <1>3, <1>4, <1>5

LEMMA StepLocks ==
  ASSUME ShardInv, ShardInv', [ShardNext]_shardVars
  PROVE  [Lock!LockNext]_(Lock!lockVars)
<1>1. CASE (\E m \in Hosts : TicksStep(m)) \/ TicksOperator
  <2>1. GameCycle' \in {GameCycle, GameCycle + 1}
    BY <1>1, TicksCycle
  <2>2. UNCHANGED <<msVars, msNet, svcVars>>
    BY <1>1 DEF TicksStep, TicksOperator
  <2> QED BY <2>1, <2>2, TicksNextCycle
<1>2. ASSUME NEW m \in Hosts, MSReceive(m) \/ MSConnects(m) \/ MSStarts(m) \/ SentToNobody(m)
      PROVE  [Lock!LockNext]_(Lock!lockVars)
  BY <1>2, MirrorStepsStutter
<1>3. ASSUME NEW s \in Services, SvcReceive(s)
      PROVE  [Lock!LockNext]_(Lock!lockVars)
  BY <1>3, CbRegisteredJoins, TickUpdatePlays, ServiceStepsStutter DEF SvcReceive
<1>4. ASSUME NEW s \in Services, SvcStart(s) \/ CbTicksUp(s) \/ DoInitMirrorLevel1(s)
      PROVE  [Lock!LockNext]_(Lock!lockVars)
  BY <1>4, ServiceStepsStutter
<1>5. ASSUME NEW s \in Services, NEW kept \in 0 .. 2, SvcCrash(s, kept)
      PROVE  [Lock!LockNext]_(Lock!lockVars)
  <2>1. InGame' = InGame \ {s} /\ GameCycle' = GameCycle /\ svcCycle' = svcCycle
    BY <1>5 DEF SvcCrash, InGame, ticksVars
  <2> QED BY <2>1, LeftPlayed
<1>6. ASSUME NEW m \in Hosts, NEW kept \in 0 .. 2, MSCrashes(m, kept)
      PROVE  [Lock!LockNext]_(Lock!lockVars)
  <2>1. InGame' = InGame \ Local(m) /\ GameCycle' = GameCycle /\ svcCycle' = svcCycle
    BY <1>6 DEF MSCrashes, MSCrash, InGame, ticksState, svcVars
  <2>2. Local(m) \in SUBSET Services
    BY DEF Local
  <2> QED BY <2>1, <2>2, LeftPlayed
<1>7. CASE UNCHANGED shardVars
  <2>1. InGame' = InGame /\ GameCycle' = GameCycle /\ svcCycle' = svcCycle
    BY <1>7 DEF shardVars, InGame, ticksVars, msNet, svcVars
  <2> QED BY <2>1, SamePlayed
<1> QED BY <1>1, <1>2, <1>3, <1>4, <1>5, <1>6, <1>7 DEF ShardNext, ShardNextNoMSCrash

\* Through the three levels of processes, and whatever services and mirror services come
\* and crash, the services of a shard play in lock step: the shard implements LockSpec,
\* so that none is ever more than one cycle away from another.
THEOREM ShardPlaysInLockStep == ShardSpec => ServicesPlayInLockStep
<1>1. ShardInit => Lock!LockInit
  <2> SUFFICES ASSUME ShardInit PROVE Lock!LockInit
    OBVIOUS
  <2>1. GameCycle = 0 /\ svcSynced = {}
    BY DEF ShardInit, Start
  <2>2. Played = [s \in Services |-> -1]
    BY <2>1 DEF Played
  <2> QED BY <2>1, <2>2 DEF Lock!LockInit, Lock!Absent
<1>2. ShardInv /\ ShardInv' /\ [ShardNext]_shardVars => [Lock!LockNext]_(Lock!lockVars)
  BY StepLocks
<1> QED BY <1>1, <1>2, ShardAlways, PTL DEF ShardSpec, ServicesPlayInLockStep, Lock!LockSpec
================================================================================
