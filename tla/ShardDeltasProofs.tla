--------------------------- MODULE ShardDeltasProofs ---------------------------
(* Proofs about the deltas of a whole shard and the clocks of its processes, on *)
(* the invariant of GameCycleProofs.                                            *)
(*                                                                              *)
(* CycleInv adds to it the services that have lost their mirror service, and    *)
(* DeltaInv the deltas of the present cycle: one mirror service sends another   *)
(* at most one, and NbReceived never exceeds the number of those that have come *)
(* from one it waits for (with X = {}; of those that have come from any, with   *)
(* X = Hosts, when mirror services are lost).  Acted says what a handler of a   *)
(* mirror service owes the automaton for the deltas, Acts what the automaton    *)
(* does with them, ActsKeepDeltas that both together keep the invariant.        *)
EXTENDS GameCycleProofs

--------------------------------------------------------------------------------
\* The cycle of a service that has lost its mirror service, which may still read what
\* that one had sent.
SyncUpTo(q, c) == \A i \in 1 .. Len(q) : q[i].type = "REGISTERED" => q[i].cycle <= c
LastSync(o) == GameCycle - IF Has(o, "TICK") THEN 1 ELSE 0

InTime(s, o) ==
  /\ SyncUpTo(o, LastSync(o))
  /\ Has(o, "TICK") /\ s \in svcSynced => svcCycle[s] < GameCycle
CycleInv ==
  \A s \in Services : svcCycle[s] <= GameCycle /\ (s \notin svcLinked => InTime(s, toSvc[s]))

LEMMA SyncUpToRead ==
  ASSUME NEW S, NEW q \in Seq(S), q # <<>>, NEW c, SyncUpTo(q, c)
  PROVE  SyncUpTo(Tail(q), c) /\ (Head(q).type = "REGISTERED" => Head(q).cycle <= c)
<1> DEFINE p == Tail(q)
<1>1. /\ Len(q) \in Nat /\ Len(p) + 1 = Len(q) /\ Len(p) \in Nat
      /\ \A i \in 1 .. Len(p) : p[i] = q[i + 1] /\ i + 1 \in 1 .. Len(q)
      /\ 1 \in 1 .. Len(q) /\ Head(q) = q[1]
  <2>1. /\ Len(q) \in Nat /\ Len(p) + 1 = Len(q) /\ Len(p) \in Nat
        /\ 1 \in 1 .. Len(q) /\ Head(q) = q[1]
    OBVIOUS
  <2>2. \A i \in 1 .. Len(p) : p[i] = q[i + 1] /\ i + 1 \in 1 .. Len(q)
    OBVIOUS
  <2> QED BY <2>1, <2>2
<1> HIDE DEF p
<1>2. SyncUpTo(p, c)
  BY <1>1 DEF SyncUpTo
<1>3. Head(q).type = "REGISTERED" => Head(q).cycle <= c
  BY <1>1 DEF SyncUpTo
<1> QED BY <1>2, <1>3 DEF p

LEMMA NoSyncUpTo ==
  ASSUME NEW q, NEW c, ~Has(q, "REGISTERED") PROVE SyncUpTo(q, c)
BY DEF Has, SyncUpTo

\* A connected service is in time, by the invariant of the shard.
LEMMA LinkedInTime ==
  ASSUME ShardInv, NEW s \in svcLinked
  PROVE  /\ s \in svcSynced => svcCycle[s] <= GameCycle
         /\ s \in svcSynced /\ Has(toSvc[s], "TICK") => svcCycle[s] < GameCycle
         /\ Has(toSvc[s], "REGISTERED") =>
              \E c \in Int : SyncIs(toSvc[s], c) /\ c <= LastSync(toSvc[s])
<1> DEFINE o == toSvc[s]
           r == ms[Home[s]]
<1>1. s \in svcSynced \/ Has(o, "REGISTERED") =>
        /\ s \in Services /\ GameCycle \in Nat /\ r.GameCycle \in Nat
        /\ r.GameCycle \in {GameCycle, GameCycle - 1}
        /\ s \in svcSynced => svcCycle[s] = Due(r, o)
  BY DueCycle
<1>2. s \in Services
  BY DEF ShardInv, MasterInv, Types, ServiceTypes
<1>3. SyncIs(o, Due(r, o))
  BY <1>2, ServiceAt DEF Links, OutLink
<1>4. s \in svcSynced \/ Has(o, "REGISTERED") => Due(r, o) \in Int /\ Due(r, o) <= LastSync(o)
  BY <1>1 DEF Due, LastSync
<1>5. s \in svcSynced \/ Has(o, "REGISTERED") =>
        /\ LastSync(o) <= GameCycle
        /\ Has(o, "TICK") => LastSync(o) < GameCycle
        /\ LastSync(o) \in Int
  BY <1>1 DEF LastSync
<1> QED BY <1>1, <1>3, <1>4, <1>5

LEMMA CycleOf ==
  ASSUME ShardInv
  PROVE  /\ GameCycle \in Nat /\ svcCycle \in [Services -> Nat]
         /\ \A s \in Services : toSvc[s] \in Seq(ToServices) /\ svcCycle[s] \in Nat
         /\ svcLinked \in SUBSET Services
BY DEF ShardInv, MasterInv, Control, Types, ServiceTypes

\* Steps that leave the services without a mirror service alone.
LEMMA SameCycles ==
  ASSUME ShardInv, CycleInv, svcCycle' = svcCycle, svcSynced' = svcSynced,
         GameCycle' \in Nat, GameCycle' >= GameCycle,
         \A s \in Services : s \notin svcLinked' => s \notin svcLinked /\ toSvc'[s] = toSvc[s]
  PROVE  CycleInv'
<1> SUFFICES ASSUME NEW s \in Services
             PROVE  /\ svcCycle'[s] <= GameCycle'
                    /\ s \notin svcLinked' => InTime(s, toSvc[s])'
  BY DEF CycleInv
<1>1. svcCycle'[s] <= GameCycle'
  BY CycleOf DEF CycleInv
<1>2. ASSUME s \notin svcLinked' PROVE InTime(s, toSvc[s])'
  <2> DEFINE o == toSvc[s]
  <2>1. /\ toSvc'[s] = o /\ SyncUpTo(o, LastSync(o))
        /\ Has(o, "TICK") /\ s \in svcSynced => svcCycle[s] < GameCycle
        /\ GameCycle \in Nat /\ svcCycle[s] \in Nat
    BY <1>2, CycleOf DEF CycleInv, InTime
  <2>2. o \in Seq(ToServices)
    BY CycleOf
  <2> HIDE DEF o
  <2> DEFINE k == LastSync(o)
             l == GameCycle' - IF Has(o, "TICK") THEN 1 ELSE 0
  <2>3. k \in Int /\ l \in Int /\ k <= l
    BY <2>1 DEF LastSync
  <2>4. \A i \in 1 .. Len(o) : o[i].type = "REGISTERED" => o[i].cycle \in Nat
    <3> SUFFICES ASSUME NEW i \in 1 .. Len(o), o[i].type = "REGISTERED"
                 PROVE  o[i].cycle \in Nat
      OBVIOUS
    <3>1. o[i] \in ToServices
      BY <2>2
    <3>2. o[i] \in Syncs
      BY <1>2, <3>1, MessageTypes DEF ToServices
    <3> QED BY <3>2 DEF Syncs
  <2> HIDE DEF k, l
  <2>5. SyncUpTo(o, l)
    BY <2>1, <2>3, <2>4 DEF SyncUpTo, k
  <2> QED BY <2>1, <2>5 DEF InTime, LastSync, l
<1> QED BY <1>1, <1>2

\* Steps of one service.
LEMMA OneCycle ==
  ASSUME ShardInv, CycleInv, NEW s \in Services, UNCHANGED GameCycle,
         \A t \in Services \ {s} : /\ svcCycle'[t] = svcCycle[t] /\ toSvc'[t] = toSvc[t]
                                   /\ t \in svcSynced' <=> t \in svcSynced
                                   /\ t \in svcLinked' <=> t \in svcLinked,
         svcCycle'[s] <= GameCycle,
         s \notin svcLinked' => InTime(s, toSvc[s])'
  PROVE  CycleInv'
<1>1. ASSUME NEW t \in Services \ {s}
      PROVE  svcCycle'[t] <= GameCycle /\ (t \notin svcLinked' => InTime(t, toSvc[t])')
  BY DEF CycleInv, InTime, LastSync
<1> QED BY <1>1 DEF CycleInv

LEMMA SvcStartCycles ==
  ASSUME ShardInv, CycleInv, NEW s \in Services, SvcStart(s) PROVE CycleInv'
<1>1. /\ s \notin svcUp /\ svcCycle' = [svcCycle EXCEPT ![s] = 0]
      /\ UNCHANGED <<GameCycle, toSvc, svcLinked, svcSynced>>
  BY DEF SvcStart, svcElse, ticksVars
<1>2. toSvc[s] = <<>>
  BY <1>1, ServiceAt DEF Links, OutLink
<1>3. InTime(s, toSvc[s])'
  BY <1>1, <1>2, EmptyQueue, NoSyncUpTo DEF InTime, LastSync
<1>4. svcCycle'[s] <= GameCycle /\ \A t \in Services \ {s} : svcCycle'[t] = svcCycle[t]
  BY <1>1, CycleOf
<1> QED BY <1>1, <1>3, <1>4, OneCycle

LEMMA CbRegisteredCycles ==
  ASSUME ShardInv, ShardInv', CycleInv, NEW s \in Services, CbRegistered(s) PROVE CycleInv'
<1> DEFINE o == toSvc[s]
           v == Tail(o)
<1>1. /\ SvcHas(s, "REGISTERED") /\ SvcConsume(s)
      /\ svcCycle' = [svcCycle EXCEPT ![s] = Head(toSvc[s]).cycle]
      /\ svcSynced' = svcSynced \cup {s}
      /\ UNCHANGED <<GameCycle, svcLinked>>
  BY DEF CbRegistered, svcElse, ticksVars
<1>2. /\ o # <<>> /\ Head(o).type = "REGISTERED" /\ toSvc'[s] = v
      /\ \A t \in Services \ {s} : toSvc'[t] = toSvc[t]
      /\ Has(v, "TICK") <=> Has(o, "TICK")
      /\ Has(o, "REGISTERED") /\ ~Has(v, "REGISTERED")
      /\ \A c : SyncIs(o, c) => Head(o).cycle = c
  BY <1>1, SvcReads
<1>3. /\ o \in Seq(ToServices) /\ svcCycle \in [Services -> Nat] /\ GameCycle \in Nat
      /\ svcCycle'[s] = Head(o).cycle /\ svcCycle'[s] \in Nat
      /\ \A t \in Services \ {s} : svcCycle'[t] = svcCycle[t]
  <2>1. svcCycle' \in [Services -> Nat]
    BY DEF ShardInv, MasterInv, Types, ServiceTypes
  <2> QED BY <1>1, <2>1, CycleOf
<1> HIDE DEF o, v
<1>4. CASE s \in svcLinked
  <2>1. s \in svcLinked' /\ s \in svcSynced'
    BY <1>1, <1>4
  <2>2. \E c \in Int : SyncIs(o, c) /\ c <= LastSync(o)
    BY <1>2, <1>4, LinkedInTime DEF o
  <2>3. svcCycle'[s] <= GameCycle
    BY <1>2, <1>3, <2>2 DEF LastSync
  <2> QED BY <1>1, <1>2, <1>3, <2>1, <2>3, OneCycle
<1>5. CASE s \notin svcLinked
  <2>1. SyncUpTo(o, LastSync(o))
    BY <1>5 DEF CycleInv, InTime, o
  <2>2. Head(o).cycle <= LastSync(o)
    BY <1>2, <1>3, <2>1, SyncUpToRead
  <2>3. svcCycle'[s] <= GameCycle /\ (Has(v, "TICK") => svcCycle'[s] < GameCycle)
    BY <1>2, <1>3, <2>2 DEF LastSync
  <2>4. InTime(s, toSvc[s])'
    BY <1>1, <1>2, <2>3, NoSyncUpTo DEF InTime, LastSync
  <2> QED BY <1>1, <1>2, <1>3, <2>3, <2>4, OneCycle
<1> QED BY <1>4, <1>5

LEMMA TickUpdateCycles ==
  ASSUME ShardInv, ShardInv', CycleInv, NEW s \in Services, TickUpdate(s) PROVE CycleInv'
<1> DEFINE o == toSvc[s]
           v == Tail(o)
<1>1. /\ SvcHas(s, "TICK") /\ SvcConsume(s)
      /\ svcCycle' = [svcCycle EXCEPT ![s] = @ + 1]
      /\ UNCHANGED <<GameCycle, svcLinked, svcSynced>>
  BY DEF TickUpdate, svcElse, ticksVars
<1>2. /\ toSvc'[s] = v /\ Has(o, "TICK") /\ ~Has(o, "REGISTERED")
      /\ \A t \in Services \ {s} : toSvc'[t] = toSvc[t]
      /\ ~Has(v, "TICK") /\ ~Has(v, "REGISTERED")
  BY <1>1, SvcReads
<1>3. /\ svcCycle \in [Services -> Nat] /\ GameCycle \in Nat /\ svcCycle[s] \in Nat
      /\ svcCycle'[s] = svcCycle[s] + 1
      /\ \A t \in Services \ {s} : svcCycle'[t] = svcCycle[t]
  BY <1>1, CycleOf
<1>4. s \in svcSynced
  <2>1. Links(s, ms[Home[s]], fromSvc[s], o)
    BY ServiceAt
  <2> QED BY <1>2, <2>1 DEF Links, OutLink
<1>5. svcCycle[s] < GameCycle
  <2>1. CASE s \in svcLinked
    BY <1>2, <1>4, <2>1, LinkedInTime
  <2>2. CASE s \notin svcLinked
    BY <1>2, <1>4, <2>2 DEF CycleInv, InTime
  <2> QED BY <2>1, <2>2
<1> HIDE DEF o, v
<1>6. svcCycle'[s] <= GameCycle
  BY <1>3, <1>5
<1>7. InTime(s, toSvc[s])'
  BY <1>1, <1>2, NoSyncUpTo DEF InTime, LastSync
<1> QED BY <1>1, <1>2, <1>3, <1>6, <1>7, OneCycle

LEMMA ReceiveTrackerCycles ==
  ASSUME ShardInv, CycleInv, NEW s \in Services, ReceiveTracker(s) PROVE CycleInv'
<1> DEFINE o == toSvc[s]
           v == Tail(o)
<1>1. /\ SvcHas(s, "ATE") /\ SvcConsume(s)
      /\ UNCHANGED <<GameCycle, svcLinked, svcSynced, svcCycle>>
  BY DEF ReceiveTracker, svcElse, ticksVars, svcVars
<1>2. /\ o # <<>> /\ toSvc'[s] = v /\ \A t \in Services \ {s} : toSvc'[t] = toSvc[t]
      /\ Has(v, "TICK") <=> Has(o, "TICK")
  BY <1>1, SvcReads
<1>3. o \in Seq(ToServices) /\ svcCycle[s] <= GameCycle
  BY CycleOf DEF CycleInv
<1> HIDE DEF o, v
<1>4. ASSUME s \notin svcLinked PROVE InTime(s, toSvc[s])'
  <2>1. /\ SyncUpTo(o, LastSync(o))
        /\ Has(o, "TICK") /\ s \in svcSynced => svcCycle[s] < GameCycle
    BY <1>4 DEF CycleInv, InTime, o
  <2>2. SyncUpTo(v, LastSync(o))
    BY <1>2, <1>3, <2>1, SyncUpToRead DEF v
  <2>3. LastSync(v) = LastSync(o)
    BY <1>2 DEF LastSync
  <2> QED BY <1>1, <1>2, <2>1, <2>2, <2>3 DEF InTime, LastSync
<1> QED BY <1>1, <1>2, <1>3, <1>4, OneCycle

LEMMA CbTicksDownCycles ==
  ASSUME ShardInv, CycleInv, NEW s \in Services, CbTicksDown(s) PROVE CycleInv'
<1>1. /\ SvcHas(s, "DOWN") /\ SvcConsume(s) /\ svcSynced' = svcSynced \ {s}
      /\ UNCHANGED <<GameCycle, svcLinked, svcCycle>>
  BY DEF CbTicksDown, svcElse, ticksVars
<1>2. toSvc'[s] = <<>> /\ \A t \in Services \ {s} : toSvc'[t] = toSvc[t]
  BY <1>1, SvcReads
<1>3. InTime(s, toSvc[s])'
  BY <1>2, EmptyQueue, NoSyncUpTo DEF InTime
<1>4. svcCycle[s] <= GameCycle
  BY DEF CycleInv
<1> QED BY <1>1, <1>2, <1>3, <1>4, OneCycle

LEMMA SvcCrashCycles ==
  ASSUME ShardInv, CycleInv, NEW s \in Services, NEW kept, SvcCrash(s, kept) PROVE CycleInv'
<1>1. /\ svcSynced' = svcSynced \ {s} /\ svcLinked' = svcLinked \ {s}
      /\ toSvc' = [toSvc EXCEPT ![s] = <<>>] /\ UNCHANGED <<GameCycle, svcCycle>>
  BY DEF SvcCrash, ticksVars
<1>2. toSvc'[s] = <<>> /\ \A t \in Services \ {s} : toSvc'[t] = toSvc[t]
  BY <1>1 DEF ShardInv, MasterInv, Types, ServiceTypes
<1>3. InTime(s, toSvc[s])'
  BY <1>2, EmptyQueue, NoSyncUpTo DEF InTime
<1>4. svcCycle[s] <= GameCycle
  BY DEF CycleInv
<1> QED BY <1>1, <1>2, <1>3, <1>4, OneCycle

LEMMA MSCrashCycles ==
  ASSUME ShardInv, CycleInv, NEW m \in Hosts, NEW kept \in Nat, MSCrash(m, kept),
         UNCHANGED svcVars
  PROVE  CycleInv'
<1>1. /\ svcLinked' = svcLinked \ Local(m) /\ svcCycle' = svcCycle /\ svcSynced' = svcSynced
      /\ toSvc' = [s \in Services |-> IF s \in svcLinked \cap Local(m)
                                      THEN Cut(toSvc[s], kept) ELSE toSvc[s]]
      /\ GameCycle' = GameCycle
  BY DEF MSCrash, svcVars, ticksState
<1>2. ASSUME NEW s \in Services PROVE svcCycle'[s] <= GameCycle'
  BY <1>1, <1>2 DEF CycleInv
<1>3. ASSUME NEW s \in Services, s \notin svcLinked PROVE InTime(s, toSvc[s])'
  <2>1. toSvc'[s] = toSvc[s] /\ InTime(s, toSvc[s])
    BY <1>1, <1>3 DEF CycleInv
  <2> QED BY <1>1, <2>1 DEF InTime, LastSync
<1>4. ASSUME NEW s \in Services, s \in svcLinked, s \notin svcLinked'
      PROVE  InTime(s, toSvc[s])'
  <2> DEFINE o == toSvc[s]
             p == Cut(o, kept)
  <2>1. toSvc'[s] = p /\ o \in Seq(ToServices) /\ ~Has(o, "DOWN")
    BY <1>1, <1>4, ServiceAt DEF Links, OutLink
  <2>2. Down \in ToServices
    BY DEF ToServices
  <2>3. /\ \A type : Has(p, type) => Has(o, type) \/ type = "DOWN"
        /\ \A c : SyncIs(o, c) => SyncIs(p, c)
    BY <2>1, <2>2, Broken
  <2>4. /\ s \in svcSynced /\ Has(o, "TICK") => svcCycle[s] < GameCycle
        /\ Has(o, "REGISTERED") => \E c \in Int : SyncIs(o, c) /\ c <= LastSync(o)
    BY <1>4, LinkedInTime
  <2>5. GameCycle \in Nat
    BY CycleOf
  <2> HIDE DEF o, p
  <2>6. Has(p, "TICK") => Has(o, "TICK")
    BY <2>3
  <2>7. SyncUpTo(p, LastSync(p))
    <3>1. CASE ~Has(p, "REGISTERED")
      BY <3>1, NoSyncUpTo
    <3>2. CASE Has(p, "REGISTERED")
      <4>1. PICK c \in Int : SyncIs(o, c) /\ c <= LastSync(o)
        BY <2>3, <2>4, <3>2
      <4>2. SyncIs(p, c)
        BY <2>3, <4>1
      <4>3. c <= LastSync(p)
        BY <2>5, <2>6, <4>1 DEF LastSync
      <4> QED BY <4>2, <4>3 DEF SyncIs, SyncUpTo
    <3> QED BY <3>1, <3>2
  <2>8. Has(p, "TICK") /\ s \in svcSynced => svcCycle[s] < GameCycle
    BY <2>4, <2>6
  <2> QED BY <1>1, <2>1, <2>7, <2>8 DEF InTime, LastSync
<1> QED BY <1>2, <1>3, <1>4 DEF CycleInv

\* A mirror service only sends to services that are connected.
LEMMA MSReceiveCycles ==
  ASSUME ShardInv, CycleInv, NEW m \in Hosts, MSReceive(m) PROVE CycleInv'
<1>1. UNCHANGED <<GameCycle, svcLinked, svcVars>>
  BY DEF MSReceive, CbSyncFromMaster, MasterTick, CbRegisterToTickSystem, CbClientTock,
         CbServiceDown, DeclareDataSets, CbForwardACKATE, AddRemoteMS,
         ReceiveDeltaFromRemoteMS, RemoveRemoteMS, ticksState
<1>2. DOMAIN toSvc = Services
  BY DEF ShardInv, MasterInv, Types, ServiceTypes
<1>3. \A f, S, msg : DOMAIN f = Services =>
        /\ DOMAIN SendTo(f, S, msg) = Services
        /\ \A s \in Services \ svcLinked : SendTo(f, S, msg)[s] = f[s]
  BY DEF SendTo
<1>4. \A s \in Services \ svcLinked : toSvc'[s] = toSvc[s]
  <2>1. CASE toSvc' = toSvc
    BY <2>1
  <2>2. CASE \E S, msg : toSvc' = SendTo(toSvc, S, msg)
    BY <1>2, <1>3, <2>2
  <2>3. CASE \E S, msg, S2, msg2 : toSvc' = SendTo(SendTo(toSvc, S, msg), S2, msg2)
    BY <1>2, <1>3, <2>3
  <2>4. CASE CbSyncFromMaster(m)
    BY <2>2, <2>4 DEF CbSyncFromMaster
  <2>5. CASE MasterTick(m)
    BY <2>2, <2>5 DEF MasterTick
  <2>6. ASSUME NEW s \in Local(m), CbRegisterToTickSystem(m, s)
        PROVE  \A t \in Services \ svcLinked : toSvc'[t] = toSvc[t]
    BY <2>1, <2>2, <2>6 DEF CbRegisterToTickSystem
  <2>7. ASSUME NEW s \in Local(m), DeclareDataSets(m, s)
        PROVE  \A t \in Services \ svcLinked : toSvc'[t] = toSvc[t]
    BY <2>3, <2>7 DEF DeclareDataSets
  <2>8. ASSUME NEW s \in Local(m), CbClientTock(m, s) \/ CbServiceDown(m, s) \/ CbForwardACKATE(m, s)
        PROVE  \A t \in Services \ svcLinked : toSvc'[t] = toSvc[t]
    BY <2>1, <2>8 DEF CbClientTock, CbServiceDown, CbForwardACKATE
  <2>9. ASSUME NEW n \in Hosts \ {m},
               AddRemoteMS(n, m) \/ ReceiveDeltaFromRemoteMS(n, m) \/ RemoveRemoteMS(n, m)
        PROVE  \A t \in Services \ svcLinked : toSvc'[t] = toSvc[t]
    BY <2>1, <2>9 DEF AddRemoteMS, ReceiveDeltaFromRemoteMS, RemoveRemoteMS
  <2> QED BY <2>4, <2>5, <2>6, <2>7, <2>8, <2>9 DEF MSReceive
<1>5. GameCycle \in Nat /\ svcCycle' = svcCycle /\ svcSynced' = svcSynced
  BY <1>1, CycleOf DEF svcVars
<1> QED BY <1>1, <1>4, <1>5, SameCycles

LEMMA StepCycles ==
  ASSUME ShardInv, ShardInv', CycleInv, [ShardNext]_shardVars PROVE CycleInv'
<1>1. GameCycle \in Nat
  BY CycleOf
<1>2. CASE (\E m \in Hosts : TicksStep(m)) \/ TicksOperator
  <2>1. GameCycle' \in {GameCycle, GameCycle + 1}
    BY <1>2, TicksCycle
  <2>2. UNCHANGED <<svcLinked, toSvc, svcCycle, svcSynced>>
    BY <1>2 DEF TicksStep, TicksOperator, msNet, svcVars
  <2> QED BY <1>1, <2>1, <2>2, SameCycles
<1>3. ASSUME NEW m \in Hosts, MSReceive(m) PROVE CycleInv'
  BY <1>3, MSReceiveCycles
<1>4. ASSUME NEW m \in Hosts, MSConnects(m) \/ MSStarts(m) \/ SentToNobody(m) PROVE CycleInv'
  <2>1. UNCHANGED <<GameCycle, svcLinked, toSvc, svcCycle, svcSynced>>
    BY <1>4 DEF MSConnects, CbTPTicksUp, MSStarts, MSStart, SentToNobody, LoseSent, ticksState,
                msNet, svcVars
  <2> QED BY <1>1, <2>1, SameCycles
<1>5. ASSUME NEW s \in Services, SvcReceive(s) PROVE CycleInv'
  BY <1>5, CbRegisteredCycles, TickUpdateCycles, ReceiveTrackerCycles, CbTicksDownCycles
     DEF SvcReceive
<1>6. ASSUME NEW s \in Services, CbTicksUp(s) \/ DoInitMirrorLevel1(s) PROVE CycleInv'
  <2>1. /\ UNCHANGED <<GameCycle, toSvc, svcCycle, svcSynced>>
        /\ \A t \in Services : t \notin svcLinked' => t \notin svcLinked
    BY <1>6 DEF CbTicksUp, DoInitMirrorLevel1, svcElse, ticksVars, svcVars
  <2> QED BY <1>1, <2>1, SameCycles
<1>7. ASSUME NEW s \in Services, SvcStart(s) PROVE CycleInv'
  BY <1>7, SvcStartCycles
<1>8. ASSUME NEW s \in Services, NEW kept \in 0 .. 2, SvcCrash(s, kept) PROVE CycleInv'
  BY <1>8, SvcCrashCycles
<1>9. ASSUME NEW m \in Hosts, NEW kept \in 0 .. 2, MSCrashes(m, kept) PROVE CycleInv'
  <2>1. kept \in Nat /\ MSCrash(m, kept) /\ UNCHANGED svcVars
    BY <1>9 DEF MSCrashes
  <2> QED BY <2>1, MSCrashCycles
<1>10. CASE UNCHANGED shardVars
  <2>1. UNCHANGED <<GameCycle, svcLinked, toSvc, svcCycle, svcSynced>>
    BY <1>10 DEF shardVars, ticksVars, msNet, svcVars
  <2> QED BY <1>1, <2>1, SameCycles
<1> QED BY <1>2, <1>3, <1>4, <1>5, <1>6, <1>7, <1>8, <1>9, <1>10
         DEF ShardNext, ShardNextNoMSCrash

--------------------------------------------------------------------------------
\* The deltas.

DeltaOf(q, c) == \E i \in 1 .. Len(q) : q[i].type = "DELTA" /\ q[i].cycle = c
OneDelta(q, c) ==
  \A i, j \in 1 .. Len(q) :
    /\ q[i].type = "DELTA" /\ q[i].cycle = c
    /\ q[j].type = "DELTA" /\ q[j].cycle = c
    => i = j
DeltasUpTo(q, c) == \A i \in 1 .. Len(q) : q[i].type = "DELTA" => q[i].cycle <= c

LEMMA NoDeltas ==
  ASSUME NEW c PROVE ~DeltaOf(<<>>, c) /\ OneDelta(<<>>, c) /\ DeltasUpTo(<<>>, c)
BY DEF DeltaOf, OneDelta, DeltasUpTo

LEMMA DeltaAppended ==
  ASSUME NEW S, NEW q \in Seq(S), NEW x \in S, NEW c
  PROVE  LET p == Append(q, x)
             is == x.type = "DELTA" /\ x.cycle = c
         IN /\ DeltaOf(p, c) <=> DeltaOf(q, c) \/ is
            /\ OneDelta(q, c) /\ ~(is /\ DeltaOf(q, c)) => OneDelta(p, c)
            /\ DeltasUpTo(q, c) /\ (x.type = "DELTA" => x.cycle <= c) => DeltasUpTo(p, c)
<1> DEFINE p == Append(q, x)
           n == Len(q)
<1>1. /\ n \in Nat /\ Len(p) = n + 1 /\ p[n + 1] = x /\ \A i \in 1 .. n : p[i] = q[i]
  OBVIOUS
<1>2. \A i \in 1 .. n + 1 : i = n + 1 \/ i \in 1 .. n
  BY <1>1
<1>3. /\ \A i \in 1 .. n : i \in 1 .. n + 1
      /\ n + 1 \in 1 .. n + 1
  BY <1>1
<1> HIDE DEF p, n
<1>4. DeltaOf(p, c) <=> DeltaOf(q, c) \/ (x.type = "DELTA" /\ x.cycle = c)
  BY <1>1, <1>2, <1>3 DEF DeltaOf, n
<1>5. OneDelta(q, c) /\ ~((x.type = "DELTA" /\ x.cycle = c) /\ DeltaOf(q, c)) => OneDelta(p, c)
  BY <1>1, <1>2 DEF OneDelta, DeltaOf, n
<1>6. DeltasUpTo(q, c) /\ (x.type = "DELTA" => x.cycle <= c) => DeltasUpTo(p, c)
  BY <1>1, <1>2 DEF DeltasUpTo, n
<1> QED BY <1>4, <1>5, <1>6 DEF p

LEMMA DeltaRead ==
  ASSUME NEW S, NEW q \in Seq(S), q # <<>>, NEW c
  PROVE  LET p == Tail(q)
             x == Head(q)
             is == x.type = "DELTA" /\ x.cycle = c
         IN /\ DeltaOf(p, c) => DeltaOf(q, c)
            /\ is => DeltaOf(q, c)
            /\ OneDelta(q, c) => OneDelta(p, c) /\ (is => ~DeltaOf(p, c))
            /\ DeltasUpTo(q, c) => DeltasUpTo(p, c) /\ (x.type = "DELTA" => x.cycle <= c)
<1> DEFINE p == Tail(q)
           x == Head(q)
           n == Len(p)
<1>1. /\ n \in Nat /\ Len(q) = n + 1 /\ x = q[1]
      /\ \A i \in 1 .. n : p[i] = q[i + 1]
  <2>1. n \in Nat /\ Len(q) = n + 1 /\ x = q[1]
    OBVIOUS
  <2>2. \A i \in 1 .. n : p[i] = q[i + 1]
    OBVIOUS
  <2> QED BY <2>1, <2>2
<1>2. \A i \in 1 .. n : i + 1 \in 1 .. n + 1 /\ i + 1 # 1
  BY <1>1
<1>3. 1 \in 1 .. n + 1
  BY <1>1
<1> HIDE DEF p, x, n
<1>4. (DeltaOf(p, c) => DeltaOf(q, c)) /\ (x.type = "DELTA" /\ x.cycle = c => DeltaOf(q, c))
  BY <1>1, <1>2, <1>3 DEF DeltaOf, n
<1>5. ASSUME OneDelta(q, c) PROVE OneDelta(p, c)
  <2> SUFFICES ASSUME NEW i \in 1 .. n, NEW j \in 1 .. n,
                      p[i].type = "DELTA", p[i].cycle = c, p[j].type = "DELTA", p[j].cycle = c
               PROVE  i = j
    BY DEF OneDelta, n
  <2>1. i + 1 = j + 1
    BY <1>1, <1>2, <1>5 DEF OneDelta, n
  <2> QED BY <1>1, <2>1
<1>6. ASSUME OneDelta(q, c), x.type = "DELTA", x.cycle = c PROVE ~DeltaOf(p, c)
  BY <1>1, <1>2, <1>3, <1>6 DEF OneDelta, DeltaOf, n
<1>7. DeltasUpTo(q, c) => DeltasUpTo(p, c) /\ (x.type = "DELTA" => x.cycle <= c)
  BY <1>1, <1>2, <1>3 DEF DeltasUpTo, n
<1> QED BY <1>4, <1>5, <1>6, <1>7 DEF p, x

LEMMA DeltaCut ==
  ASSUME NEW S, NEW q \in Seq(S), NEW kept \in Nat, Down \in S, NEW c
  PROVE  LET p == Cut(q, kept)
         IN /\ DeltaOf(p, c) => DeltaOf(q, c)
            /\ OneDelta(q, c) => OneDelta(p, c)
            /\ DeltasUpTo(q, c) => DeltasUpTo(p, c)
<1> DEFINE k == IF kept < Len(q) THEN kept ELSE Len(q)
           b == SubSeq(q, 1, k)
<1>1. k \in Nat /\ k \in 0 .. Len(q) /\ Len(q) \in Nat
  OBVIOUS
<1>2. b \in Seq(S) /\ Len(b) = k /\ \A i \in 1 .. k : b[i] = q[i] /\ i \in 1 .. Len(q)
  <2> HIDE DEF k
  <2> QED BY <1>1
<1>3. Cut(q, kept) = Append(b, Down)
  BY DEF Cut
<1> HIDE DEF k, b
<1>4. /\ DeltaOf(b, c) => DeltaOf(q, c)
      /\ OneDelta(q, c) => OneDelta(b, c)
      /\ DeltasUpTo(q, c) => DeltasUpTo(b, c)
  BY <1>2 DEF DeltaOf, OneDelta, DeltasUpTo
<1>5. Down.type # "DELTA"
  BY MessageTypes
<1> QED BY <1>2, <1>3, <1>4, <1>5, DeltaAppended

\* The deltas of cycle c: q carries at most one from n to a mirror service in state r, and none
\* after it has come or before n has sent it; Y are those that have still to send
\* theirs.  X is Hosts when mirror services may be lost, and empty otherwise.
PairInv(c, Y, n, r, q, X) ==
  /\ DeltasUpTo(q, c) /\ OneDelta(q, c)
  /\ DeltaOf(q, c) => <<n, c>> \notin r.PendingDeltas
  /\ n \in Y => ~DeltaOf(q, c) /\ <<n, c>> \notin r.PendingDeltas
  /\ X = Hosts \/ ~Has(q, "DOWN")

\* The deltas of cycle c that have come before the sync, and the mirror services whose
\* delta a mirror service in state r may count: those it waits for, or any in X.
Early(c, r) ==
  {i \in DOMAIN r.ReceivedBeforeSync : ~r.Syncd /\ r.ReceivedBeforeSync[i] = c}
Heard(c, r, X) ==
  {n \in Hosts : <<n, c>> \in r.PendingDeltas /\ n \in r.RemoteMSToWaitForDelta \cup X}

\* A mirror service counts no delta twice, and between two ticks none but of the next.
CountInv(c, r, X) ==
  /\ \A p \in r.PendingDeltas : p[2] <= c
  /\ \A i \in DOMAIN r.ReceivedBeforeSync : r.ReceivedBeforeSync[i] <= c
  /\ r.NbReceived + Cardinality(Early(c, r)) <= Cardinality(Heard(c, r, X))
  /\ r.NbReceived > 0 => r.Syncd /\ (r.State = "ExpectingLocalTocks" \/ r.GameCycle = c - 1)

DeltasAre(c, Y, f, net, X) ==
  /\ \A n, k \in Hosts : PairInv(c, Y, n, f[k], net[<<n, k>>], X)
  /\ \A k \in Hosts : CountInv(c, f[k], X)

\* Those that have still to send the deltas of the present cycle, in the states f.
YetToSend(f) ==
  {n \in msLinked : /\ ClientInfos[n].Registered /\ ~ClientInfos[n].TockReceived
                    /\ toTicks[n] = <<>> /\ ~f[n].DeltaSent}
DeltaInv(X) == DeltasAre(GameCycle, YetToSend(ms), ms, peer, X)

LEMMA DeltasLess ==
  ASSUME NEW c, NEW Y, NEW Z, Z \subseteq Y, NEW f, NEW net, NEW X, DeltasAre(c, Y, f, net, X)
  PROVE  DeltasAre(c, Z, f, net, X)
BY DEF DeltasAre, PairInv

\* What the automaton does with the deltas when a handler of m has computed r and left net
\* between the mirror services: it waits, sends its deltas, or ends the tick.
WithDeltas(m, r, net) ==
  [p \in Pairs |-> IF p[1] = m /\ p[2] \in r.RemoteMSList \cap msUp
                   THEN Append(net[p], Delta(m \notin PureReceivers, r.GameCycle)) ELSE net[p]]
SameCount(a, r) ==
  /\ r.PendingDeltas = a.PendingDeltas /\ r.NbReceived = a.NbReceived /\ r.State = a.State
  /\ r.ReceivedBeforeSync = a.ReceivedBeforeSync /\ r.Syncd = a.Syncd
  /\ r.GameCycle = a.GameCycle /\ r.RemoteMSToWaitForDelta = a.RemoteMSToWaitForDelta
EndsTick(r, z) ==
  /\ r.State = "ExpectingLocalTocks" /\ r.NbReceived = r.NbExpected
  /\ z.PendingDeltas = {} /\ z.NbReceived = 0 /\ z.State = "ExpectingMasterTick"
  /\ z.ReceivedBeforeSync = r.ReceivedBeforeSync /\ z.Syncd = r.Syncd
  /\ z.RemoteMSToWaitForDelta = r.RemoteMSToWaitForDelta

Waits(m, r, net) ==
  /\ SameCount(r, ms'[m]) /\ ms'[m].DeltaSent = r.DeltaSent /\ peer' = net /\ toTicks' = toTicks
Sends(m, r, net) ==
  /\ r.State = "ExpectingLocalTocks" /\ ~r.DeltaSent
  /\ SameCount(r, ms'[m]) /\ ms'[m].DeltaSent /\ peer' = WithDeltas(m, r, net)
  /\ toTicks' = toTicks
Ends(m, r, net) ==
  /\ EndsTick(r, ms'[m])
  /\ \/ peer' = net
     \/ ~r.DeltaSent /\ peer' = WithDeltas(m, r, net)
  /\ toTicks' = IF m \in msLinked THEN [toTicks EXCEPT ![m] = Append(@, Tock)] ELSE toTicks
Acts(m, r, net) ==
  /\ \A h \in Hosts \ {m} : ms'[h] = ms[h]
  /\ Waits(m, r, net) \/ Sends(m, r, net) \/ Ends(m, r, net)

LEMMA DeltasBuilt ==
  ASSUME NEW r \in MSRecord
  PROVE  LET d == BuildAndSendAllOutgoingDeltas(r)
         IN /\ d \in MSRecord /\ SameCount(r, d) /\ d.NbExpected = r.NbExpected
            /\ d.RemoteMSList = r.RemoteMSList
            /\ d.DeltaSent /\ ~r.DeltaSent => r.State = "ExpectingLocalTocks"
            /\ r.DeltaSent => d.DeltaSent
<1> DEFINE d == BuildAndSendAllOutgoingDeltas(r)
<1>1. CASE d = r
  BY <1>1 DEF SameCount, MSRecord
<1>2. CASE d = [r EXCEPT !.BlockedAwaitingATAck = TRUE]
  BY <1>2 DEF SameCount, MSRecord
<1>3. CASE d = [r EXCEPT !.DeltaSent = TRUE] /\ CheckIfAllClientTocksReceived(r)
  BY <1>3 DEF SameCount, MSRecord, CheckIfAllClientTocksReceived
<1>4. d = r \/ d = [r EXCEPT !.BlockedAwaitingATAck = TRUE]
        \/ (d = [r EXCEPT !.DeltaSent = TRUE] /\ CheckIfAllClientTocksReceived(r))
  BY DEF BuildAndSendAllOutgoingDeltas
<1> HIDE DEF d
<1> QED BY <1>1, <1>2, <1>3, <1>4 DEF d

LEMMA TickEnded ==
  ASSUME NEW d \in MSRecord, d.State = "ExpectingLocalTocks", CheckIfAllIncomingDeltasReceived(d)
  PROVE  EndsTick(d, TockMasterAndProcessReceivedIncomingDeltas(d))
<1> DEFINE z == TockMasterAndProcessReceivedIncomingDeltas(d)
<1>1. z = [d EXCEPT !.NbTocked = 0, !.TockedServices = {}, !.State = "ExpectingMasterTick",
                    !.PendingDeltas = {}, !.NbReceived = 0, !.DeltaSent = FALSE]
  BY DEF TockMasterAndProcessReceivedIncomingDeltas
<1> HIDE DEF z
<1>2. /\ z.PendingDeltas = {} /\ z.NbReceived = 0 /\ z.State = "ExpectingMasterTick"
      /\ z.ReceivedBeforeSync = d.ReceivedBeforeSync /\ z.Syncd = d.Syncd
      /\ z.RemoteMSToWaitForDelta = d.RemoteMSToWaitForDelta
  BY <1>1 DEF MSRecord
<1> QED BY <1>2 DEF EndsTick, CheckIfAllIncomingDeltasReceived, z

LEMMA GoesActs ==
  ASSUME NEW m \in Hosts, ms \in [Hosts -> MSRecord], NEW r \in MSRecord,
         r.DeltaSent => r.State = "ExpectingLocalTocks",
         NEW net \in [Pairs -> Seq(Between)], Goes(m, r, net)
  PROVE  Acts(m, r, net)
<1>1. CASE DoNextTask(m, r, net)
  <2> DEFINE d == BuildAndSendAllOutgoingDeltas(r)
             sends == d.DeltaSent /\ ~r.DeltaSent
             tocks == d.DeltaSent /\ CheckIfAllIncomingDeltasReceived(d)
             z == TockMasterAndProcessReceivedIncomingDeltas(d)
  <2>1. /\ d \in MSRecord /\ SameCount(r, d) /\ d.NbExpected = r.NbExpected
        /\ d.RemoteMSList = r.RemoteMSList
        /\ d.DeltaSent /\ ~r.DeltaSent => r.State = "ExpectingLocalTocks"
        /\ r.DeltaSent => d.DeltaSent
    BY DeltasBuilt
  <2>2. /\ ms' = [ms EXCEPT ![m] = IF tocks THEN z ELSE d]
        /\ peer' = [p \in Pairs |->
                      IF sends /\ p[1] = m /\ p[2] \in d.RemoteMSList \cap msUp
                      THEN Append(net[p], Delta(m \notin PureReceivers, d.GameCycle))
                      ELSE net[p]]
        /\ toTicks' = IF tocks /\ m \in msLinked
                      THEN [toTicks EXCEPT ![m] = Append(@, Tock)] ELSE toTicks
    BY <1>1 DEF DoNextTask
  <2>3. ms'[m] = (IF tocks THEN z ELSE d) /\ \A h \in Hosts \ {m} : ms'[h] = ms[h]
    BY <2>2
  <2>4. d.DeltaSent => r.State = "ExpectingLocalTocks"
    BY <2>1
  <2>5. d.GameCycle = r.GameCycle /\ r.DeltaSent \in BOOLEAN /\ d.DeltaSent \in BOOLEAN
    BY <2>1 DEF SameCount, MSRecord
  <2> HIDE DEF d, z
  <2>6. (sends => peer' = WithDeltas(m, r, net)) /\ (~sends => peer' = net)
    BY <2>1, <2>2, <2>5 DEF WithDeltas
  <2>7. CASE tocks
    <3>1. EndsTick(d, z)
      <4>1. d.State = "ExpectingLocalTocks"
        BY <2>1, <2>4, <2>7 DEF SameCount
      <4> QED BY <2>1, <2>7, <4>1, TickEnded DEF z
    <3>2. EndsTick(r, z)
      BY <2>1, <2>4, <2>7, <3>1 DEF EndsTick, SameCount
    <3> QED BY <2>2, <2>3, <2>6, <2>7, <3>2 DEF Acts, Ends
  <2>8. CASE ~tocks /\ sends
    BY <2>1, <2>2, <2>3, <2>6, <2>8 DEF Acts, Sends
  <2>9. CASE ~tocks /\ ~sends
    BY <2>1, <2>2, <2>3, <2>5, <2>6, <2>9 DEF Acts, Waits
  <2> QED BY <2>7, <2>8, <2>9
<1>2. CASE ms' = [ms EXCEPT ![m] = r] /\ peer' = net /\ UNCHANGED toTicks
  BY <1>2 DEF Acts, Waits, SameCount
<1> QED BY <1>1, <1>2 DEF Goes

\* A mirror service that collects the TOCKs of its services is at the present cycle.
Ready(m, r) ==
  r.State = "ExpectingLocalTocks" =>
    /\ r.Syncd /\ r.GameCycle = GameCycle /\ m \in msLinked
    /\ ClientInfos[m].Registered /\ ~ClientInfos[m].TockReceived /\ toTicks[m] = <<>>

\* Those that are yet to send.
LEMMA ActsLeaveYet ==
  ASSUME NEW m \in Hosts, toTicks \in [Hosts -> Seq(FromHosts)], ms \in [Hosts -> MSRecord],
         msLinked \subseteq Hosts,
         NEW r, NEW net, Ready(m, r), Acts(m, r, net),
         UNCHANGED <<ClientInfos, msLinked>>
  PROVE  LET Y == YetToSend([ms EXCEPT ![m] = r])
             Z == YetToSend(ms)'
         IN /\ Z \subseteq Y
            /\ Waits(m, r, net) \/ m \notin Z
            /\ r.State = "ExpectingLocalTocks" /\ ~r.DeltaSent => m \in Y
<1> DEFINE f == [ms EXCEPT ![m] = r]
           Y == YetToSend(f)
           Z == YetToSend(ms)'
<1>1. /\ f[m] = r /\ \A h \in Hosts \ {m} : f[h] = ms[h] /\ ms'[h] = ms[h]
      /\ DOMAIN f = Hosts
  BY DEF Acts
<1>2. \A n : n \in Z <=> /\ n \in msLinked /\ ClientInfos[n].Registered
                         /\ ~ClientInfos[n].TockReceived /\ toTicks'[n] = <<>>
                         /\ ~ms'[n].DeltaSent
  BY DEF YetToSend
<1>3. \A n : n \in Y <=> /\ n \in msLinked /\ ClientInfos[n].Registered
                         /\ ~ClientInfos[n].TockReceived /\ toTicks[n] = <<>>
                         /\ ~f[n].DeltaSent
  BY DEF YetToSend
<1> HIDE DEF f, Y, Z
<1>4. r.State = "ExpectingLocalTocks" /\ ~r.DeltaSent => m \in Y
  BY <1>1, <1>3 DEF Ready
<1>5. Waits(m, r, net) => Z \subseteq Y
  <2> SUFFICES ASSUME Waits(m, r, net), NEW n \in Z PROVE n \in Y
    OBVIOUS
  <2>1. n \in Hosts
    BY <1>2
  <2>2. toTicks' = toTicks /\ ms'[m].DeltaSent = r.DeltaSent
    BY DEF Waits
  <2>3. CASE n = m
    BY <1>1, <1>2, <1>3, <2>2, <2>3
  <2>4. CASE n # m
    BY <1>1, <1>2, <1>3, <2>1, <2>2, <2>4
  <2> QED BY <2>3, <2>4
<1>6. Sends(m, r, net) \/ Ends(m, r, net) => m \notin Z /\ Z \subseteq Y
  <2> SUFFICES ASSUME Sends(m, r, net) \/ Ends(m, r, net) PROVE m \notin Z /\ Z \subseteq Y
    OBVIOUS
  <2>1. m \notin Z /\ \A h \in Hosts \ {m} : toTicks'[h] = toTicks[h]
    <3>1. CASE Sends(m, r, net)
      BY <1>2, <3>1 DEF Sends
    <3>2. CASE Ends(m, r, net)
      <4>1. CASE m \in msLinked
        <5>1. toTicks' = [toTicks EXCEPT ![m] = Append(@, Tock)]
          BY <3>2, <4>1 DEF Ends
        <5>2. toTicks[m] \in Seq(FromHosts) /\ Tock \in FromHosts
          BY DEF FromHosts
        <5>3. Append(toTicks[m], Tock) # <<>>
          BY <5>2, Sent
        <5>4. toTicks'[m] # <<>>
          BY <5>1, <5>3
        <5> QED BY <1>2, <5>1, <5>4
      <4>2. CASE m \notin msLinked
        BY <1>2, <3>2, <4>2 DEF Ends
      <4> QED BY <4>1, <4>2
    <3> QED BY <3>1, <3>2
  <2>2. Z \subseteq Y
    <3> SUFFICES ASSUME NEW n \in Z PROVE n \in Y
      OBVIOUS
    <3>1. n \in Hosts \ {m}
      BY <1>2, <2>1
    <3> QED BY <1>1, <1>2, <1>3, <2>1, <3>1
  <2> QED BY <2>1, <2>2
<1> QED BY <1>4, <1>5, <1>6 DEF Acts, f, Y, Z

LEMMA SameCounts ==
  ASSUME NEW c, NEW X, NEW a, NEW r, SameCount(a, r), CountInv(c, a, X) PROVE CountInv(c, r, X)
<1>1. Early(c, r) = Early(c, a) /\ Heard(c, r, X) = Heard(c, a, X)
  BY DEF SameCount, Early, Heard
<1> QED BY <1>1 DEF SameCount, CountInv

LEMMA EndedCount ==
  ASSUME NEW c \in Nat, NEW X, NEW r, NEW z, EndsTick(r, z), r.Syncd, CountInv(c, r, X)
  PROVE  CountInv(c, z, X)
<1>1. z.Syncd /\ z.PendingDeltas = {} /\ z.NbReceived = 0
        /\ z.ReceivedBeforeSync = r.ReceivedBeforeSync
  BY DEF EndsTick
<1>2. Early(c, z) = {} /\ Heard(c, z, X) = {}
  BY <1>1 DEF Early, Heard
<1>3. Cardinality({}) = 0
  BY FS_EmptySet
<1>4. z.NbReceived + Cardinality(Early(c, z)) <= Cardinality(Heard(c, z, X))
  BY <1>1, <1>2, <1>3
<1>5. ~(z.NbReceived > 0)
  BY <1>1
<1> QED BY <1>1, <1>4, <1>5 DEF CountInv

\* The automaton keeps the deltas apart.
LEMMA ActsKeepDeltas ==
  ASSUME ShardInv, NEW m \in Hosts, NEW r, NEW net \in [Pairs -> Seq(Between)], NEW X,
         Ready(m, r), r.DeltaSent => r.State = "ExpectingLocalTocks", Acts(m, r, net),
         UNCHANGED <<GameCycle, ClientInfos, msLinked>>,
         LET f == [ms EXCEPT ![m] = r] IN DeltasAre(GameCycle, YetToSend(f), f, net, X)
  PROVE  DeltaInv(X)'
<1> DEFINE c == GameCycle
           f == [ms EXCEPT ![m] = r]
           Y == YetToSend(f)
           Z == YetToSend(ms)'
           x == Delta(m \notin PureReceivers, c)
<1>1. /\ toTicks \in [Hosts -> Seq(FromHosts)] /\ ms \in [Hosts -> MSRecord]
      /\ msLinked \subseteq Hosts /\ c \in Nat
  BY DEF ShardInv, MasterInv, Types, TicksTypes, MSTypes, Control
<1>2. /\ Z \subseteq Y /\ (Waits(m, r, net) \/ m \notin Z)
      /\ r.State = "ExpectingLocalTocks" /\ ~r.DeltaSent => m \in Y
  BY <1>1, ActsLeaveYet
<1>3. f[m] = r /\ \A h \in Hosts \ {m} : f[h] = ms[h] /\ ms'[h] = ms[h]
  BY <1>1 DEF Acts
<1>4. DeltasAre(c, Y, f, net, X)
  OBVIOUS
<1>5. x \in Between /\ x.type = "DELTA" /\ x.cycle = c
  BY <1>1 DEF Delta, Between
<1>6. \/ peer' = net
      \/ m \in Y /\ m \notin Z /\ r.GameCycle = c /\ peer' = WithDeltas(m, r, net)
  <2>1. Sends(m, r, net) => ~Waits(m, r, net)
    BY DEF Sends, Waits
  <2>2. Ends(m, r, net) => ~Waits(m, r, net)
    BY DEF Ends, Waits, EndsTick, SameCount
  <2>3. r.State = "ExpectingLocalTocks" => r.GameCycle = c
    BY DEF Ready
  <2>4. CASE Waits(m, r, net)
    BY <2>4 DEF Waits
  <2>5. CASE Sends(m, r, net)
    BY <1>2, <2>1, <2>3, <2>5 DEF Sends
  <2>6. CASE Ends(m, r, net)
    BY <1>2, <2>2, <2>3, <2>6 DEF Ends, EndsTick
  <2> QED BY <2>4, <2>5, <2>6 DEF Acts
<1>7. \A k \in Hosts : /\ ms'[k].PendingDeltas = {} \/ ms'[k].PendingDeltas = f[k].PendingDeltas
                       /\ CountInv(c, ms'[k], X)
  <2> SUFFICES ASSUME NEW k \in Hosts
               PROVE  /\ ms'[k].PendingDeltas = {} \/ ms'[k].PendingDeltas = f[k].PendingDeltas
                      /\ CountInv(c, ms'[k], X)
    OBVIOUS
  <2> HIDE DEF f, c
  <2>1. CountInv(c, f[k], X)
    BY <1>4 DEF DeltasAre
  <2>2. CASE k # m
    BY <1>3, <2>1, <2>2
  <2>3. CASE k = m /\ SameCount(r, ms'[m])
    BY <1>3, <2>1, <2>3, SameCounts DEF SameCount
  <2>4. CASE k = m /\ EndsTick(r, ms'[m])
    <3>1. r.Syncd
      BY <2>4 DEF EndsTick, Ready
    <3> QED BY <1>1, <1>3, <2>1, <2>4, <3>1, EndedCount DEF EndsTick
  <2> QED BY <2>2, <2>3, <2>4 DEF Acts, Waits, Sends, Ends
<1>8. ASSUME NEW n \in Hosts, NEW k \in Hosts
      PROVE  PairInv(c, Z, n, ms'[k], peer'[<<n, k>>], X)
  <2> DEFINE q == net[<<n, k>>]
             v == peer'[<<n, k>>]
  <2>1. /\ PairInv(c, Y, n, f[k], q, X) /\ q \in Seq(Between) /\ <<n, k>> \in Pairs
        /\ ms'[k].PendingDeltas \subseteq f[k].PendingDeltas
    BY <1>4, <1>7 DEF DeltasAre, Pairs
  <2>2. \/ v = q
        \/ n = m /\ m \in Y /\ m \notin Z /\ v = Append(q, x)
    BY <1>6, <2>1 DEF WithDeltas
  <2> HIDE DEF q, v, Y, Z, c, f, x
  <2>3. CASE v = q
    BY <1>2, <2>1, <2>3 DEF PairInv, v
  <2>4. CASE n = m /\ m \in Y /\ m \notin Z /\ v = Append(q, x)
    <3>1. ~DeltaOf(q, c) /\ <<n, c>> \notin f[k].PendingDeltas
      BY <2>1, <2>4 DEF PairInv
    <3>2. OneDelta(v, c) /\ DeltasUpTo(v, c)
      BY <1>1, <1>5, <2>1, <2>4, <3>1, DeltaAppended DEF PairInv
    <3>3. Has(v, "DOWN") => Has(q, "DOWN")
      BY <1>5, <2>1, <2>4, Sent
    <3> QED BY <2>1, <2>4, <3>1, <3>2, <3>3 DEF PairInv, v
  <2> QED BY <2>2, <2>3, <2>4
<1>9. DeltasAre(c, Z, ms', peer', X)
  BY <1>7, <1>8 DEF DeltasAre
<1>10. GameCycle' = c
  OBVIOUS
<1> HIDE DEF c, Z
<1> QED BY <1>9, <1>10 DEF DeltaInv, Z

\* A handler of m leaves m in state r and net between the mirror services, with the
\* deltas apart, before the automaton goes on; and where the pending deltas of r come from.
Known(m, r, net) ==
  \A n \in Hosts : <<n, GameCycle>> \in r.PendingDeltas =>
    \/ <<n, GameCycle>> \in ms[m].PendingDeltas
    \/ /\ PeerHas(n, m, "DELTA") /\ Head(peer[<<n, m>>]).cycle = GameCycle
       /\ net[<<n, m>>] = Tail(peer[<<n, m>>]) /\ n # m
Acted(m, r, net, X) ==
  /\ r \in MSRecord /\ net \in [Pairs -> Seq(Between)] /\ Goes(m, r, net) /\ Ready(m, r)
  /\ r.DeltaSent => r.State = "ExpectingLocalTocks"
  /\ ms[m].State = "ExpectingLocalTocks" => r.State = "ExpectingLocalTocks"
  /\ LET f == [ms EXCEPT ![m] = r] IN DeltasAre(GameCycle, YetToSend(f), f, net, X)
  /\ Known(m, r, net)
  /\ IsFiniteSet(r.RemoteMSToWaitForDelta)
  /\ r.NbExpected = Cardinality(r.RemoteMSToWaitForDelta)
  /\ UNCHANGED <<GameCycle, ClientInfos, msLinked>>

\* In what a handler changes, for the deltas.
LEMMA ActedWhen ==
  ASSUME ShardInv, NEW X, DeltaInv(X), NEW m \in Hosts, NEW r \in MSRecord,
         NEW net \in [Pairs -> Seq(Between)], Goes(m, r, net), Ready(m, r),
         r.DeltaSent = ms[m].DeltaSent,
         r.DeltaSent => r.State = "ExpectingLocalTocks",
         ms[m].State = "ExpectingLocalTocks" => r.State = "ExpectingLocalTocks",
         \A n, k \in Hosts : k # m => net[<<n, k>>] = peer[<<n, k>>],
         \A n \in Hosts : PairInv(GameCycle, YetToSend(ms), n, r, net[<<n, m>>], X),
         CountInv(GameCycle, r, X), Known(m, r, net),
         IsFiniteSet(r.RemoteMSToWaitForDelta),
         r.NbExpected = Cardinality(r.RemoteMSToWaitForDelta),
         UNCHANGED <<GameCycle, ClientInfos, msLinked>>
  PROVE  Acted(m, r, net, X)
<1> DEFINE f == [ms EXCEPT ![m] = r]
<1>1. /\ f[m] = r /\ \A h \in Hosts \ {m} : f[h] = ms[h]
      /\ msLinked \subseteq Hosts
  BY OneOf DEF Types, MSTypes
<1>2. YetToSend(f) = YetToSend(ms)
  <2>1. \A n \in Hosts : f[n].DeltaSent = ms[n].DeltaSent
    BY <1>1
  <2> HIDE DEF f
  <2> QED BY <1>1, <2>1 DEF YetToSend
<1>3. DeltasAre(GameCycle, YetToSend(ms), f, net, X)
  <2> HIDE DEF f
  <2>1. ASSUME NEW k \in Hosts
        PROVE  /\ \A n \in Hosts : PairInv(GameCycle, YetToSend(ms), n, f[k], net[<<n, k>>], X)
               /\ CountInv(GameCycle, f[k], X)
    <3>1. CASE k = m
      BY <1>1, <3>1
    <3>2. CASE k # m
      BY <1>1, <3>2 DEF DeltaInv, DeltasAre
    <3> QED BY <3>1, <3>2
  <2> QED BY <2>1 DEF DeltasAre
<1>4. DeltasAre(GameCycle, YetToSend(f), f, net, X)
  BY <1>2, <1>3
<1> QED BY <1>4 DEF Acted

LEMMA ReadyNow ==
  ASSUME ShardInv, NEW m \in Hosts
  PROVE  Ready(m, ms[m]) /\ (ms[m].DeltaSent => ms[m].State = "ExpectingLocalTocks")
<1>1. Sound(m, ms[m]) /\ ms[m] \in MSRecord
        /\ Link(m, ms[m], GameCycle, ClientInfos[m], toTicks[m], toHost[m])
  BY OneOf
<1>2. ms[m].DeltaSent => ms[m].State = "ExpectingLocalTocks"
  BY <1>1 DEF Sound, MSRecord
<1>3. ASSUME ms[m].State = "ExpectingLocalTocks" PROVE Ready(m, ms[m])
  <2>1. ms[m].Syncd /\ ms[m].State # "ExpectingMasterTick"
    BY <1>1, <1>3 DEF Sound
  <2>2. m \in msLinked
    BY <1>1, <2>1 DEF Link, NewMS
  <2>3. Opened(ms[m], GameCycle, ClientInfos[m], toTicks[m], toHost[m])
    BY <1>1, <2>2 DEF Link
  <2> QED BY <2>1, <2>2, <2>3 DEF Opened, Ready
<1> QED BY <1>2, <1>3 DEF Ready

\* Handlers that leave the deltas alone.
SameDeltas(a, r) ==
  SameCount(a, r) /\ r.DeltaSent = a.DeltaSent /\ r.NbExpected = a.NbExpected

LEMMA SameDeltasActed ==
  ASSUME ShardInv, NEW X, DeltaInv(X), NEW m \in Hosts, NEW r \in MSRecord,
         SameDeltas(ms[m], r), Goes(m, r, peer), UNCHANGED <<GameCycle, ClientInfos, msLinked>>
  PROVE  Acted(m, r, peer, X)
<1>1. peer \in [Pairs -> Seq(Between)] /\ Sound(m, ms[m])
  BY OneOf
<1>2. SameCount(ms[m], r) /\ r.DeltaSent = ms[m].DeltaSent /\ r.NbExpected = ms[m].NbExpected
  BY DEF SameDeltas
<1>3. /\ Ready(m, r) /\ (r.DeltaSent => r.State = "ExpectingLocalTocks")
      /\ ms[m].State = "ExpectingLocalTocks" => r.State = "ExpectingLocalTocks"
  BY <1>2, ReadyNow DEF Ready, SameCount
<1>4. \A n \in Hosts : PairInv(GameCycle, YetToSend(ms), n, r, peer[<<n, m>>], X)
  BY <1>2 DEF DeltaInv, DeltasAre, PairInv, SameCount
<1>5. CountInv(GameCycle, r, X)
  BY <1>2, SameCounts DEF DeltaInv, DeltasAre
<1>6. Known(m, r, peer)
  BY <1>2 DEF Known, SameCount
<1>7. IsFiniteSet(r.RemoteMSToWaitForDelta)
        /\ r.NbExpected = Cardinality(r.RemoteMSToWaitForDelta)
  BY <1>1, <1>2 DEF Sound, SameCount
<1> QED BY <1>1, <1>2, <1>3, <1>4, <1>5, <1>6, <1>7, ActedWhen

LEMMA TockDeltas ==
  ASSUME NEW a \in MSRecord, NEW s \in Services
  PROVE  ReceiveTock(a, s) \in MSRecord /\ SameDeltas(a, ReceiveTock(a, s))
<1> DEFINE r == ReceiveTock(a, s)
<1>1. r = [a EXCEPT !.NbTocked = a.NbTocked + 1, !.TockedServices = a.TockedServices \cup {s}]
  BY DEF ReceiveTock
<1>2. r \in MSRecord
  BY TocksRecord
<1> HIDE DEF r
<1>3. SameDeltas(a, r)
  BY <1>1 DEF SameDeltas, SameCount, MSRecord
<1> QED BY <1>2, <1>3 DEF r

LEMMA ServiceHandlerActed ==
  ASSUME ShardInv, NEW X, DeltaInv(X), NEW m \in Hosts, NEW s \in Local(m),
         \/ CbRegisterToTickSystem(m, s) \/ CbClientTock(m, s) \/ CbServiceDown(m, s)
         \/ DeclareDataSets(m, s) \/ CbForwardACKATE(m, s)
  PROVE  \E r, net : Acted(m, r, net, X)
<1> DEFINE a == ms[m]
<1>1. a \in MSRecord /\ Sound(m, a) /\ s \in Services
  BY OneOf DEF Local
<1>2. SUFFICES \E r \in MSRecord : SameDeltas(a, r) /\ Goes(m, r, peer)
  <2>1. UNCHANGED <<GameCycle, ClientInfos, msLinked>>
    BY DEF CbRegisterToTickSystem, CbClientTock, CbServiceDown, DeclareDataSets, CbForwardACKATE,
           ticksState
  <2> QED BY <2>1, SameDeltasActed
<1>3. CASE CbRegisterToTickSystem(m, s)
  <2> DEFINE b == [a EXCEPT !.Services = @ \cup {s}]
  <2>1. b \in MSRecord /\ SameDeltas(a, b)
    BY <1>1 DEF SameDeltas, SameCount, MSRecord
  <2>2. Goes(m, AddService(m, s), peer)
    BY <1>3 DEF CbRegisterToTickSystem, Goes
  <2>3. AddService(m, s) = b \/ AddService(m, s) = ReceiveTock(b, s)
    BY DEF AddService
  <2> HIDE DEF a, b
  <2>4. ReceiveTock(b, s) \in MSRecord /\ SameDeltas(b, ReceiveTock(b, s))
    BY <1>1, <2>1, TockDeltas
  <2>5. SameDeltas(a, ReceiveTock(b, s))
    BY <2>1, <2>4 DEF SameDeltas, SameCount
  <2> QED BY <2>1, <2>2, <2>3, <2>4, <2>5
<1>4. CASE CbClientTock(m, s)
  <2>1. Goes(m, ReceiveTock(a, s), peer)
    BY <1>4 DEF CbClientTock, Goes
  <2> QED BY <1>1, <2>1, TockDeltas
<1>5. CASE CbServiceDown(m, s)
  <2> DEFINE c == NoLongerClient(a, s)
             r == Left(a, s)
  <2>1. Goes(m, r, peer)
    BY <1>5 DEF CbServiceDown, Goes, Left
  <2>2. r \in MSRecord
    BY <1>1, LeftRecord
  <2>3. SameDeltas(a, c) /\ "NbTocked" \in DOMAIN c /\ DOMAIN c = DOMAIN a
    <3> DEFINE acks == [a.NbExpectedATAcknowledges EXCEPT ![s] =
                          IF s \in a.ClientServices THEN 0 ELSE @]
    <3>1. c = [a EXCEPT !.ClientServices = a.ClientServices \ {s},
                        !.NbExpectedATAcknowledges = acks]
      BY <1>1 DEF NoLongerClient, MSRecord
    <3> HIDE DEF a, acks, c
    <3> QED BY <1>1, <3>1 DEF MSRecord, SameDeltas, SameCount
  <2>4. SameDeltas(a, r)
    <3>1. r = (IF s \in c.Services THEN RemoveService(c, s) ELSE c)
      BY DEF Left
    <3> HIDE DEF a, c, r
    <3>2. SameDeltas(c, RemoveService(c, s))
      BY <1>1, <2>3 DEF RemoveService, MSRecord, SameDeltas, SameCount
    <3> QED BY <2>3, <3>1, <3>2 DEF SameDeltas, SameCount
  <2> QED BY <2>1, <2>2, <2>4
<1>6. CASE DeclareDataSets(m, s)
  <2> DEFINE others == a.ClientServices \ {s}
             clients == others \cup {s}
             acks == [d \in Services |-> a.NbExpectedATAcknowledges[d]
                        + (IF d = s THEN Cardinality(clients) ELSE IF d \in others THEN 1 ELSE 0)]
             r == [a EXCEPT !.ClientServices = clients, !.NbExpectedATAcknowledges = acks]
  <2>1. ms' = [ms EXCEPT ![m] = r] /\ peer' = peer /\ UNCHANGED toTicks
    BY <1>1, <1>6 DEF DeclareDataSets
  <2>2. Cardinality(clients) \in Nat /\ clients \in SUBSET Services
    <3>1. IsFiniteSet(others)
      BY <1>1, FS_RemoveElement DEF Sound
    <3>2. IsFiniteSet(clients)
      BY <3>1, FS_AddElement
    <3> QED BY <1>1, <3>2, FS_CardinalityType DEF MSRecord
  <2>3. acks \in [Services -> Nat]
    <3>1. a.NbExpectedATAcknowledges \in [Services -> Nat]
      BY <1>1 DEF MSRecord
    <3> HIDE DEF clients, others
    <3> QED BY <2>2, <3>1
  <2> HIDE DEF a, clients, acks
  <2>4. r \in MSRecord /\ SameDeltas(a, r)
    BY <1>1, <2>2, <2>3 DEF MSRecord, SameDeltas, SameCount
  <2> QED BY <2>1, <2>4 DEF Goes, a
<1>7. CASE CbForwardACKATE(m, s)
  <2> DEFINE k == IF a.NbExpectedATAcknowledges[s] > 0
                  THEN a.NbExpectedATAcknowledges[s] - 1 ELSE 0
             acks == [a.NbExpectedATAcknowledges EXCEPT ![s] = k]
             b == [a EXCEPT !.NbExpectedATAcknowledges = acks]
             d == [b EXCEPT !.BlockedAwaitingATAck = FALSE]
  <2>1. acks \in [Services -> Nat]
    <3>1. a.NbExpectedATAcknowledges \in [Services -> Nat]
      BY <1>1 DEF MSRecord
    <3>2. k \in Nat
      BY <1>1, <3>1
    <3> HIDE DEF a, k
    <3> QED BY <3>1, <3>2
  <2>2. Goes(m, b, peer) \/ Goes(m, d, peer)
    <3>1. a.NbExpectedATAcknowledges \in [Services -> Nat]
      BY <1>1 DEF MSRecord
    <3>2. [ms[m] EXCEPT !.NbExpectedATAcknowledges[s] = IF @ > 0 THEN @ - 1 ELSE 0] = b
      BY <1>1, <3>1
    <3> HIDE DEF b
    <3> QED BY <1>7, <3>2 DEF CbForwardACKATE, Goes
  <2> HIDE DEF a, acks
  <2>3. b \in MSRecord /\ SameDeltas(a, b)
    BY <1>1, <2>1 DEF MSRecord, SameDeltas, SameCount
  <2> HIDE DEF b
  <2>4. d \in MSRecord /\ SameDeltas(b, d)
    BY <2>3 DEF MSRecord, SameDeltas, SameCount
  <2> HIDE DEF d
  <2>5. SameDeltas(a, d)
    BY <2>3, <2>4 DEF SameDeltas, SameCount
  <2> QED BY <2>2, <2>3, <2>4, <2>5 DEF a
<1> QED BY <1>3, <1>4, <1>5, <1>6, <1>7

--------------------------------------------------------------------------------
\* Reading a queue between mirror services.
LEMMA PairRead ==
  ASSUME ShardInv, NEW X, DeltaInv(X), NEW m \in Hosts, NEW n \in Hosts \ {m}, NEW type,
         PeerHas(n, m, type)
  PROVE  LET q == peer[<<n, m>>] IN
         /\ q \in Seq(Between) /\ q # <<>> /\ Head(q).type = type /\ Head(q) \in Between
         /\ PairInv(GameCycle, YetToSend(ms), n, ms[m], q, X)
         /\ PairInv(GameCycle, YetToSend(ms), n, ms[m], Tail(q), X)
         /\ Rest(n, m) \in [Pairs -> Seq(Between)]
         /\ \A k \in Hosts, l \in Hosts :
              Rest(n, m)[<<k, l>>] = IF k = n /\ l = m THEN Tail(q) ELSE peer[<<k, l>>]
<1> DEFINE q == peer[<<n, m>>]
           c == GameCycle
<1>1. peer \in [Pairs -> Seq(Between)] /\ <<n, m>> \in Pairs
        /\ Rest(n, m) \in [Pairs -> Seq(Between)]
  BY PeerReads, OneOf DEF Pairs
<1>2. q \in Seq(Between) /\ q # <<>> /\ Head(q).type = type /\ Head(q) \in Between
  BY <1>1, PeerReads DEF PeerHas
<1>3. PairInv(c, YetToSend(ms), n, ms[m], q, X)
  BY DEF DeltaInv, DeltasAre
<1>4. \A k \in Hosts, l \in Hosts :
        Rest(n, m)[<<k, l>>] = IF k = n /\ l = m THEN Tail(q) ELSE peer[<<k, l>>]
  BY <1>1 DEF Rest, Pairs
<1> HIDE DEF q, c
<1>5. /\ DeltaOf(Tail(q), c) => DeltaOf(q, c)
      /\ OneDelta(q, c) => OneDelta(Tail(q), c)
      /\ DeltasUpTo(q, c) => DeltasUpTo(Tail(q), c)
      /\ Has(Tail(q), "DOWN") => Has(q, "DOWN")
  BY <1>2, DeltaRead, Read
<1>6. PairInv(c, YetToSend(ms), n, ms[m], Tail(q), X)
  BY <1>3, <1>5 DEF PairInv
<1> QED BY <1>1, <1>2, <1>3, <1>4, <1>6 DEF q, c

\* A message that leaves the deltas of m alone, and maybe whom m waits for.
LEMMA OtherPeerActed ==
  ASSUME ShardInv, NEW X, DeltaInv(X), NEW m \in Hosts, NEW n \in Hosts \ {m}, NEW type,
         PeerHas(n, m, type), NEW r \in MSRecord, Goes(m, r, Rest(n, m)),
         LET a == ms[m] IN
           /\ r.PendingDeltas = a.PendingDeltas /\ r.NbReceived = a.NbReceived
           /\ r.State = a.State /\ r.ReceivedBeforeSync = a.ReceivedBeforeSync
           /\ r.Syncd = a.Syncd /\ r.GameCycle = a.GameCycle /\ r.DeltaSent = a.DeltaSent,
         r.RemoteMSToWaitForDelta = ms[m].RemoteMSToWaitForDelta \/ X = Hosts,
         IsFiniteSet(r.RemoteMSToWaitForDelta),
         r.NbExpected = Cardinality(r.RemoteMSToWaitForDelta),
         UNCHANGED <<GameCycle, ClientInfos, msLinked>>
  PROVE  Acted(m, r, Rest(n, m), X)
<1> DEFINE a == ms[m]
           net == Rest(n, m)
           q == peer[<<n, m>>]
           Y == YetToSend(ms)
<1>1. /\ PairInv(GameCycle, Y, n, a, Tail(q), X) /\ net \in [Pairs -> Seq(Between)]
      /\ \A k, l \in Hosts : net[<<k, l>>] = IF k = n /\ l = m THEN Tail(q) ELSE peer[<<k, l>>]
      /\ \A k \in Hosts : PairInv(GameCycle, Y, k, a, peer[<<k, m>>], X)
      /\ CountInv(GameCycle, a, X)
  <2>1. /\ \A k \in Hosts : PairInv(GameCycle, Y, k, a, peer[<<k, m>>], X)
        /\ CountInv(GameCycle, a, X)
    BY DEF DeltaInv, DeltasAre
  <2> QED BY <2>1, PairRead
<1>2. /\ Ready(m, r) /\ (r.DeltaSent => r.State = "ExpectingLocalTocks")
      /\ ms[m].State = "ExpectingLocalTocks" => r.State = "ExpectingLocalTocks"
  BY ReadyNow DEF Ready
<1> HIDE DEF a, net, q, Y
<1>3. \A k \in Hosts : PairInv(GameCycle, Y, k, r, net[<<k, m>>], X)
  BY <1>1 DEF PairInv, a
<1>4. CountInv(GameCycle, r, X)
  <2>1. Early(GameCycle, r) = Early(GameCycle, a) /\ Heard(GameCycle, r, X) = Heard(GameCycle, a, X)
    <3>1. CASE X = Hosts
      BY <3>1 DEF Early, Heard, a
    <3>2. CASE r.RemoteMSToWaitForDelta = ms[m].RemoteMSToWaitForDelta
      BY <3>2 DEF Early, Heard, a
    <3> QED BY <3>1, <3>2
  <2> QED BY <1>1, <2>1 DEF CountInv, a
<1>5. Known(m, r, net)
  BY DEF Known
<1> QED BY <1>1, <1>2, <1>3, <1>4, <1>5, ActedWhen DEF Y, net

LEMMA AddRemoteMSActed ==
  ASSUME ShardInv, NEW X, DeltaInv(X), NEW m \in Hosts, NEW n \in Hosts \ {m}, AddRemoteMS(n, m)
  PROVE  \E r, net : Acted(m, r, net, X)
<1> DEFINE a == ms[m]
           r == [a EXCEPT !.RemoteMSList = @ \cup {n}]
<1>1. a \in MSRecord /\ Sound(m, a)
  BY OneOf
<1>2. /\ PeerHas(n, m, "UP") /\ Goes(m, r, Rest(n, m))
      /\ UNCHANGED <<GameCycle, ClientInfos, msLinked>>
  BY DEF AddRemoteMS, Goes, ticksState
<1> HIDE DEF a
<1>3. /\ r \in MSRecord
      /\ r.PendingDeltas = a.PendingDeltas /\ r.NbReceived = a.NbReceived
      /\ r.State = a.State /\ r.ReceivedBeforeSync = a.ReceivedBeforeSync
      /\ r.Syncd = a.Syncd /\ r.GameCycle = a.GameCycle /\ r.DeltaSent = a.DeltaSent
      /\ r.RemoteMSToWaitForDelta = a.RemoteMSToWaitForDelta /\ r.NbExpected = a.NbExpected
  BY <1>1 DEF MSRecord
<1> HIDE DEF r
<1>4. Acted(m, r, Rest(n, m), X)
  BY <1>1, <1>2, <1>3, OtherPeerActed DEF Sound, a
<1> QED BY <1>4

LEMMA RemoveRemoteMSActed ==
  ASSUME ShardInv, NEW X, DeltaInv(X), NEW m \in Hosts, NEW n \in Hosts \ {m}, RemoveRemoteMS(n, m)
  PROVE  \E r, net : Acted(m, r, net, X)
<1> DEFINE a == ms[m]
           list == a.RemoteMSList \ {n}
           waited == a.RemoteMSToWaitForDelta \ {n}
           k == IF n \in a.RemoteMSToWaitForDelta THEN a.NbExpected - 1 ELSE a.NbExpected
           r == [a EXCEPT !.RemoteMSList = list, !.RemoteMSToWaitForDelta = waited,
                          !.NbExpected = k]
<1>1. a \in MSRecord /\ Sound(m, a)
  BY OneOf
<1>2. /\ PeerHas(n, m, "DOWN") /\ Goes(m, r, Rest(n, m))
      /\ UNCHANGED <<GameCycle, ClientInfos, msLinked>>
  BY DEF RemoveRemoteMS, Goes, ticksState
<1>3. X = Hosts
  <2>1. /\ peer[<<n, m>>] \in Seq(Between) /\ peer[<<n, m>>] # <<>>
        /\ Head(peer[<<n, m>>]).type = "DOWN"
        /\ PairInv(GameCycle, YetToSend(ms), n, ms[m], peer[<<n, m>>], X)
    BY <1>2, PairRead
  <2>2. Has(peer[<<n, m>>], "DOWN")
    BY <2>1, Read
  <2> QED BY <2>1, <2>2 DEF PairInv
<1> HIDE DEF a
<1>4. /\ list \in SUBSET Hosts /\ waited \in SUBSET Hosts /\ IsFiniteSet(waited)
      /\ k = Cardinality(waited) /\ k \in Int
  <2>1. /\ IsFiniteSet(a.RemoteMSToWaitForDelta)
        /\ a.NbExpected = Cardinality(a.RemoteMSToWaitForDelta) /\ a.NbExpected \in Int
        /\ a.RemoteMSToWaitForDelta \in SUBSET Hosts /\ a.RemoteMSList \in SUBSET Hosts
    BY <1>1 DEF Sound, MSRecord
  <2>2. k = Cardinality(waited) /\ IsFiniteSet(waited)
    BY <2>1, OneLess, FS_RemoveElement
  <2> QED BY <2>1, <2>2
<1> HIDE DEF list, waited, k
<1>5. /\ r \in MSRecord
      /\ r.PendingDeltas = a.PendingDeltas /\ r.NbReceived = a.NbReceived
      /\ r.State = a.State /\ r.ReceivedBeforeSync = a.ReceivedBeforeSync
      /\ r.Syncd = a.Syncd /\ r.GameCycle = a.GameCycle /\ r.DeltaSent = a.DeltaSent
      /\ r.RemoteMSToWaitForDelta = waited /\ r.NbExpected = k
  BY <1>1, <1>4 DEF MSRecord
<1> HIDE DEF r
<1>6. Acted(m, r, Rest(n, m), X)
  BY <1>2, <1>3, <1>4, <1>5, OtherPeerActed DEF a
<1> QED BY <1>6

--------------------------------------------------------------------------------
\* The sync counts the deltas of the present tick that came before it.
LEMMA SyncFirst ==
  ASSUME ShardInv, NEW m \in Hosts, MasterHas(m, "REGISTERED")
  PROVE  LET k == Head(toHost[m]).cycle IN
         /\ ~ms[m].Syncd /\ toTicks[m] = <<>> /\ ClientInfos[m].Registered /\ k \in Nat
         /\ \/ k = GameCycle /\ Tail(toHost[m]) = <<>> /\ ClientInfos[m].TockReceived
            \/ k = GameCycle - 1 /\ Tail(toHost[m]) = <<Tick>> /\ ~ClientInfos[m].TockReceived
<1> DEFINE a == ms[m]
           k == Head(toHost[m]).cycle
<1>1. /\ toHost[m] # <<>> /\ Head(toHost[m]).type = "REGISTERED" /\ GameCycle \in Nat
      /\ Opened(a, GameCycle, ClientInfos[m], toTicks[m], toHost[m])
  <2>1. GameCycle \in Nat
    BY DEF ShardInv, MasterInv, Control
  <2> QED BY <2>1, MasterReads
<1>2. /\ ~a.Syncd /\ toTicks[m] = <<>> /\ ClientInfos[m].Registered
      /\ \/ toHost[m] = <<Registered(GameCycle)>> /\ ClientInfos[m].TockReceived
         \/ toHost[m] = <<Registered(GameCycle - 1), Tick>> /\ ~ClientInfos[m].TockReceived
            /\ GameCycle > 0
  BY <1>1, FirstToHost DEF Opened
<1>3. ASSUME NEW j, toHost[m] = <<Registered(j)>>
      PROVE  k = j /\ Tail(toHost[m]) = <<>>
  BY <1>3, FirstToHost
<1>4. ASSUME NEW j, toHost[m] = <<Registered(j), Tick>>
      PROVE  k = j /\ Tail(toHost[m]) = <<Tick>>
  BY <1>4, FirstToHost
<1> HIDE DEF k, a
<1>5. CASE toHost[m] = <<Registered(GameCycle)>> /\ ClientInfos[m].TockReceived
  BY <1>1, <1>2, <1>3, <1>5 DEF a, k
<1>6. CASE /\ toHost[m] = <<Registered(GameCycle - 1), Tick>> /\ ~ClientInfos[m].TockReceived
           /\ GameCycle > 0
  <2>1. k = GameCycle - 1 /\ Tail(toHost[m]) = <<Tick>>
    BY <1>4, <1>6
  <2> QED BY <1>1, <1>2, <1>6, <2>1 DEF a, k
<1> QED BY <1>2, <1>5, <1>6

LEMMA CbSyncFromMasterActed ==
  ASSUME ShardInv, NEW X, DeltaInv(X), NEW m \in Hosts, CbSyncFromMaster(m)
  PROVE  \E r, net : Acted(m, r, net, X)
<1> DEFINE a == ms[m]
           k == Head(toHost[m]).cycle
           early == {i \in DOMAIN a.ReceivedBeforeSync : a.ReceivedBeforeSync[i] > k}
           b == [a EXCEPT !.GameCycle = k, !.Syncd = TRUE]
           c == [b EXCEPT !.NbReceived = @ + Cardinality(early), !.ReceivedBeforeSync = <<>>]
<1>1. /\ a \in MSRecord /\ Sound(m, a) /\ MasterHas(m, "REGISTERED") /\ GameCycle \in Nat
      /\ UNCHANGED <<GameCycle, ClientInfos, msLinked>>
      /\ peer \in [Pairs -> Seq(Between)] /\ CountInv(GameCycle, a, X)
  <2>1. a \in MSRecord /\ Sound(m, a) /\ peer \in [Pairs -> Seq(Between)]
    BY OneOf
  <2>2. MasterHas(m, "REGISTERED") /\ UNCHANGED <<GameCycle, ClientInfos, msLinked>>
    BY DEF CbSyncFromMaster, ticksState
  <2>3. GameCycle \in Nat
    BY DEF ShardInv, MasterInv, Control
  <2>4. CountInv(GameCycle, a, X)
    BY DEF DeltaInv, DeltasAre
  <2> QED BY <2>1, <2>2, <2>3, <2>4
<1>2. ~a.Syncd /\ k \in Nat /\ k \in {GameCycle, GameCycle - 1}
  BY <1>1, SyncFirst
<1>3. Goes(m, c, peer) \/ (Goes(m, b, peer) /\ a.ReceivedBeforeSync = <<>>)
  <2>1. b.GameCycle = k /\ b.ReceivedBeforeSync = a.ReceivedBeforeSync
    BY <1>1 DEF MSRecord
  <2> DEFINE z == [ms[m] EXCEPT !.GameCycle = Head(toHost[m]).cycle, !.Syncd = TRUE]
  <2>2. ExamineDeltaUpdatesReceivedBeforeSync(b) = c
    BY <2>1 DEF ExamineDeltaUpdatesReceivedBeforeSync
  <2>3. b = z
    OBVIOUS
  <2> HIDE DEF k, b, c, a
  <2>4. z.ReceivedBeforeSync = a.ReceivedBeforeSync
    BY <2>1, <2>3
  <2> QED BY <2>2, <2>3, <2>4 DEF CbSyncFromMaster, Goes
<1>4. Cardinality(early) \in Nat
  <2>1. a.ReceivedBeforeSync \in Seq(Nat)
    BY <1>1 DEF MSRecord
  <2>2. early \in SUBSET (1 .. Len(a.ReceivedBeforeSync)) /\ Len(a.ReceivedBeforeSync) \in Nat
    BY <2>1
  <2>3. IsFiniteSet(1 .. Len(a.ReceivedBeforeSync))
    BY <2>2, FS_Interval
  <2> QED BY <2>2, <2>3, FS_Subset, FS_CardinalityType
<1>5. a.State = "ExpectingMasterTick" /\ ~a.DeltaSent
  BY <1>1, <1>2 DEF Sound
<1>6. a.NbReceived = 0
  BY <1>1, <1>2 DEF CountInv, MSRecord
<1>7. \A i \in DOMAIN a.ReceivedBeforeSync : a.ReceivedBeforeSync[i] \in Nat
  BY <1>1 DEF MSRecord
<1>8. early = IF k = GameCycle THEN {} ELSE Early(GameCycle, a)
  <2>1. \A i \in DOMAIN a.ReceivedBeforeSync : a.ReceivedBeforeSync[i] <= GameCycle
    BY <1>1 DEF CountInv
  <2> HIDE DEF a, k
  <2>2. CASE k = GameCycle
    BY <1>1, <1>7, <2>1, <2>2
  <2>3. CASE k = GameCycle - 1
    <3>1. \A i \in DOMAIN a.ReceivedBeforeSync :
            a.ReceivedBeforeSync[i] > k <=> a.ReceivedBeforeSync[i] = GameCycle
      BY <1>1, <1>7, <2>1, <2>3
    <3>2. k # GameCycle
      BY <1>1, <2>3
    <3> QED BY <1>2, <3>1, <3>2 DEF Early
  <2> QED BY <1>2, <2>2, <2>3
<1> HIDE DEF a, k, early
<1>9. /\ b \in MSRecord /\ b.State = a.State /\ b.Syncd = TRUE /\ b.GameCycle = k
      /\ b.PendingDeltas = a.PendingDeltas /\ b.NbReceived = a.NbReceived
      /\ b.ReceivedBeforeSync = a.ReceivedBeforeSync /\ b.DeltaSent = a.DeltaSent
      /\ b.RemoteMSToWaitForDelta = a.RemoteMSToWaitForDelta /\ b.NbExpected = a.NbExpected
  BY <1>1, <1>2 DEF MSRecord
<1> HIDE DEF b
<1>10. /\ c \in MSRecord /\ c.State = a.State /\ c.Syncd = TRUE /\ c.GameCycle = k
       /\ c.PendingDeltas = a.PendingDeltas /\ c.NbReceived = Cardinality(early)
       /\ c.ReceivedBeforeSync = <<>> /\ c.DeltaSent = a.DeltaSent
       /\ c.RemoteMSToWaitForDelta = a.RemoteMSToWaitForDelta /\ c.NbExpected = a.NbExpected
  <2>1. b.NbReceived + Cardinality(early) = Cardinality(early) /\ <<>> \in Seq(Nat)
    BY <1>4, <1>6, <1>9
  <2>2. c = [b EXCEPT !.NbReceived = Cardinality(early), !.ReceivedBeforeSync = <<>>]
    BY <2>1
  <2> HIDE DEF c
  <2> QED BY <1>4, <1>9, <2>1, <2>2 DEF MSRecord
<1> HIDE DEF c
<1>11. PICK r : /\ r \in MSRecord /\ r.State = a.State /\ r.Syncd = TRUE /\ r.GameCycle = k
                /\ r.PendingDeltas = a.PendingDeltas /\ r.NbReceived = Cardinality(early)
                /\ r.ReceivedBeforeSync = <<>> /\ r.DeltaSent = a.DeltaSent
                /\ r.RemoteMSToWaitForDelta = a.RemoteMSToWaitForDelta
                /\ r.NbExpected = a.NbExpected /\ Goes(m, r, peer)
  <2>1. CASE Goes(m, c, peer)
    BY <1>10, <2>1
  <2>2. CASE Goes(m, b, peer) /\ a.ReceivedBeforeSync = <<>>
    <3>1. early = {}
      BY <2>2 DEF early
    <3>2. Cardinality(early) = 0
      BY <3>1, FS_EmptySet
    <3> QED BY <1>6, <1>9, <2>2, <3>2
  <2> QED BY <1>3, <2>1, <2>2
<1>12. CountInv(GameCycle, r, X)
  <2>1. Early(GameCycle, r) = {} /\ Heard(GameCycle, r, X) = Heard(GameCycle, a, X)
    BY <1>11 DEF Early, Heard
  <2>2. Cardinality({}) = 0
    BY FS_EmptySet
  <2>3. CASE k = GameCycle
    <3>1. r.NbReceived = 0
      BY <1>8, <1>11, <2>2, <2>3
    <3>2. Cardinality(Early(GameCycle, a)) >= 0 /\ Cardinality(Early(GameCycle, a)) \in Nat
      <4>1. a.ReceivedBeforeSync \in Seq(Nat)
        BY <1>1 DEF MSRecord
      <4>2. /\ Early(GameCycle, a) \in SUBSET (1 .. Len(a.ReceivedBeforeSync))
            /\ Len(a.ReceivedBeforeSync) \in Nat
        BY <4>1 DEF Early
      <4>3. IsFiniteSet(1 .. Len(a.ReceivedBeforeSync))
        BY <4>2, FS_Interval
      <4> QED BY <4>2, <4>3, FS_Subset, FS_CardinalityType
    <3>3. 0 + Cardinality(Early(GameCycle, a)) <= Cardinality(Heard(GameCycle, a, X))
      BY <1>1, <1>6 DEF CountInv
    <3>4. Cardinality(Heard(GameCycle, a, X)) \in Nat
      BY HostsAssumption, FS_Subset, FS_CardinalityType DEF Heard
    <3>5. r.NbReceived + Cardinality(Early(GameCycle, r)) <= Cardinality(Heard(GameCycle, r, X))
      BY <2>1, <2>2, <3>1, <3>4
    <3> QED BY <1>1, <1>11, <2>1, <3>1, <3>5 DEF CountInv
  <2>4. CASE k = GameCycle - 1
    <3>1. r.NbReceived = Cardinality(Early(GameCycle, a))
      BY <1>1, <1>8, <1>11, <2>4
    <3>2. r.NbReceived + 0 <= Cardinality(Heard(GameCycle, a, X))
      BY <1>1, <1>4, <1>6, <1>11, <3>1 DEF CountInv
    <3> QED BY <1>1, <1>11, <2>1, <2>2, <2>4, <3>2 DEF CountInv
  <2> QED BY <1>2, <2>3, <2>4
<1>13. /\ Ready(m, r) /\ (r.DeltaSent => r.State = "ExpectingLocalTocks")
       /\ ms[m].State = "ExpectingLocalTocks" => r.State = "ExpectingLocalTocks"
       /\ r.DeltaSent = ms[m].DeltaSent
  BY <1>5, <1>11 DEF Ready, a
<1>14. \A n \in Hosts : PairInv(GameCycle, YetToSend(ms), n, r, peer[<<n, m>>], X)
  <2>1. \A n \in Hosts : PairInv(GameCycle, YetToSend(ms), n, a, peer[<<n, m>>], X)
    BY DEF DeltaInv, DeltasAre, a
  <2> QED BY <1>11, <2>1 DEF PairInv
<1>15. Known(m, r, peer)
  BY <1>11 DEF Known, a
<1>16. IsFiniteSet(r.RemoteMSToWaitForDelta)
         /\ r.NbExpected = Cardinality(r.RemoteMSToWaitForDelta)
  BY <1>1, <1>11 DEF Sound
<1>17. Acted(m, r, peer, X)
  BY <1>1, <1>11, <1>12, <1>13, <1>14, <1>15, <1>16, ActedWhen
<1> QED BY <1>17

LEMMA MasterTickActed ==
  ASSUME ShardInv, NEW X, DeltaInv(X), NEW m \in Hosts, MasterTick(m)
  PROVE  \E r, net : Acted(m, r, net, X)
<1> DEFINE a == ms[m]
           r == [a EXCEPT !.GameCycle = @ + 1, !.State = "ExpectingLocalTocks"]
<1>1. /\ a \in MSRecord /\ Sound(m, a) /\ MasterHas(m, "TICK") /\ GameCycle \in Nat
      /\ UNCHANGED <<GameCycle, ClientInfos, msLinked>> /\ Goes(m, r, peer)
      /\ peer \in [Pairs -> Seq(Between)] /\ CountInv(GameCycle, a, X)
  <2>1. a \in MSRecord /\ Sound(m, a) /\ peer \in [Pairs -> Seq(Between)]
    BY OneOf
  <2>2. /\ MasterHas(m, "TICK") /\ UNCHANGED <<GameCycle, ClientInfos, msLinked>>
        /\ Goes(m, r, peer)
    BY DEF MasterTick, Goes, ticksState
  <2>3. GameCycle \in Nat
    BY DEF ShardInv, MasterInv, Control
  <2>4. CountInv(GameCycle, a, X)
    BY DEF DeltaInv, DeltasAre
  <2> QED BY <2>1, <2>2, <2>3, <2>4
<1>2. /\ toHost[m] # <<>> /\ Head(toHost[m]).type = "TICK" /\ m \in msLinked
      /\ Opened(a, GameCycle, ClientInfos[m], toTicks[m], toHost[m])
  BY <1>1, MasterReads
<1>3. /\ a.Syncd /\ toTicks[m] = <<>> /\ ClientInfos[m].Registered
      /\ ~ClientInfos[m].TockReceived /\ a.GameCycle = GameCycle - 1
      /\ a.GameCycle + 1 = GameCycle
  BY <1>1, <1>2, TickFirst
<1> HIDE DEF a
<1>4. /\ r \in MSRecord /\ r.State = "ExpectingLocalTocks" /\ r.Syncd /\ r.GameCycle = GameCycle
      /\ r.PendingDeltas = a.PendingDeltas /\ r.NbReceived = a.NbReceived
      /\ r.ReceivedBeforeSync = a.ReceivedBeforeSync /\ r.DeltaSent = a.DeltaSent
      /\ r.RemoteMSToWaitForDelta = a.RemoteMSToWaitForDelta /\ r.NbExpected = a.NbExpected
  <2>1. r = [a EXCEPT !.GameCycle = GameCycle, !.State = "ExpectingLocalTocks"]
    BY <1>3
  <2> HIDE DEF r
  <2> QED BY <1>1, <1>3, <2>1 DEF MSRecord
<1> HIDE DEF r
<1>5. Ready(m, r)
  BY <1>2, <1>3, <1>4 DEF Ready
<1>6. CountInv(GameCycle, r, X)
  <2>1. Early(GameCycle, r) = Early(GameCycle, a) /\ Heard(GameCycle, r, X) = Heard(GameCycle, a, X)
    BY <1>3, <1>4 DEF Early, Heard
  <2> QED BY <1>1, <1>4, <2>1 DEF CountInv
<1>7. \A n \in Hosts : PairInv(GameCycle, YetToSend(ms), n, r, peer[<<n, m>>], X)
  <2>1. \A n \in Hosts : PairInv(GameCycle, YetToSend(ms), n, a, peer[<<n, m>>], X)
    BY DEF DeltaInv, DeltasAre, a
  <2> QED BY <1>4, <2>1 DEF PairInv
<1>8. Known(m, r, peer)
  BY <1>4 DEF Known, a
<1>9. IsFiniteSet(r.RemoteMSToWaitForDelta)
        /\ r.NbExpected = Cardinality(r.RemoteMSToWaitForDelta) /\ r.DeltaSent = ms[m].DeltaSent
  BY <1>1, <1>4 DEF Sound, a
<1>10. Acted(m, r, peer, X)
  BY <1>1, <1>4, <1>5, <1>6, <1>7, <1>8, <1>9, ActedWhen
<1> QED BY <1>10

--------------------------------------------------------------------------------
\* The delta of another mirror service.
LEMMA DeltaStored ==
  ASSUME NEW m \in Hosts, NEW n \in Hosts \ {m}, NEW a \in MSRecord, Sound(m, a),
         NEW msg \in [type : {"DELTA"}, waitForIt : BOOLEAN, cycle : Nat]
  PROVE  LET r == StoreDelta(a, n, msg)
         IN /\ r \in MSRecord /\ r.State = a.State /\ r.Syncd = a.Syncd
            /\ r.GameCycle = a.GameCycle /\ r.DeltaSent = a.DeltaSent
            /\ r.NbReceived = a.NbReceived /\ r.ReceivedBeforeSync = a.ReceivedBeforeSync
            /\ r.PendingDeltas = a.PendingDeltas \cup {<<n, msg.cycle>>}
            /\ a.RemoteMSToWaitForDelta \subseteq r.RemoteMSToWaitForDelta
            /\ msg.waitForIt => n \in r.RemoteMSToWaitForDelta
            /\ IsFiniteSet(r.RemoteMSToWaitForDelta)
            /\ r.NbExpected = Cardinality(r.RemoteMSToWaitForDelta)
<1> DEFINE isNew == msg.waitForIt /\ n \notin a.RemoteMSToWaitForDelta
           waited == IF isNew THEN a.RemoteMSToWaitForDelta \cup {n}
                              ELSE a.RemoteMSToWaitForDelta
           k == IF isNew THEN a.NbExpected + 1 ELSE a.NbExpected
           pending == a.PendingDeltas \cup {<<n, msg.cycle>>}
           r == StoreDelta(a, n, msg)
<1>1. r = [a EXCEPT !.PendingDeltas = pending, !.RemoteMSToWaitForDelta = waited, !.NbExpected = k]
  BY DEF StoreDelta
<1>2. /\ r \in MSRecord /\ r.State = a.State /\ r.Syncd = a.Syncd
      /\ r.GameCycle = a.GameCycle /\ IsFiniteSet(r.RemoteMSToWaitForDelta)
      /\ r.NbExpected = Cardinality(r.RemoteMSToWaitForDelta)
  <2>1. /\ r \in MSRecord /\ Sound(m, r) /\ r.State = a.State /\ r.Syncd = a.Syncd
        /\ r.GameCycle = a.GameCycle
    BY StoreDeltaRecord
  <2> HIDE DEF r
  <2> QED BY <2>1 DEF Sound
<1>3. /\ a.RemoteMSToWaitForDelta \subseteq waited
      /\ msg.waitForIt => n \in waited
  OBVIOUS
<1> HIDE DEF r, k, waited, pending
<1>4. /\ r.DeltaSent = a.DeltaSent /\ r.NbReceived = a.NbReceived
      /\ r.ReceivedBeforeSync = a.ReceivedBeforeSync
      /\ r.PendingDeltas = pending /\ r.RemoteMSToWaitForDelta = waited
  BY <1>1 DEF MSRecord
<1> QED BY <1>2, <1>3, <1>4 DEF r, pending

LEMMA HeardWith ==
  ASSUME NEW X, NEW c, NEW n \in Hosts, NEW d, NEW a, NEW z,
         z.PendingDeltas = a.PendingDeltas \cup {<<n, d>>},
         a.RemoteMSToWaitForDelta \subseteq z.RemoteMSToWaitForDelta
  PROVE  /\ Cardinality(Heard(c, a, X)) \in Nat /\ Cardinality(Heard(c, z, X)) \in Nat
         /\ Cardinality(Heard(c, a, X)) <= Cardinality(Heard(c, z, X))
         /\ d = c /\ <<n, c>> \notin a.PendingDeltas /\ n \in z.RemoteMSToWaitForDelta =>
              Cardinality(Heard(c, a, X)) + 1 <= Cardinality(Heard(c, z, X))
<1> DEFINE h == Heard(c, a, X)
           j == Heard(c, z, X)
<1>1. h \subseteq j /\ IsFiniteSet(h) /\ IsFiniteSet(j)
  BY HostsAssumption, FS_Subset DEF Heard
<1>2. Cardinality(h) \in Nat /\ Cardinality(j) \in Nat /\ Cardinality(h) <= Cardinality(j)
  BY <1>1, FS_Subset, FS_CardinalityType
<1>3. ASSUME d = c, <<n, c>> \notin a.PendingDeltas, n \in z.RemoteMSToWaitForDelta
      PROVE  Cardinality(h) + 1 <= Cardinality(j)
  <2>1. n \notin h /\ h \cup {n} \subseteq j
    BY <1>1, <1>3 DEF Heard
  <2> HIDE DEF h, j
  <2>2. Cardinality(h \cup {n}) = Cardinality(h) + 1 /\ IsFiniteSet(h \cup {n})
    BY <1>1, <2>1, FS_AddElement
  <2>3. Cardinality(h \cup {n}) <= Cardinality(j)
    BY <1>1, <2>1, FS_Subset
  <2> QED BY <2>2, <2>3
<1> QED BY <1>2, <1>3

LEMMA EarlyWith ==
  ASSUME NEW c \in Nat, NEW d \in Nat, NEW a \in MSRecord, NEW z, z.Syncd = a.Syncd,
         z.ReceivedBeforeSync = Append(a.ReceivedBeforeSync, d),
         \A i \in DOMAIN a.ReceivedBeforeSync : a.ReceivedBeforeSync[i] <= c, d <= c
  PROVE  /\ \A i \in DOMAIN z.ReceivedBeforeSync : z.ReceivedBeforeSync[i] <= c
         /\ Cardinality(Early(c, a)) \in Nat /\ Cardinality(Early(c, z)) \in Nat
         /\ Cardinality(Early(c, z)) <= Cardinality(Early(c, a)) + 1
         /\ d # c => Cardinality(Early(c, z)) = Cardinality(Early(c, a))
<1> DEFINE q == a.ReceivedBeforeSync
           p == z.ReceivedBeforeSync
           l == Len(q)
           e == Early(c, a)
           f == Early(c, z)
<1>1. /\ q \in Seq(Nat) /\ p = Append(q, d) /\ l \in Nat /\ Len(p) = l + 1
      /\ DOMAIN q = 1 .. l /\ DOMAIN p = 1 .. l + 1 /\ p[l + 1] = d
      /\ \A i \in 1 .. l : p[i] = q[i]
  BY DEF MSRecord
<1>2. \A i : i \in 1 .. l + 1 <=> i \in 1 .. l \/ i = l + 1
  BY <1>1
<1>3. l + 1 \notin 1 .. l
  BY <1>1
<1> HIDE DEF q, p, l
<1>4. /\ \A i : i \in e <=> i \in 1 .. l /\ ~a.Syncd /\ q[i] = c
      /\ \A i : i \in f <=> i \in 1 .. l + 1 /\ ~a.Syncd /\ p[i] = c
  BY <1>1 DEF Early, q, p
<1> HIDE DEF e, f
<1>5. f = e \/ (d = c /\ f = e \cup {l + 1} /\ l + 1 \notin e)
  BY <1>1, <1>2, <1>3, <1>4
<1>6. IsFiniteSet(e) /\ IsFiniteSet(f) /\ Cardinality(e) \in Nat /\ Cardinality(f) \in Nat
  <2>1. IsFiniteSet(1 .. l) /\ IsFiniteSet(1 .. l + 1)
    BY <1>1, FS_Interval
  <2>2. e \subseteq 1 .. l /\ f \subseteq 1 .. l + 1
    BY <1>4
  <2> QED BY <2>1, <2>2, FS_Subset, FS_CardinalityType
<1>7. Cardinality(f) <= Cardinality(e) + 1 /\ (d # c => Cardinality(f) = Cardinality(e))
  <2>1. CASE f = e
    BY <1>6, <2>1
  <2>2. CASE d = c /\ f = e \cup {l + 1} /\ l + 1 \notin e
    <3>1. Cardinality(f) = Cardinality(e) + 1
      BY <1>6, <2>2, FS_AddElement
    <3> QED BY <1>6, <2>2, <3>1
  <2> QED BY <1>5, <2>1, <2>2
<1>8. \A i \in DOMAIN z.ReceivedBeforeSync : z.ReceivedBeforeSync[i] <= c
  BY <1>1, <1>2 DEF p, q
<1> QED BY <1>6, <1>7, <1>8 DEF e, f

\* A delta counts at once in the present cycle only, and not before the sync.
LEMMA CountsInCycle ==
  ASSUME ShardInv, NEW m \in Hosts, NEW msg, msg.cycle \in Nat, msg.cycle <= GameCycle,
         NEW r, r.State = ms[m].State, r.GameCycle = ms[m].GameCycle, ~IsDeferred(ms[m]),
         CountsNow(r, msg)
  PROVE  /\ msg.waitForIt /\ msg.cycle = GameCycle /\ ms[m].Syncd
         /\ ms[m].State = "ExpectingLocalTocks" \/ ms[m].GameCycle = GameCycle - 1
<1> DEFINE a == ms[m]
<1>1. /\ a \in MSRecord /\ Sound(m, a)
      /\ Link(m, a, GameCycle, ClientInfos[m], toTicks[m], toHost[m])
  BY OneOf
<1>2. GameCycle \in Nat /\ a.GameCycle \in Nat
  BY <1>1 DEF ShardInv, MasterInv, Control, MSRecord
<1>3. a.Syncd
  BY <1>1 DEF Sound, IsDeferred, MSRecord
<1>4. m \in msLinked
  BY <1>1, <1>3 DEF Link, NewMS
<1>5. Opened(a, GameCycle, ClientInfos[m], toTicks[m], toHost[m])
  BY <1>1, <1>4 DEF Link
<1> HIDE DEF a
<1>6. \/ a.State = "ExpectingLocalTocks" /\ a.GameCycle = GameCycle
      \/ a.State = "ExpectingMasterTick" /\ a.GameCycle = GameCycle
      \/ a.State = "ExpectingMasterTick" /\ a.GameCycle = GameCycle - 1
  BY <1>3, <1>5 DEF Opened
<1>7. /\ msg.waitForIt
      /\ IF a.State = "ExpectingMasterTick" THEN msg.cycle > a.GameCycle
                                            ELSE msg.cycle >= a.GameCycle
  BY DEF CountsNow, a
<1>8. /\ msg.cycle = GameCycle
      /\ a.State = "ExpectingLocalTocks" \/ a.GameCycle = GameCycle - 1
  BY <1>2, <1>6, <1>7
<1> QED BY <1>3, <1>7, <1>8 DEF a

LEMMA ReceiveDeltaActed ==
  ASSUME ShardInv, NEW X, DeltaInv(X), NEW m \in Hosts, NEW n \in Hosts \ {m},
         ReceiveDeltaFromRemoteMS(n, m)
  PROVE  \E r, net : Acted(m, r, net, X)
<1> DEFINE a == ms[m]
           q == peer[<<n, m>>]
           msg == Head(q)
           d == msg.cycle
           r == StoreDelta(a, n, msg)
           b == [r EXCEPT !.ReceivedBeforeSync = Append(@, d)]
           e == [r EXCEPT !.NbReceived = @ + 1]
           net == Rest(n, m)
           c == GameCycle
           Y == YetToSend(ms)
<1>1. /\ PeerHas(n, m, "DELTA") /\ UNCHANGED <<GameCycle, ClientInfos, msLinked>>
      /\ \/ IsDeferred(r) /\ msg.waitForIt /\ Goes(m, b, net)
         \/ IsDeferred(r) /\ ~msg.waitForIt /\ Goes(m, r, net)
         \/ ~IsDeferred(r) /\ CountsNow(r, msg) /\ Goes(m, e, net)
         \/ ~IsDeferred(r) /\ ~CountsNow(r, msg) /\ Goes(m, r, net)
  <2>1. PeerHas(n, m, "DELTA") /\ UNCHANGED <<GameCycle, ClientInfos, msLinked>>
    BY DEF ReceiveDeltaFromRemoteMS, ticksState
  <2> HIDE DEF b, e, r
  <2>2. \/ IsDeferred(r) /\ Goes(m, IF msg.waitForIt THEN b ELSE r, net)
        \/ ~IsDeferred(r) /\ Goes(m, IF CountsNow(r, msg) THEN e ELSE r, net)
    BY DEF ReceiveDeltaFromRemoteMS, Goes, r, b, e
  <2> QED BY <2>1, <2>2
<1>2. /\ a \in MSRecord /\ Sound(m, a) /\ c \in Nat
  <2>1. c \in Nat
    BY DEF ShardInv, MasterInv, Control
  <2> QED BY <2>1, OneOf
<1>3. /\ q \in Seq(Between) /\ q # <<>> /\ msg.type = "DELTA" /\ msg \in Between
      /\ PairInv(c, Y, n, a, q, X) /\ PairInv(c, Y, n, a, Tail(q), X)
      /\ net \in [Pairs -> Seq(Between)]
      /\ \A k \in Hosts, l \in Hosts :
           net[<<k, l>>] = IF k = n /\ l = m THEN Tail(q) ELSE peer[<<k, l>>]
  <2>1. PeerHas(n, m, "DELTA")
    BY <1>1
  <2> HIDE DEF b, e, r
  <2> QED BY <2>1, PairRead
<1>4. msg \in [type : {"DELTA"}, waitForIt : BOOLEAN, cycle : Nat] /\ d \in Nat
  BY <1>3 DEF Between, Up, Down
<1>5. CountInv(c, a, X) /\ \A k \in Hosts : PairInv(c, Y, k, a, peer[<<k, m>>], X)
  BY DEF DeltaInv, DeltasAre
<1> HIDE DEF a, q, msg, net, c, Y
<1>6. /\ r \in MSRecord /\ r.State = a.State /\ r.Syncd = a.Syncd
      /\ r.GameCycle = a.GameCycle /\ r.DeltaSent = a.DeltaSent
      /\ r.NbReceived = a.NbReceived /\ r.ReceivedBeforeSync = a.ReceivedBeforeSync
      /\ r.PendingDeltas = a.PendingDeltas \cup {<<n, d>>}
      /\ a.RemoteMSToWaitForDelta \subseteq r.RemoteMSToWaitForDelta
      /\ msg.waitForIt => n \in r.RemoteMSToWaitForDelta
      /\ IsFiniteSet(r.RemoteMSToWaitForDelta)
      /\ r.NbExpected = Cardinality(r.RemoteMSToWaitForDelta)
  BY <1>2, <1>4, DeltaStored
<1> HIDE DEF r
<1>7. /\ d <= c /\ DeltasUpTo(Tail(q), c) /\ OneDelta(Tail(q), c)
      /\ d = c => /\ <<n, c>> \notin a.PendingDeltas /\ n \notin Y /\ ~DeltaOf(Tail(q), c)
  <2>1. DeltasUpTo(q, c) /\ OneDelta(q, c)
        /\ (DeltaOf(q, c) => <<n, c>> \notin a.PendingDeltas) /\ (n \in Y => ~DeltaOf(q, c))
    BY <1>3 DEF PairInv
  <2>2. /\ msg.type = "DELTA" /\ d = c => DeltaOf(q, c) /\ ~DeltaOf(Tail(q), c)
        /\ OneDelta(Tail(q), c) /\ DeltasUpTo(Tail(q), c)
        /\ msg.type = "DELTA" => d <= c
    BY <1>3, <2>1, DeltaRead DEF msg
  <2> QED BY <1>3, <2>1, <2>2
<1> HIDE DEF d
<1>8. /\ Cardinality(Heard(c, a, X)) \in Nat /\ Cardinality(Early(c, a)) \in Nat
      /\ a.NbReceived \in Nat /\ a.ReceivedBeforeSync \in Seq(Nat)
  <2>1. a.NbReceived \in Nat /\ a.ReceivedBeforeSync \in Seq(Nat)
    BY <1>2 DEF MSRecord
  <2>2. Cardinality(Heard(c, a, X)) \in Nat
    BY HostsAssumption, FS_Subset, FS_CardinalityType DEF Heard
  <2>3. /\ Early(c, a) \in SUBSET (1 .. Len(a.ReceivedBeforeSync))
        /\ Len(a.ReceivedBeforeSync) \in Nat
    BY <2>1 DEF Early
  <2>4. Cardinality(Early(c, a)) \in Nat
    <3>1. IsFiniteSet(1 .. Len(a.ReceivedBeforeSync))
      BY <2>3, FS_Interval
    <3> QED BY <2>3, <3>1, FS_Subset, FS_CardinalityType
  <2> QED BY <2>1, <2>2, <2>4
\* What is left to show of the state z in which the handler leaves m.
<1>9. SUFFICES \E z : /\ z \in MSRecord /\ z.State = a.State /\ z.Syncd = a.Syncd
                      /\ z.GameCycle = a.GameCycle /\ z.DeltaSent = a.DeltaSent
                      /\ z.PendingDeltas = r.PendingDeltas
                      /\ z.RemoteMSToWaitForDelta = r.RemoteMSToWaitForDelta
                      /\ z.NbExpected = r.NbExpected
                      /\ CountInv(c, z, X) /\ Goes(m, z, net)
  <2> SUFFICES ASSUME NEW z, z \in MSRecord, z.State = a.State, z.Syncd = a.Syncd,
                      z.GameCycle = a.GameCycle, z.DeltaSent = a.DeltaSent,
                      z.PendingDeltas = r.PendingDeltas,
                      z.RemoteMSToWaitForDelta = r.RemoteMSToWaitForDelta,
                      z.NbExpected = r.NbExpected,
                      CountInv(c, z, X), Goes(m, z, net)
               PROVE  Acted(m, z, net, X)
    OBVIOUS
  <2>1. /\ Ready(m, z) /\ (z.DeltaSent => z.State = "ExpectingLocalTocks")
        /\ ms[m].State = "ExpectingLocalTocks" => z.State = "ExpectingLocalTocks"
    BY ReadyNow DEF Ready, a
  <2>2. \A k \in Hosts : PairInv(c, Y, k, z, net[<<k, m>>], X)
    <3> SUFFICES ASSUME NEW k \in Hosts PROVE PairInv(c, Y, k, z, net[<<k, m>>], X)
      OBVIOUS
    <3>1. CASE k # n
      BY <1>3, <1>5, <1>6, <3>1 DEF PairInv
    <3>2. CASE k = n
      <4>1. net[<<n, m>>] = Tail(q) /\ PairInv(c, Y, n, a, Tail(q), X)
        BY <1>3
      <4> QED BY <1>6, <1>7, <3>2, <4>1 DEF PairInv
    <3> QED BY <3>1, <3>2
  <2>3. Known(m, z, net)
    <3>1. net[<<n, m>>] = Tail(peer[<<n, m>>])
      BY <1>3 DEF q
    <3>2. \A k \in Hosts : <<k, c>> \in z.PendingDeltas =>
            <<k, c>> \in a.PendingDeltas \/ (k = n /\ d = c)
      BY <1>6
    <3> QED BY <1>1, <3>1, <3>2 DEF Known, a, c, d, msg, q
  <2> QED BY <1>1, <1>3, <1>6, <2>1, <2>2, <2>3, ActedWhen DEF a, c, Y
<1>10. ASSUME NEW z, z.Syncd = a.Syncd, z.PendingDeltas = r.PendingDeltas,
              z.RemoteMSToWaitForDelta = r.RemoteMSToWaitForDelta
       PROVE  /\ \A p \in z.PendingDeltas : p[2] <= c
              /\ Cardinality(Heard(c, z, X)) \in Nat
              /\ Cardinality(Heard(c, a, X)) <= Cardinality(Heard(c, z, X))
              /\ d = c /\ msg.waitForIt =>
                   Cardinality(Heard(c, a, X)) + 1 <= Cardinality(Heard(c, z, X))
  <2>1. \A p \in z.PendingDeltas : p[2] <= c
    BY <1>5, <1>6, <1>7, <1>10 DEF CountInv
  <2>2. /\ z.PendingDeltas = a.PendingDeltas \cup {<<n, d>>}
        /\ a.RemoteMSToWaitForDelta \subseteq z.RemoteMSToWaitForDelta
        /\ msg.waitForIt => n \in z.RemoteMSToWaitForDelta
    BY <1>6, <1>10
  <2> QED BY <1>7, <2>1, <2>2, HeardWith
<1>11. CountInv(c, r, X)
  <2>1. Early(c, r) = Early(c, a)
    BY <1>6 DEF Early
  <2> QED BY <1>5, <1>6, <1>8, <1>10, <2>1 DEF CountInv
<1>12. CASE Goes(m, r, net)
  BY <1>6, <1>11, <1>12
<1>13. CASE IsDeferred(r) /\ msg.waitForIt /\ Goes(m, b, net)
  <2> DEFINE list == Append(a.ReceivedBeforeSync, d)
  <2>1. list \in Seq(Nat) /\ b = [r EXCEPT !.ReceivedBeforeSync = list]
    BY <1>4, <1>6, <1>8 DEF d
  <2> HIDE DEF b, list
  <2>2. /\ b \in MSRecord /\ b.State = a.State /\ b.Syncd = a.Syncd
        /\ b.GameCycle = a.GameCycle /\ b.DeltaSent = a.DeltaSent
        /\ b.PendingDeltas = r.PendingDeltas /\ b.NbReceived = a.NbReceived
        /\ b.RemoteMSToWaitForDelta = r.RemoteMSToWaitForDelta
        /\ b.NbExpected = r.NbExpected /\ b.ReceivedBeforeSync = list
    BY <1>6, <2>1 DEF MSRecord
  <2>3. /\ \A i \in DOMAIN b.ReceivedBeforeSync : b.ReceivedBeforeSync[i] <= c
        /\ Cardinality(Early(c, b)) \in Nat
        /\ Cardinality(Early(c, b)) <= Cardinality(Early(c, a)) + 1
        /\ d # c => Cardinality(Early(c, b)) = Cardinality(Early(c, a))
    BY <1>2, <1>4, <1>5, <1>7, <2>2, EarlyWith DEF CountInv, list, d
  <2>4. b.NbReceived + Cardinality(Early(c, b)) <= Cardinality(Heard(c, b, X))
    BY <1>5, <1>8, <1>10, <1>13, <2>2, <2>3 DEF CountInv
  <2>5. CountInv(c, b, X)
    BY <1>5, <1>10, <2>2, <2>3, <2>4 DEF CountInv
  <2> QED BY <1>13, <2>2, <2>5
<1>14. CASE ~IsDeferred(r) /\ CountsNow(r, msg) /\ Goes(m, e, net)
  <2> DEFINE k == a.NbReceived + 1
  <2>1. k \in Nat /\ e = [r EXCEPT !.NbReceived = k]
    BY <1>6, <1>8
  <2> HIDE DEF e, k
  <2>2. /\ e \in MSRecord /\ e.State = a.State /\ e.Syncd = a.Syncd
        /\ e.GameCycle = a.GameCycle /\ e.DeltaSent = a.DeltaSent
        /\ e.PendingDeltas = r.PendingDeltas /\ e.NbReceived = k
        /\ e.RemoteMSToWaitForDelta = r.RemoteMSToWaitForDelta
        /\ e.NbExpected = r.NbExpected /\ e.ReceivedBeforeSync = a.ReceivedBeforeSync
    BY <1>6, <2>1 DEF MSRecord
  <2>3. ~IsDeferred(a)
    BY <1>6, <1>14 DEF IsDeferred
  <2>4. /\ msg.waitForIt /\ d = c /\ a.Syncd
        /\ a.State = "ExpectingLocalTocks" \/ a.GameCycle = c - 1
    BY <1>4, <1>6, <1>7, <1>14, <2>3, CountsInCycle DEF a, c, d
  <2>5. Early(c, e) = Early(c, a)
    BY <2>2 DEF Early
  <2>6. e.NbReceived + Cardinality(Early(c, e)) <= Cardinality(Heard(c, e, X))
    <3>1. a.NbReceived + Cardinality(Early(c, a)) <= Cardinality(Heard(c, a, X))
      BY <1>5 DEF CountInv
    <3>2. /\ Cardinality(Heard(c, e, X)) \in Nat
          /\ Cardinality(Heard(c, a, X)) + 1 <= Cardinality(Heard(c, e, X))
      BY <1>10, <2>2, <2>4
    <3>3. e.NbReceived = a.NbReceived + 1
      BY <2>2 DEF k
    <3> QED BY <1>8, <2>5, <3>1, <3>2, <3>3
  <2>7. CountInv(c, e, X)
    BY <1>5, <1>10, <2>2, <2>4, <2>6 DEF CountInv
  <2> QED BY <1>14, <2>2, <2>7
<1> QED BY <1>1, <1>12, <1>13, <1>14

LEMMA MSReceiveActed ==
  ASSUME ShardInv, NEW X, DeltaInv(X), NEW m \in Hosts, MSReceive(m)
  PROVE  \E r, net : Acted(m, r, net, X)
<1>1. ASSUME NEW n \in Hosts \ {m},
             AddRemoteMS(n, m) \/ ReceiveDeltaFromRemoteMS(n, m) \/ RemoveRemoteMS(n, m)
      PROVE  \E r, net : Acted(m, r, net, X)
  BY <1>1, AddRemoteMSActed, ReceiveDeltaActed, RemoveRemoteMSActed
<1> QED BY <1>1, CbSyncFromMasterActed, MasterTickActed, ServiceHandlerActed DEF MSReceive

LEMMA ActedActs ==
  ASSUME ShardInv, NEW X, NEW m \in Hosts, NEW r, NEW net, Acted(m, r, net, X)
  PROVE  Acts(m, r, net)
<1>1. ms \in [Hosts -> MSRecord]
  BY OneOf
<1> QED BY <1>1, GoesActs DEF Acted

LEMMA MSReceiveDeltas ==
  ASSUME ShardInv, NEW X, DeltaInv(X), NEW m \in Hosts, MSReceive(m) PROVE DeltaInv(X)'
<1>1. PICK r, net : Acted(m, r, net, X)
  BY MSReceiveActed
<1>2. Acts(m, r, net)
  BY <1>1, ActedActs
<1> QED BY <1>1, <1>2, ActsKeepDeltas DEF Acted

--------------------------------------------------------------------------------
\* TICKS: a step leaves at the same cycle no more mirror services that are to send, ...
LEMMA ChecksQuiet ==
  ASSUME ShardInv, GameCycle < MaxCycle, NEW infos, NEW mode, NEW out,
         CheckTockReceived(infos, mode, Pause, out)
  PROVE  GameCycle' = GameCycle + 1 \/ (GameCycle' = GameCycle /\ ClientInfos' = infos)
<1>1. GameCycle \in Nat /\ Pause = FALSE
  BY DEF ShardInv, MasterInv, Control
<1>2. (GameCycle + 1) % CycleMod = GameCycle + 1
  BY <1>1, SmallMod, MaxCycleAssumption, CycleModAssumption
<1> QED BY <1>1, <1>2 DEF CheckTockReceived, BroadcastTick

\* ... as no handler makes a client owe a TOCK but by a tick.
OweLess(infos, ins) ==
  \A n \in Hosts : infos[n].Registered /\ ~infos[n].TockReceived /\ ins[n] = <<>> =>
    ClientInfos[n].Registered /\ ~ClientInfos[n].TockReceived /\ toTicks[n] = <<>>

LEMMA TicksQuiet ==
  ASSUME ShardInv, NEW h \in Hosts, TicksStep(h)
  PROVE  GameCycle' = GameCycle + 1 \/ (GameCycle' = GameCycle /\ OweLess(ClientInfos', toTicks'))
<1>1. /\ GameCycle < MaxCycle /\ ClientInfos \in [Hosts -> CClientInfos]
      /\ toTicks \in [Hosts -> Seq(FromHosts)] /\ Slot(ClientInfos[h])
  BY DEF TicksStep, ShardInv, MasterInv, Types, TicksTypes, Control
<1>2. SUFFICES ASSUME GameCycle' # GameCycle + 1
               PROVE  GameCycle' = GameCycle /\ OweLess(ClientInfos', toTicks')
  OBVIOUS
<1>3. ASSUME NEW infos \in [Hosts -> CClientInfos],
             \A n \in Hosts \ {h} : infos[n] = ClientInfos[n] /\ toTicks'[n] = toTicks[n],
             infos[h].Registered => infos[h].TockReceived
      PROVE  OweLess(infos, toTicks')
  BY <1>3 DEF OweLess
<1>4. CASE CbRegister(h)
  <2> DEFINE infos == RegisterClient(h, Head(toTicks[h]))
             msg == Head(toTicks[h])
  <2>1. /\ HasMessage(h, "REGISTER") /\ Consume(h) /\ ~ClientInfos[h].Registered
        /\ GameCycle' = GameCycle /\ ClientInfos' = infos
    BY <1>1, <1>2, <1>4, ChecksQuiet DEF CbRegister
  <2>2. /\ toTicks'[h] = Tail(toTicks[h]) /\ \A n \in Hosts \ {h} : toTicks'[n] = toTicks[n]
    BY <1>1, <2>1 DEF Consume
  <2>3. ClientInfos[h].TockReceived
    BY <1>1, <2>1 DEF Slot, NoClient
  <2>4. infos[h].TockReceived /\ \A n \in Hosts \ {h} : infos[n] = ClientInfos[n]
    BY <1>1, <2>3 DEF RegisterClient, CClientInfos
  <2> HIDE DEF infos
  <2>5. OweLess(infos, toTicks')
    BY <2>2, <2>4 DEF OweLess
  <2> QED BY <2>1, <2>5
<1>5. CASE CbTock(h)
  <2>1. /\ Consume(h) /\ GameCycle' = GameCycle /\ ClientInfos' = AddTock(h)
    BY <1>1, <1>2, <1>5, ChecksQuiet DEF CbTock
  <2>2. \A n \in Hosts \ {h} : toTicks'[n] = toTicks[n]
    BY <1>1, <2>1 DEF Consume
  <2>3. /\ AddTock(h)[h].Registered => AddTock(h)[h].TockReceived
        /\ \A n \in Hosts \ {h} : AddTock(h)[n] = ClientInfos[n]
    BY <1>1 DEF AddTock, CClientInfos
  <2>4. OweLess(AddTock(h), toTicks')
    BY <2>2, <2>3 DEF OweLess
  <2> QED BY <2>1, <2>4
<1>6. CASE CbClientDisconnection(h)
  <2>1. /\ Consume(h) /\ GameCycle' = GameCycle /\ ClientInfos' = UnregisterClient(h)
    BY <1>1, <1>2, <1>6, ChecksQuiet DEF CbClientDisconnection
  <2>2. \A n \in Hosts \ {h} : toTicks'[n] = toTicks[n]
    BY <1>1, <2>1 DEF Consume
  <2>3. /\ ~UnregisterClient(h)[h].Registered
        /\ \A n \in Hosts \ {h} : UnregisterClient(h)[n] = ClientInfos[n]
    BY <1>1 DEF UnregisterClient, NoClient
  <2>4. OweLess(UnregisterClient(h), toTicks')
    BY <2>2, <2>3 DEF OweLess
  <2> QED BY <2>1, <2>4
<1> QED BY <1>4, <1>5, <1>6 DEF TicksStep

LEMMA OperatorQuiet ==
  ASSUME ShardInv, TicksOperator
  PROVE  GameCycle' = GameCycle + 1 \/ (GameCycle' = GameCycle /\ OweLess(ClientInfos', toTicks'))
<1>1. CASE HaltTick
  BY <1>1 DEF HaltTick, OweLess
<1>2. CASE ResumeTick
  BY <1>2, ChecksQuiet DEF TicksOperator, ResumeTick, OweLess
<1> QED BY <1>1, <1>2 DEF TicksOperator

\* A tick leaves when every mirror service has counted what it had to.
LEMMA LinkSyncd ==
  ASSUME NEW m, NEW r, NEW cycle, NEW c, NEW i, NEW o, Link(m, r, cycle, c, i, o), r.Syncd
  PROVE  \/ r.State = "ExpectingLocalTocks" /\ r.GameCycle = cycle
         \/ r.State = "ExpectingMasterTick" /\ r.GameCycle \in {cycle, cycle - 1}
<1>1. Opened(r, cycle, c, i, o)
  BY DEF Link, NewMS
<1> QED BY <1>1 DEF Opened

LEMMA TickCounts ==
  ASSUME ShardInv, ShardInv', NEW X, NEW k \in Hosts, UNCHANGED <<ms, msUp, msLinked>>,
         GameCycle' = GameCycle + 1, CountInv(GameCycle, ms[k], X)
  PROVE  ms[k].NbReceived = 0 /\ CountInv(GameCycle + 1, ms[k], X)
<1> DEFINE a == ms[k]
           c == GameCycle
<1>1. c \in Nat /\ a \in MSRecord /\ a.NbReceived \in Nat /\ a.GameCycle \in Nat
  <2>1. c \in Nat
    BY DEF ShardInv, MasterInv, Control
  <2> QED BY <2>1, OneOf DEF MSRecord
<1>2. Link(k, a, c, ClientInfos[k], toTicks[k], toHost[k])
  BY OneOf
<1>3. Link(k, a, c + 1, ClientInfos'[k], toTicks'[k], toHost'[k])
  <2>1. Link(k, ms[k], GameCycle, ClientInfos[k], toTicks[k], toHost[k])'
    BY DEF ShardInv, MasterInv, MasterLinks
  <2> QED BY <2>1 DEF Link
<1>4. a.NbReceived = 0
  <2> SUFFICES ASSUME a.NbReceived > 0 PROVE FALSE
    BY <1>1
  <2>1. a.Syncd /\ (a.State = "ExpectingLocalTocks" \/ a.GameCycle = c - 1)
    BY DEF CountInv
  <2> HIDE DEF a, c
  <2>2. \/ a.State = "ExpectingLocalTocks" /\ a.GameCycle = c
        \/ a.State = "ExpectingMasterTick" /\ a.GameCycle \in {c, c - 1}
    BY <1>2, <2>1, LinkSyncd
  <2>3. \/ a.State = "ExpectingLocalTocks" /\ a.GameCycle = c + 1
        \/ a.State = "ExpectingMasterTick" /\ a.GameCycle \in {c + 1, (c + 1) - 1}
    BY <1>3, <2>1, LinkSyncd
  <2> QED BY <1>1, <2>1, <2>2, <2>3
<1>5. /\ \A p \in a.PendingDeltas : p[2] \in Nat /\ p[2] <= c
      /\ \A i \in DOMAIN a.ReceivedBeforeSync :
           a.ReceivedBeforeSync[i] \in Nat /\ a.ReceivedBeforeSync[i] <= c
  BY <1>1 DEF CountInv, MSRecord
<1> HIDE DEF a, c
<1>6. /\ \A p \in a.PendingDeltas : p[2] <= c + 1 /\ p[2] # c + 1
      /\ \A i \in DOMAIN a.ReceivedBeforeSync :
           a.ReceivedBeforeSync[i] <= c + 1 /\ a.ReceivedBeforeSync[i] # c + 1
  BY <1>1, <1>5
<1>7. Early(c + 1, a) = {} /\ Heard(c + 1, a, X) = {}
  BY <1>6 DEF Early, Heard
<1>8. a.NbReceived + Cardinality(Early(c + 1, a)) <= Cardinality(Heard(c + 1, a, X))
  <2>1. Cardinality({}) = 0
    BY FS_EmptySet
  <2> QED BY <1>4, <1>7, <2>1
<1>9. ~(a.NbReceived > 0)
  BY <1>4
<1>10. CountInv(c + 1, a, X)
  BY <1>6, <1>8, <1>9 DEF CountInv
<1> QED BY <1>4, <1>10 DEF a, c

LEMMA TicksDeltas ==
  ASSUME ShardInv, ShardInv', NEW X, DeltaInv(X), UNCHANGED <<msVars, msNet>>,
         GameCycle' = GameCycle + 1 \/ (GameCycle' = GameCycle /\ OweLess(ClientInfos', toTicks'))
  PROVE  DeltaInv(X)'
<1> DEFINE c == GameCycle
           Y == YetToSend(ms)
           Z == YetToSend(ms)'
<1>1. UNCHANGED <<ms, msUp, msLinked, peer>> /\ c \in Nat
  BY DEF msVars, msNet, ShardInv, MasterInv, Control
<1>2. CASE GameCycle' = c /\ OweLess(ClientInfos', toTicks')
  <2>1. Z \subseteq Y
    <3>1. msLinked \subseteq Hosts
      BY DEF ShardInv, MasterInv, Types, MSTypes
    <3> QED BY <1>1, <1>2, <3>1 DEF OweLess, YetToSend
  <2>2. DeltasAre(c, Z, ms, peer, X)
    BY <2>1, DeltasLess DEF DeltaInv
  <2> QED BY <1>1, <1>2, <2>2 DEF DeltaInv
<1>3. CASE GameCycle' = c + 1
  <2>1. ASSUME NEW n \in Hosts, NEW k \in Hosts
        PROVE  PairInv(c + 1, Z, n, ms[k], peer[<<n, k>>], X)
    <3> DEFINE q == peer[<<n, k>>]
               a == ms[k]
    <3>1. PairInv(c, Y, n, a, q, X) /\ CountInv(c, a, X)
      BY DEF DeltaInv, DeltasAre
    <3>2. q \in Seq(Between) /\ a \in MSRecord
      BY OneOf DEF Pairs
    <3>3. \A i \in 1 .. Len(q) : q[i].type = "DELTA" => q[i].cycle \in Nat
      <4> SUFFICES ASSUME NEW i \in 1 .. Len(q), q[i].type = "DELTA" PROVE q[i].cycle \in Nat
        OBVIOUS
      <4>1. q[i] \in Between
        BY <3>2
      <4> HIDE DEF q
      <4> QED BY <4>1 DEF Between, Up, Down
    <3>4. <<n, c + 1>> \notin a.PendingDeltas
      <4>1. \A p \in a.PendingDeltas : p[2] <= c
        BY <3>1 DEF CountInv
      <4> HIDE DEF a
      <4>2. <<n, c + 1>>[2] = c + 1 /\ ~(c + 1 <= c)
        BY <1>1
      <4> QED BY <4>1, <4>2
    <3> HIDE DEF q, a, c, Z
    <3>5. DeltasUpTo(q, c + 1) /\ ~DeltaOf(q, c + 1) /\ OneDelta(q, c + 1)
      BY <1>1, <3>1, <3>3 DEF PairInv, DeltasUpTo, DeltaOf, OneDelta
    <3> QED BY <3>1, <3>4, <3>5 DEF PairInv, q, a
  <2>2. ASSUME NEW k \in Hosts PROVE CountInv(c + 1, ms[k], X)
    BY <1>1, <1>3, TickCounts DEF DeltaInv, DeltasAre
  <2>3. DeltasAre(c + 1, Z, ms, peer, X)
    BY <2>1, <2>2 DEF DeltasAre
  <2> QED BY <1>1, <1>3, <2>3 DEF DeltaInv
<1> QED BY <1>2, <1>3

\* Only these variables are read.
LEMMA SameYet ==
  ASSUME ShardInv, NEW X, DeltaInv(X), UNCHANGED <<GameCycle, ClientInfos, ms, peer>>,
         \A n \in Hosts : n \in msLinked' /\ toTicks'[n] = <<>> => n \in msLinked /\ toTicks[n] = <<>>,
         msLinked' \subseteq Hosts
  PROVE  DeltaInv(X)'
<1> DEFINE Y == YetToSend(ms)
           Z == YetToSend(ms)'
<1>1. Z \subseteq Y
  BY DEF YetToSend
<1> HIDE DEF Y, Z
<1>2. DeltasAre(GameCycle, Z, ms, peer, X)
  BY <1>1, DeltasLess DEF DeltaInv, Y
<1> QED BY <1>2 DEF DeltaInv, Z

LEMMA CbTPTicksUpDeltas ==
  ASSUME ShardInv, NEW X, DeltaInv(X), NEW m \in Hosts, CbTPTicksUp(m) PROVE DeltaInv(X)'
<1>1. /\ toTicks' = [toTicks EXCEPT ![m] = Append(@, Register(TRUE, 0))]
      /\ msLinked' = msLinked \cup {m} /\ UNCHANGED <<GameCycle, ClientInfos, ms, peer>>
  BY DEF CbTPTicksUp, ticksState, msNet
<1>2. /\ toTicks \in [Hosts -> Seq(FromHosts)] /\ msLinked \subseteq Hosts
      /\ Register(TRUE, 0) \in FromHosts
  BY DEF ShardInv, MasterInv, Types, TicksTypes, MSTypes, FromHosts
<1>3. Append(toTicks[m], Register(TRUE, 0)) # <<>>
  BY <1>2, Sent
<1>4. toTicks'[m] # <<>> /\ \A n \in Hosts \ {m} : toTicks'[n] = toTicks[n]
  BY <1>1, <1>2, <1>3
<1>5. \A n \in Hosts : n \in msLinked' /\ toTicks'[n] = <<>> =>
                         n \in msLinked /\ toTicks[n] = <<>>
  BY <1>1, <1>4
<1>6. msLinked' \subseteq Hosts
  BY <1>1, <1>2
<1> QED BY <1>1, <1>5, <1>6, SameYet

LEMMA MSStartDeltas ==
  ASSUME ShardInv, NEW X, DeltaInv(X), NEW m \in Hosts, MSStart(m) PROVE DeltaInv(X)'
<1> DEFINE c == GameCycle
           Y == YetToSend(ms)
<1>1. /\ UNCHANGED <<GameCycle, ClientInfos, ms, msLinked, toTicks>>
      /\ \A p \in Pairs : peer'[p] = peer[p] \/ peer'[p] = Append(peer[p], Up)
  BY DEF MSStart, ticksState
<1>2. YetToSend(ms)' = Y
  BY <1>1 DEF YetToSend
<1>3. Up \in Between /\ Up.type = "UP"
  BY MessageTypes DEF Between
<1>4. ASSUME NEW n \in Hosts, NEW k \in Hosts
      PROVE  PairInv(c, Y, n, ms[k], peer'[<<n, k>>], X)
  <2> DEFINE q == peer[<<n, k>>]
             v == peer'[<<n, k>>]
  <2>1. /\ PairInv(c, Y, n, ms[k], q, X) /\ (v = q \/ v = Append(q, Up)) /\ q \in Seq(Between)
    BY <1>1, OneOf DEF DeltaInv, DeltasAre, Pairs
  <2> HIDE DEF q, v, c, Y
  <2>2. CASE v = q
    BY <2>1, <2>2 DEF v
  <2>3. CASE v = Append(q, Up)
    <3>1. /\ DeltaOf(v, c) <=> DeltaOf(q, c)
          /\ OneDelta(q, c) => OneDelta(v, c)
          /\ DeltasUpTo(q, c) => DeltasUpTo(v, c)
      BY <1>3, <2>1, <2>3, DeltaAppended
    <3>2. Has(v, "DOWN") => Has(q, "DOWN")
      BY <1>3, <2>1, <2>3, Sent
    <3> QED BY <2>1, <3>1, <3>2 DEF PairInv, v
  <2> QED BY <2>1, <2>2, <2>3
<1>5. \A k \in Hosts : CountInv(c, ms[k], X)
  BY DEF DeltaInv, DeltasAre
<1>6. DeltasAre(c, Y, ms, peer', X)
  BY <1>4, <1>5 DEF DeltasAre
<1> QED BY <1>1, <1>2, <1>6 DEF DeltaInv

\* A mirror service that is lost may leave deltas that no one else has sent.
LEMMA MSCrashDeltas ==
  ASSUME ShardInv, DeltaInv(Hosts), NEW m \in Hosts, NEW kept \in Nat, MSCrash(m, kept)
  PROVE  DeltaInv(Hosts)'
<1> DEFINE c == GameCycle
           Y == YetToSend(ms)
           Z == YetToSend(ms)'
<1>1. /\ UNCHANGED <<GameCycle, ClientInfos>> /\ msLinked' = msLinked \ {m}
      /\ toTicks' = IF m \in msLinked THEN [toTicks EXCEPT ![m] = Cut(@, kept)] ELSE toTicks
      /\ ms' = [ms EXCEPT ![m] = NewMS]
      /\ peer' = [p \in Pairs |->
                    IF p[1] = m /\ p[2] \in msUp \ {m} THEN Cut(peer[p], kept)
                    ELSE IF p[2] = m THEN <<>> ELSE peer[p]]
  BY DEF MSCrash, ticksState
<1>2. /\ toTicks \in [Hosts -> Seq(FromHosts)] /\ msLinked \subseteq Hosts
      /\ ms \in [Hosts -> MSRecord] /\ c \in Nat
  BY DEF ShardInv, MasterInv, Types, TicksTypes, MSTypes, Control
<1>3. /\ ms'[m] = NewMS
      /\ \A h \in Hosts \ {m} : ms'[h] = ms[h] /\ toTicks'[h] = toTicks[h]
  BY <1>1, <1>2
<1>4. Z \subseteq Y /\ m \notin Z
  BY <1>1, <1>2, <1>3 DEF YetToSend
<1>5. ASSUME NEW n \in Hosts, NEW k \in Hosts
      PROVE  PairInv(c, Z, n, ms'[k], peer'[<<n, k>>], Hosts)
  <2> DEFINE q == peer[<<n, k>>]
             v == peer'[<<n, k>>]
  <2>1. /\ PairInv(c, Y, n, ms[k], q, Hosts) /\ q \in Seq(Between)
        /\ v = IF n = m /\ k \in msUp \ {m} THEN Cut(q, kept) ELSE IF k = m THEN <<>> ELSE q
    BY <1>1, OneOf DEF DeltaInv, DeltasAre, Pairs
  <2> HIDE DEF q, v, c, Y, Z
  <2>2. CASE k = m
    <3>1. v = <<>>
      BY <2>1, <2>2
    <3>2. NewMS.PendingDeltas = {}
      BY DEF NewMS
    <3> QED BY <1>3, <2>2, <3>1, <3>2, NoDeltas DEF PairInv, v
  <2>3. CASE k # m
    <3>1. Down \in Between
      BY DEF Between
    <3>2. /\ DeltaOf(v, c) => DeltaOf(q, c)
          /\ OneDelta(q, c) => OneDelta(v, c)
          /\ DeltasUpTo(q, c) => DeltasUpTo(v, c)
      <4>1. v = q \/ v = Cut(q, kept)
        BY <2>1, <2>3
      <4> QED BY <2>1, <3>1, <4>1, DeltaCut
    <3> QED BY <1>3, <1>4, <2>1, <2>3, <3>2 DEF PairInv, v
  <2> QED BY <2>2, <2>3
<1>6. ASSUME NEW k \in Hosts PROVE CountInv(c, ms'[k], Hosts)
  <2>1. CASE k = m
    <3>1. /\ NewMS.PendingDeltas = {} /\ NewMS.ReceivedBeforeSync = <<>> /\ NewMS.NbReceived = 0
      BY DEF NewMS
    <3>2. Early(c, NewMS) = {} /\ Heard(c, NewMS, Hosts) = {}
      BY <3>1 DEF Early, Heard
    <3>3. Cardinality({}) = 0
      BY FS_EmptySet
    <3>4. NewMS.NbReceived + Cardinality(Early(c, NewMS)) <= Cardinality(Heard(c, NewMS, Hosts))
      BY <3>1, <3>2, <3>3
    <3>5. CountInv(c, NewMS, Hosts)
      BY <3>1, <3>4 DEF CountInv
    <3> QED BY <1>3, <2>1, <3>5
  <2>2. CASE k # m
    BY <1>3, <2>2 DEF DeltaInv, DeltasAre
  <2> QED BY <2>1, <2>2
<1>7. DeltasAre(c, Z, ms', peer', Hosts)
  BY <1>5, <1>6 DEF DeltasAre
<1> QED BY <1>1, <1>7 DEF DeltaInv

LEMMA StepDeltas ==
  ASSUME ShardInv, ShardInv', NEW X, DeltaInv(X),
         [ShardNextNoMSCrash]_shardVars \/ (X = Hosts /\ ShardNext)
  PROVE  DeltaInv(X)'
<1>1. ASSUME NEW m \in Hosts, TicksStep(m) PROVE DeltaInv(X)'
  BY <1>1, TicksQuiet, TicksDeltas DEF TicksStep
<1>2. CASE TicksOperator
  BY <1>2, OperatorQuiet, TicksDeltas DEF TicksOperator
<1>3. ASSUME NEW m \in Hosts, MSReceive(m) \/ MSConnects(m) \/ MSStarts(m) PROVE DeltaInv(X)'
  BY <1>3, MSReceiveDeltas, CbTPTicksUpDeltas, MSStartDeltas DEF MSConnects, MSStarts
<1>4. ASSUME UNCHANGED <<GameCycle, ClientInfos, ms, msLinked, peer, toTicks>>
      PROVE  DeltaInv(X)'
  <2>1. msLinked \subseteq Hosts
    BY DEF ShardInv, MasterInv, Types, MSTypes
  <2> QED BY <1>4, <2>1, SameYet
<1>5. ASSUME NEW s \in Services,
             SvcReceive(s) \/ SvcStart(s) \/ CbTicksUp(s) \/ DoInitMirrorLevel1(s)
      PROVE  DeltaInv(X)'
  <2>1. UNCHANGED svcElse
    BY <1>5 DEF SvcReceive, CbRegistered, TickUpdate, CbTicksDown, ReceiveTracker, SvcStart,
                CbTicksUp, DoInitMirrorLevel1
  <2>2. UNCHANGED <<GameCycle, ClientInfos, ms, msLinked, peer, toTicks>>
    BY <2>1 DEF svcElse, ticksVars, msVars
  <2> QED BY <1>4, <2>2
<1>6. ASSUME NEW s \in Services, NEW kept \in 0 .. 2, SvcCrash(s, kept) PROVE DeltaInv(X)'
  <2>1. UNCHANGED <<GameCycle, ClientInfos, ms, msLinked, peer, toTicks>>
    BY <1>6 DEF SvcCrash, ticksVars, msVars
  <2> QED BY <1>4, <2>1
<1>7. CASE [ShardNextNoMSCrash]_shardVars
  <2>1. CASE UNCHANGED shardVars
    BY <1>4, <2>1 DEF shardVars, ticksVars, msVars, msNet
  <2>2. CASE ShardNextNoMSCrash
    BY <1>1, <1>2, <1>3, <1>5, <1>6, <2>2 DEF ShardNextNoMSCrash
  <2> QED BY <1>7, <2>1, <2>2
<1>8. CASE X = Hosts /\ ShardNext
  <2>1. ASSUME NEW m \in Hosts, SentToNobody(m) PROVE DeltaInv(X)'
    BY <1>4, <2>1 DEF SentToNobody, LoseSent, msVars, msNet
  <2>2. ASSUME NEW m \in Hosts, NEW kept \in 0 .. 2, MSCrashes(m, kept) PROVE DeltaInv(X)'
    <3>1. kept \in Nat /\ MSCrash(m, kept)
      BY <2>2 DEF MSCrashes
    <3> QED BY <1>8, <3>1, MSCrashDeltas
  <2> QED BY <1>7, <1>8, <2>1, <2>2 DEF ShardNext
<1> QED BY <1>7, <1>8

LEMMA InitDeltas == ASSUME ShardInit, NEW X PROVE DeltaInv(X)
<1>1. /\ GameCycle = 0 /\ ms = [m \in Hosts |-> NewMS] /\ msLinked = {}
      /\ peer = [p \in Pairs |-> <<>>]
  BY DEF ShardInit, Start, MSInit
<1>2. YetToSend(ms) = {}
  BY <1>1 DEF YetToSend
<1>3. NewMS.PendingDeltas = {} /\ NewMS.ReceivedBeforeSync = <<>> /\ NewMS.NbReceived = 0
  BY DEF NewMS
<1>4. CountInv(0, NewMS, X)
  <2>1. Early(0, NewMS) = {} /\ Heard(0, NewMS, X) = {}
    BY <1>3 DEF Early, Heard
  <2>2. Cardinality({}) = 0
    BY FS_EmptySet
  <2>3. NewMS.NbReceived + Cardinality(Early(0, NewMS)) <= Cardinality(Heard(0, NewMS, X))
    BY <1>3, <2>1, <2>2
  <2> QED BY <1>3, <2>3 DEF CountInv
<1>5. \A n \in Hosts : PairInv(0, {}, n, NewMS, <<>>, X)
  BY <1>3, NoDeltas, EmptyQueue DEF PairInv
<1>6. \A n, k \in Hosts : peer[<<n, k>>] = <<>>
  BY <1>1 DEF Pairs
<1>7. DeltasAre(0, {}, ms, peer, X)
  BY <1>1, <1>4, <1>5, <1>6 DEF DeltasAre
<1> QED BY <1>1, <1>2, <1>7 DEF DeltaInv

LEMMA DeltasAlways == ShardSpec => []DeltaInv(Hosts)
<1>1. ShardInit => DeltaInv(Hosts)
  BY InitDeltas
<1>2. ShardInv /\ ShardInv' /\ DeltaInv(Hosts) /\ [ShardNext]_shardVars => DeltaInv(Hosts)'
  <2>1. [ShardNext]_shardVars => ShardNext \/ [ShardNextNoMSCrash]_shardVars
    OBVIOUS
  <2> QED BY <2>1, StepDeltas
<1> QED BY <1>1, <1>2, ShardAlways, PTL DEF ShardSpec

\* nlasserts of receiveDeltaFromRemoteMS(): a delta never comes more than one tick early,
\* whichever mirror services come, crash and come back.
THEOREM DeltasInTime == ShardSpec => []DeltaNotTooEarly
<1>1. ShardInv /\ DeltaInv(Hosts) => DeltaNotTooEarly
  <2> SUFFICES ASSUME ShardInv, DeltaInv(Hosts), NEW m \in Hosts, NEW n \in Hosts,
                      PeerHas(n, m, "DELTA"), ~IsDeferred(ms[m])
               PROVE  Head(peer[<<n, m>>]).cycle <=
                        ms[m].GameCycle + (IF ms[m].State = "ExpectingMasterTick" THEN 1 ELSE 0)
    BY DEF DeltaNotTooEarly
  <2> DEFINE a == ms[m]
             q == peer[<<n, m>>]
             d == Head(q).cycle
             c == GameCycle
  <2>1. /\ a \in MSRecord /\ Sound(m, a) /\ q \in Seq(Between)
        /\ Link(m, a, c, ClientInfos[m], toTicks[m], toHost[m])
    BY OneOf DEF Pairs
  <2>2. c \in Nat /\ a.GameCycle \in Nat
    BY <2>1 DEF ShardInv, MasterInv, Control, MSRecord
  <2>3. q # <<>> /\ Head(q).type = "DELTA" /\ DeltasUpTo(q, c)
    BY DEF PeerHas, DeltaInv, DeltasAre, PairInv
  <2>4. Head(q) \in Between
    BY <2>1, <2>3, Read
  <2>5. a.Syncd
    BY <2>1 DEF Sound, IsDeferred, MSRecord
  <2> HIDE DEF a, q, c
  <2>6. d \in Nat
    BY <2>3, <2>4 DEF Between, Up, Down
  <2>7. d <= c
    BY <2>1, <2>3, DeltaRead
  <2> HIDE DEF d
  <2>8. \/ a.State = "ExpectingLocalTocks" /\ a.GameCycle = c
        \/ a.State = "ExpectingMasterTick" /\ a.GameCycle \in {c, c - 1}
    BY <2>1, <2>5, LinkSyncd
  <2>9. d <= a.GameCycle + (IF a.State = "ExpectingMasterTick" THEN 1 ELSE 0)
    BY <2>2, <2>6, <2>7, <2>8
  <2> QED BY <2>9 DEF a, d, q
<1> QED BY <1>1, ShardAlways, DeltasAlways, PTL

LEMMA CyclesAlways == ShardSpec => []CycleInv
<1>1. ShardInit => CycleInv
  <2> SUFFICES ASSUME ShardInit, NEW s \in Services
               PROVE  svcCycle[s] <= GameCycle /\ InTime(s, toSvc[s])
    BY DEF CycleInv
  <2>1. GameCycle = 0 /\ svcCycle[s] = 0 /\ toSvc[s] = <<>>
    BY DEF ShardInit, Start, MSInit
  <2> QED BY <2>1, EmptyQueue, NoSyncUpTo DEF InTime
<1>2. ShardInv /\ ShardInv' /\ CycleInv /\ [ShardNext]_shardVars => CycleInv'
  BY StepCycles
<1> QED BY <1>1, <1>2, ShardAlways, PTL DEF ShardSpec

\* Type correctness: no clock of the shard runs ahead of the master's, a mirror service
\* counts no more tocks than it has services, nor deltas than there are mirror services.
THEOREM ShardTypes == ShardSpec => []TypeOK
<1>1. ShardInv /\ CycleInv /\ DeltaInv(Hosts) => TypeOK
  <2> SUFFICES ASSUME ShardInv, CycleInv, DeltaInv(Hosts) PROVE TypeOK
    OBVIOUS
  <2>1. GameCycle \in 0 .. MaxCycle /\ MaxCycle \in Nat /\ GameCycle \in Nat
    BY MaxCycleAssumption DEF ShardInv, MasterInv, Control
  <2>2. msUp \subseteq Hosts /\ msLinked \subseteq msUp
    BY DEF ShardInv, MasterInv, Types, MSTypes, MasterLinks, Link
  <2>3. /\ svcUp \subseteq Services /\ svcLinked \subseteq Services /\ svcSynced \subseteq Services
    BY DEF ShardInv, MasterInv, Types, ServiceTypes
  <2>4. svcLinked \subseteq svcUp /\ svcSynced \subseteq svcUp
    BY <2>3, ServiceAt DEF Links, InLink, OutLink
  <2>5. \A s \in Services : svcCycle[s] \in 0 .. MaxCycle + 1
    BY <2>1, CycleOf DEF CycleInv
  <2>6. GameCycle \in 0 .. MaxCycle + 1
    BY <2>1
  <2>7. ASSUME NEW m \in Hosts
        PROVE  /\ ms[m].Services \cup ms[m].TockedServices \subseteq Local(m)
               /\ ms[m].NbTocked \in 0 .. Cardinality(ms[m].Services)
               /\ ms[m].GameCycle \in 0 .. MaxCycle + 1
               /\ ms[m].RemoteMSList \cup ms[m].RemoteMSToWaitForDelta \subseteq Hosts \ {m}
               /\ ms[m].NbExpected = Cardinality(ms[m].RemoteMSToWaitForDelta)
               /\ ms[m].NbReceived \in 0 .. Cardinality(Hosts)
               /\ ms[m].ClientServices \subseteq Local(m)
               /\ ms[m].NbExpectedATAcknowledges \in [Services -> Nat]
    <3> DEFINE a == ms[m]
               h == Heard(GameCycle, a, Hosts)
               e == Early(GameCycle, a)
    <3>1. /\ a \in MSRecord /\ Sound(m, a)
          /\ Link(m, a, GameCycle, ClientInfos[m], toTicks[m], toHost[m])
      BY OneOf
    <3>2. CountInv(GameCycle, a, Hosts)
      BY DEF DeltaInv, DeltasAre
    <3> HIDE DEF a
    <3>3. /\ a.NbReceived \in Nat /\ a.GameCycle \in Nat /\ a.ReceivedBeforeSync \in Seq(Nat)
          /\ a.NbExpectedATAcknowledges \in [Services -> Nat]
      BY <3>1 DEF MSRecord
    <3>4. a.NbReceived \in 0 .. Cardinality(Hosts)
      <4>1. h \subseteq Hosts
        BY DEF Heard
      <4>2. /\ Cardinality(h) \in Nat /\ Cardinality(h) <= Cardinality(Hosts)
            /\ Cardinality(Hosts) \in Nat
        BY <4>1, HostsAssumption, FS_Subset, FS_CardinalityType
      <4>3. e \in SUBSET (1 .. Len(a.ReceivedBeforeSync)) /\ Len(a.ReceivedBeforeSync) \in Nat
        BY <3>3 DEF Early
      <4>4. Cardinality(e) \in Nat
        <5>1. IsFiniteSet(1 .. Len(a.ReceivedBeforeSync))
          BY <4>3, FS_Interval
        <5> QED BY <4>3, <5>1, FS_Subset, FS_CardinalityType
      <4>5. a.NbReceived + Cardinality(e) <= Cardinality(h)
        BY <3>2 DEF CountInv
      <4> HIDE DEF e, h
      <4> QED BY <3>3, <4>2, <4>4, <4>5
    <3>5. a.NbTocked \in 0 .. Cardinality(a.Services)
      <4>1. IsFiniteSet(a.Services) /\ a.NbTocked = Cardinality(a.TockedServices \cap a.Services)
        BY <3>1 DEF Sound
      <4>2. /\ Cardinality(a.TockedServices \cap a.Services) \in Nat
            /\ Cardinality(a.Services) \in Nat
            /\ Cardinality(a.TockedServices \cap a.Services) <= Cardinality(a.Services)
        BY <4>1, FS_Subset, FS_CardinalityType
      <4> QED BY <4>1, <4>2
    <3>6. a.GameCycle \in 0 .. MaxCycle + 1
      <4>1. CASE a.Syncd
        <5>1. a.GameCycle \in {GameCycle, GameCycle - 1}
          BY <3>1, <4>1, LinkSyncd
        <5> QED BY <2>1, <3>3, <5>1
      <4>2. CASE ~a.Syncd
        <5>1. a.GameCycle = 0
          BY <3>1, <4>2 DEF Sound
        <5> QED BY <2>1, <5>1
      <4> QED BY <4>1, <4>2
    <3> QED BY <3>1, <3>3, <3>4, <3>5, <3>6 DEF Sound, a
  <2> QED BY <2>2, <2>3, <2>4, <2>5, <2>6, <2>7 DEF TypeOK
<1> QED BY <1>1, ShardAlways, CyclesAlways, DeltasAlways, PTL

--------------------------------------------------------------------------------
\* The end of a tick.
LEMMA EndHears ==
  ASSUME NEW m \in Hosts, NEW r, NEW net, NEW z, NEW c \in Nat,
         r \in MSRecord, EndsTick(r, z), CountInv(c, r, {}), 
         IsFiniteSet(r.RemoteMSToWaitForDelta),
         r.NbExpected = Cardinality(r.RemoteMSToWaitForDelta)
  PROVE  \A n \in z.RemoteMSToWaitForDelta : n \in Hosts /\ <<n, c>> \in r.PendingDeltas
<1> DEFINE h == Heard(c, r, {})
           e == Early(c, r)
           w == r.RemoteMSToWaitForDelta
<1>1. /\ r.NbReceived = Cardinality(w) /\ z.RemoteMSToWaitForDelta = w
      /\ r.NbReceived + Cardinality(e) <= Cardinality(h) /\ r.ReceivedBeforeSync \in Seq(Nat)
  BY DEF EndsTick, CountInv, MSRecord
<1>2. h \subseteq w /\ IsFiniteSet(w)
  BY DEF Heard
<1>3. Cardinality(h) \in Nat /\ Cardinality(w) \in Nat /\ Cardinality(h) <= Cardinality(w)
  BY <1>2, FS_Subset, FS_CardinalityType
<1>4. Cardinality(e) \in Nat
  <2>1. e \in SUBSET (1 .. Len(r.ReceivedBeforeSync)) /\ Len(r.ReceivedBeforeSync) \in Nat
    BY <1>1 DEF Early
  <2>2. IsFiniteSet(1 .. Len(r.ReceivedBeforeSync))
    BY <2>1, FS_Interval
  <2> QED BY <2>1, <2>2, FS_Subset, FS_CardinalityType
<1>5. h = w
  <2>1. Cardinality(h) = Cardinality(w)
    <3> HIDE DEF h, w, e
    <3> QED BY <1>1, <1>3, <1>4
  <2> QED BY <1>2, <2>1, FS_Subset
<1> QED BY <1>1, <1>5 DEF Heard

LEMMA StepAnswers ==
  ASSUME ShardInv, DeltaInv({}), [ShardNextNoMSCrash]_shardVars, NEW m \in Hosts, Answers(m)
  PROVE  \A n \in ms'[m].RemoteMSToWaitForDelta : HasDelta(m, n)
<1>1. PICK k \in Hosts : MSReceive(k)
  <2> SUFFICES ASSUME ms' = ms PROVE FALSE
    <3>1. (\E k \in Hosts : MSReceive(k)) \/ ms' = ms
      BY DEF ShardNextNoMSCrash, TicksStep, TicksOperator, MSConnects, CbTPTicksUp, MSStarts,
             MSStart, SvcReceive, CbRegistered, TickUpdate, CbTicksDown, ReceiveTracker, SvcStart,
             CbTicksUp, DoInitMirrorLevel1, SvcCrash, svcElse, msVars, shardVars
    <3> QED BY <3>1
  <2> QED BY DEF Answers
<1>2. PICK r, net : Acted(k, r, net, {})
  BY <1>1, MSReceiveActed
<1>3. Acts(k, r, net)
  BY <1>2, ActedActs
<1>4. k = m
  BY <1>3 DEF Acts, Answers
<1>5. Ends(m, r, net)
  <2>1. r.State = "ExpectingLocalTocks" /\ ms'[m].State = "ExpectingMasterTick"
    BY <1>2, <1>4 DEF Acted, Answers
  <2> QED BY <1>3, <1>4, <2>1 DEF Acts, Waits, Sends, SameCount
<1>6. GameCycle \in Nat /\ ms[m].GameCycle = GameCycle
  <2>1. Link(m, ms[m], GameCycle, ClientInfos[m], toTicks[m], toHost[m]) /\ Sound(m, ms[m])
    BY OneOf
  <2>2. ms[m].State = "ExpectingLocalTocks"
    BY DEF Answers
  <2>3. ms[m].Syncd
    BY <2>1, <2>2 DEF Sound
  <2>4. GameCycle \in Nat
    BY DEF ShardInv, MasterInv, Control
  <2> QED BY <2>1, <2>2, <2>3, <2>4, LinkSyncd
<1>7. CountInv(GameCycle, r, {})
  <2> DEFINE f == [ms EXCEPT ![m] = r]
  <2>1. DeltasAre(GameCycle, YetToSend(f), f, net, {})
    BY <1>2, <1>4 DEF Acted
  <2>2. f[m] = r
    BY OneOf
  <2> QED BY <2>1, <2>2 DEF DeltasAre
<1>8. \A n \in ms'[m].RemoteMSToWaitForDelta : n \in Hosts /\ <<n, GameCycle>> \in r.PendingDeltas
  BY <1>2, <1>4, <1>5, <1>6, <1>7, EndHears DEF Ends, Acted
<1> SUFFICES ASSUME NEW n \in ms'[m].RemoteMSToWaitForDelta PROVE HasDelta(m, n)
  OBVIOUS
<1>9. \/ <<n, GameCycle>> \in ms[m].PendingDeltas
      \/ /\ PeerHas(n, m, "DELTA") /\ Head(peer[<<n, m>>]).cycle = GameCycle
         /\ net[<<n, m>>] = Tail(peer[<<n, m>>]) /\ n # m
  BY <1>2, <1>4, <1>8 DEF Acted, Known
<1>10. n # m => peer'[<<n, m>>] = net[<<n, m>>]
  <2>1. n \in Hosts /\ <<n, m>> \in Pairs
    BY <1>8 DEF Pairs
  <2> QED BY <1>5, <2>1 DEF Ends, WithDeltas
<1> QED BY <1>6, <1>9, <1>10 DEF HasDelta

LEMMA NoMSCrashShard == NoMSCrashSpec => ShardSpec
<1>1. [ShardNextNoMSCrash]_shardVars => [ShardNext]_shardVars
  BY DEF ShardNext
<1> QED BY <1>1, PTL DEF NoMSCrashSpec, ShardSpec

\* Step 3.5 of the cycle: a mirror service only answers TICKS when it has the delta of the
\* cycle from each mirror service it waits for; never is another delta, of another cycle or
\* of one it does not wait for, counted in its place.
THEOREM AnswersHaveDeltas == NoMSCrashSpec => AnswersWithAllDeltas
<1>1. ShardInit => DeltaInv({})
  BY InitDeltas
<1>2. ShardInv /\ ShardInv' /\ DeltaInv({}) /\ [ShardNextNoMSCrash]_shardVars => DeltaInv({})'
  BY StepDeltas
<1>3. ShardInv /\ DeltaInv({}) /\ [ShardNextNoMSCrash]_shardVars =>
        [\A m \in Hosts : Answers(m) =>
           \A n \in ms'[m].RemoteMSToWaitForDelta : HasDelta(m, n)]_shardVars
  BY StepAnswers
<1> QED BY <1>1, <1>2, <1>3, NoMSCrashShard, ShardAlways, PTL
        DEF NoMSCrashSpec, AnswersWithAllDeltas
================================================================================
