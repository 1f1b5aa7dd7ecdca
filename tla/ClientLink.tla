------------------------------ MODULE ClientLink ------------------------------
(* The link between the frontend (FE) and one game client, over datagrams that *)
(* the network loses, repeats and reorders: the state of the connection on     *)
(* both sides with its synchronisation and its probes, the acknowledgements,   *)
(* and the impulse channels of one level of the impulse encoder and decoder.   *)
(*                                                                             *)
(* From the moment the FE has a host for the client and sends SYNCs, as long   *)
(* as neither side ends the session.  A datagram, once sent, may be received   *)
(* any number of times, late or never.  Abstracted: what an impulse says (it   *)
(* is the rank at which it was posted), its size (MaxBatch impulses fit in a   *)
(* packet), times (a lag, a resend is possible at any moment the code looks at *)
(* its clock), and what the client sends up.                                   *)
EXTENDS Integers, Sequences, FiniteSetsExt, SequencesExt

CONSTANTS
  NbChannels,      \* channels of the level: 1, 2 or 4
  MaxBatch,        \* impulses that fit in a packet
  AckBits,         \* packets the bit mask of a normal message covers: 32
  LongAckBits,     \* packets the long ack of an ACK_SYNC covers: 512
  ProbesNeeded,    \* consecutive probes that end the state Probe: 5
  MaxImpulses,     \* bound: impulses posted
  MaxTicks,        \* bound: ticks of the FE
  MaxClientSends,  \* bound: datagrams of the client
  MaxLags,         \* bound: times the FE takes the client for lagging
  MaxStalls        \* bound: STALLED messages

ASSUME NbChannelsAssumption == NbChannels \in Nat \ {0}
ASSUME SizesAssumption ==
  MaxBatch \in Nat \ {0} /\ {AckBits, LongAckBits, ProbesNeeded} \subseteq Nat
ASSUME BoundsAssumption ==
  {MaxImpulses, MaxTicks, MaxClientSends, MaxLags, MaxStalls} \subseteq Nat

VARIABLES
  \* the CClientHost of the client in the FE
  ConnectionState, SendNumber, ReceiveNumber, LastReceivedAck, LastSentSync, SendSyncTick,
  LastSentProbe, LastReceivedProbe, NumConsecutiveProbes,
  MainQueue,       \* impulses not yet given to a channel
  Queue,           \* Queue[c]: the impulses channel c sends until they are acknowledged
  FirstSent,       \* FirstSent[c]: the first packet they were in
  \* the main loop of the FE
  phase,           \* "Idle" between ticks; "Reading", then "Heard" once the client was heard
  StalledMode, tick,
  \* the CNetworkConnection of the client
  clientState, CurrentSendNumber, LastReceivedNumber, LatestSync, Synchronize, LatestProbes,
  acked,           \* the packets it acknowledges: _AckBitMask and _LongAckBitField
  LastAck,         \* LastAck[c]: CImpulseDecoder
  serverTick,      \* _CurrentServerTick
  \* datagrams sent so far, in each direction
  toClient, toServer,
  \* history: impulses posted, decoded by the client, confirmed to the FE; bounds
  posted, delivered, confirmed, lags, stalls

probeVars == <<LastSentProbe, LastReceivedProbe, NumConsecutiveProbes>>
hostVars == <<ConnectionState, SendNumber, ReceiveNumber, LastReceivedAck, LastSentSync,
              SendSyncTick, probeVars>>
encoderVars == <<MainQueue, Queue, FirstSent>>
loopVars == <<phase, StalledMode, tick, lags, stalls>>
decoderVars == <<LastAck, delivered, serverTick>>
clientVars == <<clientState, CurrentSendNumber, LastReceivedNumber, LatestSync, Synchronize,
                LatestProbes, acked, decoderVars>>
feVars == <<hostVars, encoderVars, loopVars, toClient, posted, confirmed>>
vars == <<feVars, clientVars, toServer>>

Channels == 0 .. NbChannels - 1
Channel(packet) == packet % NbChannels

\* Mutant of LongAck: one packet too few.
LongAckTooShort(front) == front - LongAckBits + 2 .. front
\* The packets an ACK_SYNC tells of: NumBitsInLongAck up to the last one.
LongAck(front) == front - LongAckBits + 1 .. front

\* Datagrams of the FE.  sentAt is not on the wire: the tick of the sending.
Sync(packet, sync, code) == [type |-> "SYNC", packet |-> packet, sync |-> sync, code |-> code]
Probe(packet, probe) == [type |-> "PROBE", packet |-> packet, probe |-> probe]
Stalled(packet) == [type |-> "STALLED", packet |-> packet]
Normal(packet, ack, impulses, sentAt) ==
  [type |-> "NORMAL", packet |-> packet, ack |-> ack, impulses |-> impulses, sentAt |-> sentAt]

\* Datagrams of the client.
AckSync(number, front, bits, code) ==
  [type |-> "ACK_SYNC", number |-> number, front |-> front, bits |-> bits, code |-> code]
AckProbe(number, probes) == [type |-> "ACK_PROBE", number |-> number, probes |-> probes]
Action(number, ack, mask) ==
  [type |-> "NORMAL", number |-> number, ack |-> ack, mask |-> mask]

\* The host just after the reading of the LOGIN that created it.
Init ==
  /\ ConnectionState = "Synchronize"
  /\ SendNumber = 0 /\ ReceiveNumber = -1 /\ LastReceivedAck = -1
  /\ LastSentSync = 1 /\ SendSyncTick = 0
  /\ LastSentProbe = 0 /\ LastReceivedProbe = 0 /\ NumConsecutiveProbes = 0
  /\ MainQueue = <<>>
  /\ Queue = [c \in Channels |-> <<>>] /\ FirstSent = [c \in Channels |-> 0]
  /\ phase = "Heard" /\ StalledMode = FALSE /\ tick = 1
  /\ clientState = "Login"
  /\ CurrentSendNumber = 0 /\ LastReceivedNumber = 0
  /\ LatestSync = 0 /\ Synchronize = 0 /\ LatestProbes = <<>> /\ acked = {}
  /\ LastAck = [c \in Channels |-> -1] /\ serverTick = 0
  /\ toClient = {} /\ toServer = {}
  /\ posted = 0 /\ delivered = <<>> /\ confirmed = {} /\ lags = 0 /\ stalls = 0

--------------------------------------------------------------------------------
\* The FE between two ticks: an impulse of a service, a tick that does not come.
AddImpulse ==
  /\ phase = "Idle" /\ posted < MaxImpulses
  /\ posted' = posted + 1
  /\ MainQueue' = Append(MainQueue, posted + 1)
  /\ UNCHANGED <<hostVars, Queue, FirstSent, loopVars, toClient, confirmed, clientVars, toServer>>

\* sendServerProblemStateToClients( Stalled ), every second without a tick.
SendStalled ==
  /\ phase = "Idle" /\ stalls < MaxStalls
  /\ StalledMode' = TRUE
  /\ stalls' = stalls + 1
  /\ ConnectionState' = "Stalled"
  /\ SendNumber' = SendNumber + 1
  /\ toClient' = toClient \cup {Stalled(SendNumber + 1)}
  /\ UNCHANGED <<ReceiveNumber, LastReceivedAck, LastSentSync, SendSyncTick, probeVars,
                 encoderVars, phase, tick, lags, posted, confirmed, clientVars, toServer>>

\* Mutant of BeginTick: the mode is left only once the clients are synchronised.
BeginTickStillStalled ==
  /\ phase = "Idle" /\ tick < MaxTicks
  /\ phase' = "Reading"
  /\ tick' = tick + 1
  /\ ConnectionState' = IF StalledMode THEN "ForceSynchronize" ELSE ConnectionState
  /\ UNCHANGED <<SendNumber, ReceiveNumber, LastReceivedAck, LastSentSync, SendSyncTick,
                 probeVars, encoderVars, StalledMode, lags, stalls, toClient, posted, confirmed,
                 clientVars, toServer>>
\* onTick() up to the reading: setClientsToSynchronizeState(), swapReadBuffers().
BeginTick ==
  /\ phase = "Idle" /\ tick < MaxTicks
  /\ phase' = "Reading"
  /\ tick' = tick + 1
  /\ StalledMode' = FALSE
  /\ ConnectionState' = IF StalledMode THEN "ForceSynchronize" ELSE ConnectionState
  /\ UNCHANGED <<SendNumber, ReceiveNumber, LastReceivedAck, LastSentSync, SendSyncTick,
                 probeVars, encoderVars, lags, stalls, toClient, posted, confirmed,
                 clientVars, toServer>>

--------------------------------------------------------------------------------
\* Reading: handleReceivedMsg() of one datagram.  A message of any kind that is
\* not newer than the last normal one is skipped.
Received(m) ==
  /\ phase # "Idle"
  /\ phase' = "Heard"
  /\ m \in toServer /\ m.number > ReceiveNumber
  /\ UNCHANGED <<SendNumber, StalledMode, tick, lags, stalls, toClient, posted,
                 clientVars, toServer>>

\* Mutant of Flushed: any acknowledged packet of the channel counts.
FlushedByOldAcks(packets) == {c \in Channels : \E p \in packets : Channel(p) = c}
\* ImpulseEncoder.ack() of a set of packets: a channel forgets its impulses if
\* one of its packets is acknowledged that was sent since it has them.
Flushed(packets) ==
  {c \in Channels : \E p \in packets : Channel(p) = c /\ p >= FirstSent[c]}
Acknowledge(packets) ==
  /\ Queue' = [c \in Channels |-> IF c \in Flushed(packets) THEN <<>> ELSE Queue[c]]
  /\ confirmed' = confirmed \cup UNION {ToSet(Queue[c]) : c \in Flushed(packets)}
  /\ UNCHANGED <<MainQueue, FirstSent>>

AnswersSync(m) == m.code = LastSentSync

\* In Synchronize an ACK_SYNC is taken whose code is the one of the SYNCs sent;
\* it acknowledges what came since the last acknowledgement, as far back as the
\* long ack goes.
ReceiveAckSync(m) ==
  /\ m.type = "ACK_SYNC" /\ Received(m)
  /\ IF ConnectionState = "Synchronize" /\ AnswersSync(m)
     THEN /\ Acknowledge({p \in m.bits \cap LongAck(m.front) : LastReceivedAck < p})
          /\ LastReceivedAck' = m.front
          /\ LastSentSync' = LastSentSync + 1
          /\ ConnectionState' = "Connected"
     ELSE UNCHANGED <<encoderVars, confirmed, LastReceivedAck, LastSentSync, ConnectionState>>
  /\ UNCHANGED <<ReceiveNumber, SendSyncTick, probeVars>>

\* Length of the run of consecutive probes at the end of the probes received,
\* when n were counted up to the probe last.
Consecutive(probes, last, n) ==
  FoldLeft(LAMBDA r, p : [last |-> p, n |-> IF p = r.last + 1 THEN r.n + 1 ELSE 1],
           [last |-> last, n |-> n], probes)

ReceiveAckProbe(m) ==
  /\ m.type = "ACK_PROBE" /\ Received(m)
  /\ IF ConnectionState = "Probe"
     THEN LET r == Consecutive(m.probes, LastReceivedProbe, NumConsecutiveProbes)
          IN /\ LastReceivedProbe' = r.last
             /\ NumConsecutiveProbes' = r.n
             /\ IF r.n >= ProbesNeeded
                THEN /\ ConnectionState' = "Synchronize"
                     /\ SendSyncTick' = tick - (SendNumber + 1)
                ELSE UNCHANGED <<ConnectionState, SendSyncTick>>
     ELSE UNCHANGED <<LastReceivedProbe, NumConsecutiveProbes, ConnectionState, SendSyncTick>>
  /\ UNCHANGED <<ReceiveNumber, LastReceivedAck, LastSentSync, LastSentProbe,
                 encoderVars, confirmed>>

\* setProbeState()
SetProbe ==
  /\ ConnectionState' = "Probe"
  /\ LastSentProbe' = 0 /\ LastReceivedProbe' = 0 /\ NumConsecutiveProbes' = 0

\* numAcks is unsigned: an older acknowledgement than the last one counts as
\* far too many.
TooManyAcks(ack) == ack < LastReceivedAck \/ ack - LastReceivedAck > AckBits + 1

\* A normal message only counts in Connected.  (Its ack is not 0: the client has
\* had a packet when it is Connected.)
ReceiveNormal(m) ==
  /\ m.type = "NORMAL" /\ Received(m)
  /\ \/ /\ ConnectionState # "Connected"
        /\ UNCHANGED <<ConnectionState, ReceiveNumber, LastReceivedAck, probeVars,
                       encoderVars, confirmed>>
     \/ /\ ConnectionState = "Connected" /\ TooManyAcks(m.ack)
        /\ SetProbe
        /\ UNCHANGED <<ReceiveNumber, LastReceivedAck, encoderVars, confirmed>>
     \/ /\ ConnectionState = "Connected" /\ ~TooManyAcks(m.ack)
        /\ Acknowledge({p \in m.mask \cup {m.ack} : LastReceivedAck < p})
        /\ LastReceivedAck' = m.ack
        /\ ReceiveNumber' = m.number
        /\ UNCHANGED <<ConnectionState, probeVars>>
  /\ UNCHANGED <<LastSentSync, SendSyncTick>>

\* A skipped datagram, or one of the session that says nothing in this state,
\* still shows that the client is there.
ReceiveOld ==
  /\ phase = "Reading"
  /\ \E m \in toServer : m.number <= ReceiveNumber
  /\ phase' = "Heard"
  /\ UNCHANGED <<hostVars, encoderVars, StalledMode, tick, lags, stalls, toClient, posted,
                 confirmed, clientVars, toServer>>

--------------------------------------------------------------------------------
\* The end of onTick(): updateClientsStates() and the packets of this tick, which
\* are flushed to the network before the tick is over.

\* A client that was not heard in this tick may be found to lag.
Lag == phase = "Reading" /\ ConnectionState # "Probe" /\ lags < MaxLags

EndsTick(sent) ==
  /\ phase' = "Idle"
  /\ toClient' = toClient \cup sent
  /\ UNCHANGED <<ReceiveNumber, LastReceivedAck, LastSentSync, StalledMode, tick, stalls,
                 posted, confirmed, clientVars, toServer>>

\* Impulses the main queue gives to an empty channel.
Taken == SubSeq(MainQueue, 1, IF Len(MainQueue) < MaxBatch THEN Len(MainQueue) ELSE MaxBatch)

\* A channel with nothing to send again takes impulses from the main queue.
Filled(c) == IF Queue[c] = <<>> THEN Taken ELSE Queue[c]
Left(c) == IF Queue[c] = <<>> THEN SubSeq(MainQueue, Len(Taken) + 1, Len(MainQueue)) ELSE MainQueue

SendPacket ==
  /\ phase # "Idle" /\ ConnectionState = "Connected"
  /\ LET packet == SendNumber + 1
         c == Channel(packet)
     IN /\ SendNumber' = packet
        /\ FirstSent' = [FirstSent EXCEPT ![c] = IF Queue[c] = <<>> THEN packet ELSE @]
        /\ Queue' = [Queue EXCEPT ![c] = Filled(c)]
        /\ MainQueue' = Left(c)
        /\ EndsTick({Normal(packet, ReceiveNumber, Filled(c), tick)})
  /\ UNCHANGED <<ConnectionState, SendSyncTick, probeVars, lags>>

SendSync ==
  /\ phase # "Idle" /\ ConnectionState \in {"Synchronize", "ForceSynchronize"}
  /\ ConnectionState' = "Synchronize"
  /\ SendNumber' = SendNumber + 1
  /\ SendSyncTick' = tick - (SendNumber + 1)
  /\ EndsTick({Sync(SendNumber + 1, tick - (SendNumber + 1), LastSentSync)})
  /\ UNCHANGED <<probeVars, encoderVars, lags>>

\* In Probe, at the latency of PROBEs.
SendProbe ==
  /\ phase # "Idle" /\ ConnectionState = "Probe"
  /\ SendNumber' = SendNumber + 1
  /\ LastSentProbe' = LastSentProbe + 1
  /\ EndsTick({Probe(SendNumber + 1, LastSentProbe + 1)})
  /\ UNCHANGED <<ConnectionState, SendSyncTick, LastReceivedProbe, NumConsecutiveProbes,
                 encoderVars, lags>>

SendNoProbe ==
  /\ phase # "Idle" /\ ConnectionState = "Probe" /\ LastSentProbe > 0
  /\ EndsTick({})
  /\ UNCHANGED <<ConnectionState, SendNumber, SendSyncTick, probeVars, encoderVars, lags>>

\* A client found to lag is sent its first PROBE in the same tick.
FindLag ==
  /\ Lag
  /\ lags' = lags + 1
  /\ ConnectionState' = "Probe"
  /\ LastSentProbe' = 1 /\ LastReceivedProbe' = 0 /\ NumConsecutiveProbes' = 0
  /\ SendNumber' = SendNumber + 1
  /\ EndsTick({Probe(SendNumber + 1, 1)})
  /\ UNCHANGED <<SendSyncTick, encoderVars>>

--------------------------------------------------------------------------------
\* The client.  decodeHeader() drops what is not newer than the last datagram,
\* and remembers which normal packets it acknowledges.
Decoded(m) ==
  /\ m \in toClient /\ m.packet > LastReceivedNumber
  /\ LastReceivedNumber' = m.packet
  /\ UNCHANGED <<feVars>>

Send(m) ==
  /\ CurrentSendNumber < MaxClientSends
  /\ CurrentSendNumber' = CurrentSendNumber + 1
  /\ toServer' = toServer \cup {m}

\* sendSystemAckSync() says which of the packets up to the number last it has.
SendsAckSync(last, code) ==
  Send(AckSync(CurrentSendNumber, last, acked \cap LongAck(last), code))

\* Mutant of SyncTaken: a client that has been synchronised keeps its tick.
SyncTakenOnce(m) == IF LatestSync = 0 THEN m.sync ELSE Synchronize
SyncTaken(m) == m.sync

\* receiveSystemSync(), in every state.
ReceiveSync(m) ==
  /\ m.type = "SYNC" /\ Decoded(m)
  /\ clientState' = "Synchronize"
  /\ Synchronize' = SyncTaken(m) /\ LatestSync' = m.code
  /\ serverTick' = SyncTaken(m) + m.packet
  /\ SendsAckSync(m.packet, m.code)
  /\ UNCHANGED <<LatestProbes, acked, LastAck, delivered>>

\* No SYNC for 300 ms in the state Synchronize.
ResendAckSync ==
  /\ clientState = "Synchronize"
  /\ SendsAckSync(LastReceivedNumber, LatestSync)
  /\ UNCHANGED <<feVars, clientState, LastReceivedNumber, LatestSync, Synchronize, LatestProbes,
                 acked, decoderVars>>

ReceiveProbe(m) ==
  /\ m.type = "PROBE" /\ Decoded(m)
  /\ clientState' = "Probe"
  /\ LatestProbes' = Append(LatestProbes, m.probe)
  /\ UNCHANGED <<CurrentSendNumber, LatestSync, Synchronize, acked, decoderVars, toServer>>

\* The probes received since the last ACK_PROBE; none, if neither a PROBE nor a
\* normal packet came for 300 ms.
SendAckProbe ==
  /\ clientState = "Probe"
  /\ Send(AckProbe(CurrentSendNumber, LatestProbes))
  /\ LatestProbes' = <<>>
  /\ UNCHANGED <<feVars, clientState, LastReceivedNumber, LatestSync, Synchronize, acked,
                 decoderVars>>

ReceiveStalled(m) ==
  /\ m.type = "STALLED" /\ Decoded(m)
  /\ clientState' = "Stalled"
  /\ UNCHANGED <<CurrentSendNumber, LatestSync, Synchronize, LatestProbes, acked, decoderVars,
                 toServer>>

\* Mutants of Keeps: every packet is kept; one that acknowledges just what the
\* channel waits for is not.
KeepsAll(m, lastAck) == TRUE
KeepsNewer(m, lastAck) == m.ack > lastAck[Channel(m.packet)]
\* ImpulseDecoder.decode(): impulses are kept if the FE had, when it sent them,
\* what the client sends after the impulses it kept last on the channel.
Keeps(m, lastAck) == m.ack >= lastAck[Channel(m.packet)]

Decode(m, lastAck) ==
  IF m.impulses # <<>> /\ Keeps(m, lastAck)
  THEN /\ LastAck' = [lastAck EXCEPT ![Channel(m.packet)] = CurrentSendNumber]
       /\ delivered' = delivered \o m.impulses
  ELSE LastAck' = lastAck /\ UNCHANGED delivered

\* The first normal packet after a SYNC resets the decoder and connects.
ReceivePacket(m) ==
  /\ m.type = "NORMAL" /\ Decoded(m)
  /\ clientState \in {"Synchronize", "Connected"}
  /\ clientState' = "Connected"
  /\ acked' = acked \cup {m.packet}
  /\ Decode(m, IF clientState = "Synchronize" THEN [c \in Channels |-> -1] ELSE LastAck)
  /\ serverTick' = Synchronize + m.packet
  /\ UNCHANGED <<CurrentSendNumber, LatestSync, Synchronize, LatestProbes, toServer>>

\* In any other state it is not acknowledged.  In Probe it puts off the ACK_PROBE
\* without probes: while packets come, the client sends nothing.
IgnorePacket(m) ==
  /\ m.type = "NORMAL" /\ Decoded(m)
  /\ clientState \notin {"Synchronize", "Connected"}
  /\ UNCHANGED <<clientState, CurrentSendNumber, LatestSync, Synchronize, LatestProbes, acked,
                 decoderVars, toServer>>

\* sendNormalMessage(), once per tick of the client.
SendAction ==
  /\ clientState = "Connected"
  /\ Send(Action(CurrentSendNumber, LastReceivedNumber,
                 acked \cap (LastReceivedNumber - AckBits .. LastReceivedNumber - 1)))
  /\ UNCHANGED <<feVars, clientState, LastReceivedNumber, LatestSync, Synchronize, LatestProbes,
                 acked, decoderVars>>

--------------------------------------------------------------------------------
FE ==
  \/ AddImpulse \/ SendStalled \/ BeginTick
  \/ \E m \in toServer : ReceiveAckSync(m) \/ ReceiveAckProbe(m) \/ ReceiveNormal(m)
  \/ ReceiveOld
  \/ SendPacket \/ SendSync \/ SendProbe \/ SendNoProbe \/ FindLag

Client ==
  \/ \E m \in toClient : ReceiveSync(m) \/ ReceiveProbe(m) \/ ReceiveStalled(m)
                           \/ ReceivePacket(m) \/ IgnorePacket(m)
  \/ ResendAckSync \/ SendAckProbe \/ SendAction

Next == FE \/ Client
Spec == Init /\ [][Next]_vars

\* Every synchronisation ends before a packet that was sent since the last
\* acknowledgement is too old for the long ack.
LongAckCovers ==
  ConnectionState # "Connected" /\ ConnectionState' = "Connected" =>
    \A p \in toClient :
      p.type = "NORMAL" /\ p.packet > LastReceivedAck => p.packet > LastReceivedAck' - LongAckBits
CoveredSpec == Init /\ [][Next /\ LongAckCovers]_vars

--------------------------------------------------------------------------------
States == {"Synchronize", "ForceSynchronize", "Connected", "Probe", "Stalled"}
ClientStates == {"Login", "Synchronize", "Connected", "Probe", "Stalled"}
Impulses == 1 .. posted

TypeOK ==
  /\ ConnectionState \in States /\ clientState \in ClientStates
  /\ SendNumber \in Nat /\ CurrentSendNumber \in Nat
  /\ ReceiveNumber \in -1 .. CurrentSendNumber - 1
  /\ LastReceivedAck \in -1 .. SendNumber /\ LastReceivedNumber \in 0 .. SendNumber
  /\ acked \subseteq 1 .. LastReceivedNumber
  /\ phase \in {"Idle", "Reading", "Heard"} /\ StalledMode \in BOOLEAN
  /\ StalledMode => phase = "Idle" /\ ConnectionState = "Stalled"
  /\ \A c \in Channels : FirstSent[c] \in 0 .. SendNumber
                          /\ LastAck[c] \in -1 .. CurrentSendNumber
                          /\ ToSet(Queue[c]) \subseteq Impulses

Pipe == INSTANCE ImpulsePipe
\* Whatever datagrams are lost, repeated or late, and however often the link is
\* synchronised anew, the channels of a level deliver every batch of impulses
\* once, as a whole, and the FE forgets an impulse only when the client has it.
\* It is claimed of CoveredSpec: the acknowledgement of a packet that the long
\* ack does not reach is lost, the FE sends its batch again, and the client, whose
\* decoder is new, takes it a second time.
ImpulsesArriveOnce == Pipe!PipeSpec

\* No impulse is lost: what the client has not had is in the main queue or in
\* one channel.
Waiting == ToSet(MainQueue) \cup UNION {ToSet(Queue[c]) : c \in Channels}
NothingLost == Impulses \ ToSet(delivered) \subseteq Waiting

\* A level of n channels lets at most n - 1 batches be overtaken by a later
\* impulse; with one channel impulses arrive in order.
Overtaken == {i \in Impulses \ ToSet(delivered) : \E j \in ToSet(delivered) : i < j}
OvertakenBound == Cardinality(Overtaken) <= (NbChannels - 1) * MaxBatch

\* The client computes for each packet it takes the tick at which the FE sent it,
\* unless the FE has probed it or stalled since the first SYNC of the code that
\* the client has: a new synchronisation keeps a code that nobody has answered,
\* and an answer to the older SYNC, of another tick, ends it as well.
Uninterrupted(m) ==
  \A y, p \in toClient :
    y.type = "SYNC" /\ y.code = LatestSync /\ y.packet < p.packet /\ p.packet < m.packet =>
      p.type \in {"SYNC", "NORMAL"}
TicksAgreeUnlessInterrupted ==
  [][\A m \in toClient : ReceivePacket(m) /\ Uninterrupted(m) => serverTick' = m.sentAt]_vars

\* If only the answer to the current SYNC ended a synchronisation, a host in
\* Connected would have a client in a state that takes its packets.  A client in
\* any other state drops them, and nothing arrives until the FE takes it for
\* lagging, probes it and synchronises once more.
ConnectedClientListens ==
  ConnectionState = "Connected" => clientState \in {"Synchronize", "Connected"}
================================================================================
