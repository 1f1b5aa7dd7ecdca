--------------------------- MODULE ClientLinkProofs ---------------------------
(* Proofs about the link of the frontend and a client, for any number of       *)
(* channels, of impulses, of ticks and of datagrams, whatever the network does *)
(* with them: first which packets the decoder of the client keeps and what it  *)
(* acknowledges, and on that what the channels and the main queue hold, so     *)
(* that no impulse is lost, delivered twice or confirmed too early.            *)
EXTENDS ClientLink, FiniteSetTheorems, SequenceTheorems, TLAPS

Connected == ConnectionState = "Connected"
Packets == {m \in toClient : m.type = "NORMAL"}
Syncs == {m \in toClient : m.type = "SYNC"}
AckSyncs == {a \in toServer : a.type = "ACK_SYNC"}
Actions == {a \in toServer : a.type = "NORMAL"}
\* What the client would still decode.
Receivable(m) == m.packet > LastReceivedNumber

\* The packets the client has had of those that bring the impulses of channel c,
\* as far as the FE may still hear of them.
Carried(c) == {p \in acked : Channel(p) = c /\ p >= FirstSent[c] /\ p > LastReceivedAck}
\* The packet m brings what its channel now holds, and the client has it not yet.
Carries(m) == Queue[Channel(m.packet)] # <<>> /\ m.packet >= FirstSent[Channel(m.packet)]
Awaited(m) == Carries(m) /\ Carried(Channel(m.packet)) = {}

--------------------------------------------------------------------------------
\* The steps, by what they do to the state that the invariants are about.
feCore == <<SendNumber, ReceiveNumber, LastReceivedAck, LastSentSync, MainQueue, Queue, FirstSent,
            toClient, posted, confirmed>>
clientCore == <<clientState, CurrentSendNumber, LastReceivedNumber, LatestSync, acked, LastAck,
                delivered, toServer>>

\* The FE sends nothing and takes nothing; it may leave the state Connected.
Quiet ==
  /\ ConnectionState' = ConnectionState \/ ConnectionState' # "Connected"
  /\ UNCHANGED <<feCore, clientCore>>

\* It sends a datagram that is not a packet, in any state but Connected.
Control(m) ==
  /\ m.type # "NORMAL" /\ m.packet = SendNumber + 1 /\ (m.type = "SYNC" => m.code = LastSentSync)
  /\ SendNumber' = SendNumber + 1 /\ toClient' = toClient \cup {m}
  /\ ConnectionState' # "Connected"
  /\ UNCHANGED <<ReceiveNumber, LastReceivedAck, LastSentSync, MainQueue, Queue, FirstSent, posted,
                 confirmed, clientCore>>

\* An impulse is posted.
Posts ==
  /\ posted < MaxImpulses
  /\ posted' = posted + 1 /\ MainQueue' = Append(MainQueue, posted + 1)
  /\ UNCHANGED <<ConnectionState, SendNumber, ReceiveNumber, LastReceivedAck, LastSentSync, Queue,
                 FirstSent, toClient, confirmed, clientCore>>

\* It sends the packet m.
Sends(m) ==
  /\ Connected /\ UNCHANGED ConnectionState
  /\ m.type = "NORMAL" /\ m.packet = SendNumber + 1 /\ m.ack = ReceiveNumber
  /\ m.impulses = Filled(Channel(m.packet))
  /\ SendNumber' = m.packet
  /\ FirstSent' = [FirstSent EXCEPT ![Channel(m.packet)] =
                     IF Queue[Channel(m.packet)] = <<>> THEN m.packet ELSE @]
  /\ Queue' = [Queue EXCEPT ![Channel(m.packet)] = m.impulses]
  /\ MainQueue' = Left(Channel(m.packet))
  /\ toClient' = toClient \cup {m}
  /\ UNCHANGED <<ReceiveNumber, LastReceivedAck, LastSentSync, posted, confirmed, clientCore>>

\* The ACK_SYNC a ends the synchronisation.
Connects(a) ==
  /\ a \in AckSyncs /\ a.code = LastSentSync
  /\ Acknowledge({p \in a.bits \cap LongAck(a.front) : LastReceivedAck < p})
  /\ LastReceivedAck' = a.front /\ LastSentSync' = LastSentSync + 1
  /\ ~Connected /\ ConnectionState' = "Connected"
  /\ UNCHANGED <<SendNumber, ReceiveNumber, toClient, posted, clientCore>>

\* The normal message a is taken.
Hears(a) ==
  /\ a \in Actions /\ a.number > ReceiveNumber
  /\ Connected /\ ~TooManyAcks(a.ack) /\ UNCHANGED ConnectionState
  /\ Acknowledge({p \in a.mask \cup {a.ack} : LastReceivedAck < p})
  /\ LastReceivedAck' = a.ack /\ ReceiveNumber' = a.number
  /\ UNCHANGED <<SendNumber, LastSentSync, toClient, posted, clientCore>>

feState == <<ConnectionState, feCore>>

\* The client decodes the SYNC m and answers it.
Synchronizes(m) ==
  /\ m \in Syncs /\ Receivable(m) /\ LastReceivedNumber' = m.packet
  /\ clientState' = "Synchronize" /\ LatestSync' = m.code
  /\ CurrentSendNumber' = CurrentSendNumber + 1
  /\ toServer' = toServer \cup
       {AckSync(CurrentSendNumber, m.packet, acked \cap LongAck(m.packet), m.code)}
  /\ UNCHANGED <<feState, acked, LastAck, delivered>>

\* The client decodes a datagram after which, or in a state in which, it takes no packets.
Deaf(m) ==
  /\ m \in toClient /\ Receivable(m) /\ LastReceivedNumber' = m.packet
  /\ clientState' \in ClientStates \ {"Synchronize", "Connected"}
  /\ m.type = "NORMAL" => clientState # "Connected"
  /\ UNCHANGED <<feState, CurrentSendNumber, LatestSync, acked, LastAck, delivered, toServer>>

\* What it compares with before it takes a packet.
Before == IF clientState = "Synchronize" THEN [c \in Channels |-> -1] ELSE LastAck

\* The client takes the packet m.
Takes(m) ==
  /\ m \in Packets /\ Receivable(m) /\ LastReceivedNumber' = m.packet
  /\ clientState \in {"Synchronize", "Connected"} /\ clientState' = "Connected"
  /\ acked' = acked \cup {m.packet}
  /\ Decode(m, Before)
  /\ UNCHANGED <<feState, CurrentSendNumber, LatestSync, toServer>>

\* The client sends the datagram a.
Tells(a) ==
  /\ a.number = CurrentSendNumber
  /\ \/ /\ a.type = "ACK_SYNC" /\ clientState = "Synchronize"
        /\ a.code = LatestSync /\ a.front = LastReceivedNumber
        /\ a.bits = acked \cap LongAck(a.front)
     \/ a.type = "ACK_PROBE"
     \/ /\ a.type = "NORMAL" /\ clientState = "Connected"
        /\ a.ack = LastReceivedNumber
        /\ a.mask = acked \cap (a.ack - AckBits .. a.ack - 1)
  /\ CurrentSendNumber' = CurrentSendNumber + 1
  /\ toServer' = toServer \cup {a}
  /\ UNCHANGED <<feState, clientState, LastReceivedNumber, LatestSync, acked, LastAck, delivered>>

Kinds ==
  \/ Quiet \/ Posts \/ \E m : Control(m) \/ Sends(m)
  \/ \E a : Connects(a) \/ Hears(a) \/ Tells(a)
  \/ \E m : Synchronizes(m) \/ Deaf(m) \/ Takes(m)

LEMMA StepKinds ==
  ASSUME [Next]_vars, ConnectionState \in States, clientState \in ClientStates
  PROVE  Kinds
<1> USE DEF Quiet, feCore, clientCore, hostVars, encoderVars, loopVars, decoderVars, clientVars, feVars,
            probeVars, feState
<1>1. CASE AddImpulse
  BY <1>1 DEF AddImpulse, Posts, Kinds
<1>2. CASE SendStalled
  <2>1. Control(Stalled(SendNumber + 1))
    BY <1>2 DEF SendStalled, Control, Stalled
  <2> QED BY <2>1 DEF Kinds
<1>3. CASE BeginTick
  BY <1>3 DEF BeginTick, Kinds
<1>4. ASSUME NEW m \in toServer, ReceiveAckSync(m) PROVE Kinds
  <2>1. CASE ConnectionState = "Synchronize" /\ AnswersSync(m)
    <3>1. Connects(m)
      BY <1>4, <2>1 DEF ReceiveAckSync, Received, Connects, AckSyncs, AnswersSync, Acknowledge, Connected
    <3> QED BY <3>1 DEF Kinds
  <2>2. CASE ~(ConnectionState = "Synchronize" /\ AnswersSync(m))
    BY <1>4, <2>2 DEF ReceiveAckSync, Received, Kinds
  <2> QED BY <2>1, <2>2
<1>5. ASSUME NEW m \in toServer, ReceiveAckProbe(m) PROVE Kinds
  BY <1>5 DEF ReceiveAckProbe, Received, Kinds
<1>6. ASSUME NEW m \in toServer, ReceiveNormal(m) PROVE Kinds
  <2>1. CASE Connected /\ ~TooManyAcks(m.ack)
    <3>1. Hears(m)
      BY <1>6, <2>1 DEF ReceiveNormal, Received, Hears, Actions, Acknowledge, Connected, SetProbe
    <3> QED BY <3>1 DEF Kinds
  <2>2. CASE ~(Connected /\ ~TooManyAcks(m.ack))
    BY <1>6, <2>2 DEF ReceiveNormal, Received, Kinds, Connected, SetProbe
  <2> QED BY <2>1, <2>2
<1>7. CASE ReceiveOld
  BY <1>7 DEF ReceiveOld, Kinds
<1>8. CASE SendPacket
  <2> DEFINE m == Normal(SendNumber + 1, ReceiveNumber, Filled(Channel(SendNumber + 1)), tick)
  <2>1. m.type = "NORMAL" /\ m.packet = SendNumber + 1 /\ m.ack = ReceiveNumber
        /\ m.impulses = Filled(Channel(SendNumber + 1))
    BY DEF Normal
  <2>2. Sends(m)
    <3> HIDE DEF m
    <3>1. toClient' = toClient \cup {m}
      BY <1>8 DEF SendPacket, EndsTick, m
    <3> QED BY <1>8, <2>1, <3>1 DEF SendPacket, EndsTick, Sends, Connected
  <2> QED BY <2>2 DEF Kinds
<1>9. CASE SendSync
  <2>1. Control(Sync(SendNumber + 1, tick - (SendNumber + 1), LastSentSync))
    BY <1>9 DEF SendSync, EndsTick, Control, Sync
  <2> QED BY <2>1 DEF Kinds
<1>10. CASE SendProbe
  <2>1. Control(Probe(SendNumber + 1, LastSentProbe + 1))
    BY <1>10 DEF SendProbe, EndsTick, Control, Probe
  <2> QED BY <2>1 DEF Kinds
<1>11. CASE SendNoProbe
  BY <1>11 DEF SendNoProbe, EndsTick, Kinds
<1>12. CASE FindLag
  <2>1. Control(Probe(SendNumber + 1, 1))
    BY <1>12 DEF FindLag, EndsTick, Control, Probe
  <2> QED BY <2>1 DEF Kinds
<1>13. ASSUME NEW m \in toClient, ReceiveSync(m) PROVE Kinds
  <2>1. Synchronizes(m)
    BY <1>13 DEF ReceiveSync, Decoded, SendsAckSync, Send, Synchronizes, Syncs, Receivable
  <2> QED BY <2>1 DEF Kinds
<1>14. ASSUME NEW m \in toClient, ReceiveProbe(m) \/ ReceiveStalled(m) \/ IgnorePacket(m)
       PROVE  Kinds
  <2>1. Deaf(m)
    BY <1>14 DEF ReceiveProbe, ReceiveStalled, IgnorePacket, Decoded, Deaf, Receivable, ClientStates
  <2> QED BY <2>1 DEF Kinds
<1>15. ASSUME NEW m \in toClient, ReceivePacket(m) PROVE Kinds
  <2>1. Takes(m)
    BY <1>15 DEF ReceivePacket, Decoded, Takes, Packets, Receivable, Before
  <2> QED BY <2>1 DEF Kinds
<1>16. CASE ResendAckSync
  <2>1. Tells(AckSync(CurrentSendNumber, LastReceivedNumber, acked \cap LongAck(LastReceivedNumber), LatestSync))
    BY <1>16 DEF ResendAckSync, SendsAckSync, Send, Tells, AckSync
  <2> QED BY <2>1 DEF Kinds
<1>17. CASE SendAckProbe
  <2>1. Tells(AckProbe(CurrentSendNumber, LatestProbes))
    BY <1>17 DEF SendAckProbe, Send, Tells, AckProbe
  <2> QED BY <2>1 DEF Kinds
<1>18. CASE SendAction
  <2>1. Tells(Action(CurrentSendNumber, LastReceivedNumber,
                     acked \cap (LastReceivedNumber - AckBits .. LastReceivedNumber - 1)))
    BY <1>18 DEF SendAction, Send, Tells, Action
  <2> QED BY <2>1 DEF Kinds
<1>19. CASE UNCHANGED vars
  BY <1>19 DEF vars, Kinds
<1> QED
  BY <1>1, <1>2, <1>3, <1>4, <1>5, <1>6, <1>7, <1>8, <1>9, <1>10, <1>11, <1>12, <1>13, <1>14, <1>15,
     <1>16, <1>17, <1>18, <1>19 DEF Next, FE, Client

--------------------------------------------------------------------------------
\* Types, and what the numbers on the datagrams under way are bounded by.
DatagramTypes ==
  /\ \A m \in toClient : m.packet \in 1 .. SendNumber
  /\ \A m \in Syncs : m.code \in 0 .. LastSentSync
  /\ \A m \in Packets : m.ack \in -1 .. ReceiveNumber /\ m.impulses \in Seq(Nat)
  /\ \A a \in toServer : a.number \in 0 .. CurrentSendNumber - 1
  /\ \A a \in AckSyncs : a.front \in 0 .. LastReceivedNumber
  /\ \A a \in Actions : a.ack \in 0 .. LastReceivedNumber

CoreTypes ==
  /\ SendNumber \in Nat /\ CurrentSendNumber \in Nat
  /\ ReceiveNumber \in -1 .. CurrentSendNumber - 1
  /\ LastReceivedNumber \in 0 .. SendNumber /\ LastReceivedAck \in -1 .. LastReceivedNumber
  /\ LastSentSync \in Nat /\ LatestSync \in Nat /\ posted \in Nat
  /\ acked \subseteq 1 .. LastReceivedNumber
  /\ Queue \in [Channels -> Seq(Nat)] /\ FirstSent \in [Channels -> 0 .. SendNumber]
  /\ LastAck \in [Channels -> -1 .. CurrentSendNumber]
  /\ MainQueue \in Seq(Nat) /\ delivered \in Seq(Nat)
  /\ DatagramTypes

LEMMA ChannelType == \A p \in Nat : Channel(p) \in Channels
  BY NbChannelsAssumption DEF Channel, Channels

\* What a channel takes from the main queue, and what is left there.
LEMMA Shares ==
  ASSUME MainQueue \in Seq(Nat), NEW c \in Channels
  PROVE  /\ Taken \in Seq(Nat) /\ Len(Taken) <= MaxBatch /\ Len(Taken) <= Len(MainQueue)
         /\ \A i \in 1 .. Len(Taken) : Taken[i] = MainQueue[i]
         /\ Left(c) \in Seq(Nat)
         /\ Queue[c] # <<>> => Left(c) = MainQueue
         /\ Queue[c] = <<>> => /\ Len(Left(c)) = Len(MainQueue) - Len(Taken)
                               /\ \A i \in 1 .. Len(Left(c)) : Left(c)[i] = MainQueue[Len(Taken) + i]
<1> DEFINE k == IF Len(MainQueue) < MaxBatch THEN Len(MainQueue) ELSE MaxBatch
           rest == SubSeq(MainQueue, Len(Taken) + 1, Len(MainQueue))
<1>1. k \in Nat /\ k <= MaxBatch /\ k <= Len(MainQueue) /\ Len(MainQueue) \in Nat
  BY SizesAssumption
<1>2. Taken = SubSeq(MainQueue, 1, k)
  BY DEF Taken
<1> HIDE DEF k
<1>3. Taken \in Seq(Nat) /\ Len(Taken) = k /\ \A i \in 1 .. k : Taken[i] = MainQueue[i]
  BY <1>1, <1>2, SubSeqProperties
<1>4. /\ rest \in Seq(Nat) /\ Len(rest) = Len(MainQueue) - k
      /\ \A i \in 1 .. Len(rest) : rest[i] = MainQueue[k + i]
  BY <1>1, <1>3, SubSeqProperties
<1> QED BY <1>1, <1>3, <1>4 DEF Left

LEMMA TypesStep ==
  ASSUME CoreTypes, Kinds
  PROVE  CoreTypes'
<1> USE DEF CoreTypes, DatagramTypes, feCore, clientCore, feState, Packets, Syncs, AckSyncs, Actions
<1>1. CASE Quiet
  BY <1>1 DEF Quiet
<1>2. CASE Posts
  BY <1>2 DEF Posts
<1>3. ASSUME NEW m, Control(m) PROVE CoreTypes'
  BY <1>3 DEF Control
<1>4. ASSUME NEW m, Sends(m) PROVE CoreTypes'
  <2> DEFINE c == Channel(m.packet)
  <2>1. c \in Channels /\ m.packet = SendNumber + 1
    BY <1>4, ChannelType DEF Sends
  <2>2. m.impulses \in Seq(Nat) /\ MainQueue' \in Seq(Nat)
    BY <1>4, <2>1, Shares DEF Sends, Filled
  <2>3. /\ Queue' \in [Channels -> Seq(Nat)] /\ SendNumber' = SendNumber + 1
        /\ FirstSent' \in [Channels -> 0 .. SendNumber']
    BY <1>4, <2>1, <2>2 DEF Sends
  <2>4. toClient' = toClient \cup {m} /\ m.type = "NORMAL" /\ m.packet = SendNumber' /\ m.ack = ReceiveNumber
        /\ UNCHANGED <<ReceiveNumber, LastReceivedAck, LastSentSync, posted, clientCore>>
    BY <1>4, <2>1 DEF Sends
  <2>5. DatagramTypes'
    BY <2>2, <2>3, <2>4
  <2> QED BY <2>2, <2>3, <2>4, <2>5
<1>5. ASSUME NEW a, Connects(a) PROVE CoreTypes'
  BY <1>5 DEF Connects, Acknowledge
<1>6. ASSUME NEW a, Hears(a) PROVE CoreTypes'
  <2> DEFINE F == Flushed({p \in a.mask \cup {a.ack} : LastReceivedAck < p})
  <2>1. /\ Queue' = [c \in Channels |-> IF c \in F THEN <<>> ELSE Queue[c]]
        /\ UNCHANGED <<MainQueue, FirstSent>>
    BY <1>6 DEF Hears, Acknowledge
  <2>2. /\ a \in toServer /\ a.type = "NORMAL" /\ LastReceivedAck' = a.ack
        /\ ReceiveNumber' = a.number /\ a.number > ReceiveNumber
        /\ UNCHANGED <<SendNumber, LastSentSync, toClient, posted, clientCore>>
    BY <1>6 DEF Hears
  <2> HIDE DEF F
  <2>3. Queue' \in [Channels -> Seq(Nat)]
    BY <2>1
  <2>4. DatagramTypes'
    BY <2>2
  <2> QED BY <2>1, <2>2, <2>3, <2>4
<1>7. ASSUME NEW a, Tells(a) PROVE CoreTypes'
  <2>1. /\ a.number = CurrentSendNumber /\ CurrentSendNumber' = CurrentSendNumber + 1
        /\ a.type = "ACK_SYNC" => a.front = LastReceivedNumber
        /\ a.type = "NORMAL" => a.ack = LastReceivedNumber
        /\ toServer' = toServer \cup {a} /\ UNCHANGED feState
        /\ UNCHANGED <<clientState, LastReceivedNumber, LatestSync, acked, LastAck, delivered>>
    BY <1>7 DEF Tells
  <2>2. DatagramTypes'
    BY <2>1
  <2> QED BY <2>1, <2>2
<1>8. ASSUME NEW m, Synchronizes(m) PROVE CoreTypes'
  <2> DEFINE a == AckSync(CurrentSendNumber, m.packet, acked \cap LongAck(m.packet), m.code)
  <2>1. a.type = "ACK_SYNC" /\ a.number = CurrentSendNumber /\ a.front = m.packet
    BY DEF AckSync
  <2>2. /\ m \in toClient /\ m.type = "SYNC" /\ m.packet > LastReceivedNumber
        /\ LastReceivedNumber' = m.packet /\ LatestSync' = m.code
        /\ CurrentSendNumber' = CurrentSendNumber + 1 /\ toServer' = toServer \cup {a}
        /\ UNCHANGED <<feState, acked, LastAck, delivered>>
    BY <1>8 DEF Synchronizes, Receivable
  <2> HIDE DEF a
  <2>3. m.packet \in 1 .. SendNumber /\ m.code \in Nat
    BY <2>2
  <2>4. DatagramTypes'
    BY <2>1, <2>2, <2>3
  <2> QED BY <2>2, <2>3, <2>4
<1>9. ASSUME NEW m, Deaf(m) PROVE CoreTypes'
  BY <1>9 DEF Deaf, Receivable
<1>10. ASSUME NEW m, Takes(m) PROVE CoreTypes'
  <2>1. Before \in [Channels -> -1 .. CurrentSendNumber]
    BY DEF Before
  <2>2. LastAck' \in [Channels -> -1 .. CurrentSendNumber] /\ delivered' \in Seq(Nat)
    <3>1. m.impulses \in Seq(Nat) /\ delivered \o m.impulses \in Seq(Nat)
      BY <1>10, ConcatProperties DEF Takes
    <3>2. LastAck' = Before \/ LastAck' = [Before EXCEPT ![Channel(m.packet)] = CurrentSendNumber]
      BY <1>10 DEF Takes, Decode
    <3>3. CurrentSendNumber \in -1 .. CurrentSendNumber
      OBVIOUS
    <3>4. LastAck' \in [Channels -> -1 .. CurrentSendNumber]
      <4> HIDE DEF CoreTypes, DatagramTypes
      <4> DEFINE T == -1 .. CurrentSendNumber
      <4>1. Before \in [Channels -> T] /\ CurrentSendNumber \in T
        BY <2>1, <3>3
      <4> HIDE DEF T
      <4>2. LastAck' \in [Channels -> T]
        BY <3>2, <4>1
      <4> QED BY <4>2 DEF T
    <3> QED BY <1>10, <3>1, <3>4 DEF Takes, Decode
  <2>3. /\ m \in toClient /\ m.packet > LastReceivedNumber /\ LastReceivedNumber' = m.packet
        /\ acked' = acked \cup {m.packet}
        /\ UNCHANGED <<feState, CurrentSendNumber, LatestSync, toServer>>
    BY <1>10 DEF Takes, Receivable
  <2>4. DatagramTypes'
    BY <2>3
  <2>5. LastReceivedNumber' \in 0 .. SendNumber /\ acked' \subseteq 1 .. LastReceivedNumber'
    <3>1. m.packet \in 1 .. SendNumber
      BY <2>3
    <3> HIDE DEF DatagramTypes
    <3>2. ASSUME NEW p \in acked' PROVE p \in 1 .. m.packet
      BY <2>3, <3>1, <3>2
    <3>3. LastReceivedNumber' = m.packet /\ SendNumber \in Nat
      BY <2>3
    <3> HIDE DEF CoreTypes, feState
    <3>4. acked' \subseteq 1 .. m.packet
      BY <3>2
    <3> QED BY <3>1, <3>3, <3>4
  <2> HIDE DEF DatagramTypes
  <2> QED BY <2>2, <2>3, <2>4, <2>5
<1> QED BY <1>1, <1>2, <1>3, <1>4, <1>5, <1>6, <1>7, <1>8, <1>9, <1>10 DEF Kinds

--------------------------------------------------------------------------------
\* Synchronisation.  No packet is sent after the SYNCs of the present code: the
\* FE is Connected only once they are answered, under the next code.
SyncsComeLast ==
  \A y \in Syncs : y.code = LastSentSync => ~Connected /\ \A m \in Packets : m.packet < y.packet

\* Once the FE goes on with packets, the client no longer takes those from before the SYNCs.
PassedBySync ==
  \A y \in Syncs, m \in Packets :
    m.packet < y.packet /\ (Connected \/ \E n \in Packets : y.packet < n.packet)
      => m.packet < LastReceivedNumber

\* An answer to a SYNC, or a client that waits for packets, has had a SYNC of that code.
HadSync(code, number) == \E y \in Syncs : y.code = code /\ y.packet <= number
SyncsAnswered ==
  /\ \A a \in AckSyncs : HadSync(a.code, a.front)
  /\ clientState = "Synchronize" => HadSync(LatestSync, LastReceivedNumber)

\* A Connected FE has sent packets only since all that the client may still have
\* in the way of other datagrams; a Connected client has passed those.
PacketsComeLast ==
  /\ Connected => \A n \in Packets, y \in toClient :
                    y.type # "NORMAL" /\ Receivable(n) => y.packet < n.packet
  /\ Connected /\ clientState = "Connected" =>
       \A y \in toClient : y.type # "NORMAL" => y.packet < LastReceivedNumber

\* What the client acknowledges are packets; when Connected, the last one is.
AckedPackets ==
  /\ \A p \in acked : \E m \in Packets : m.packet = p
  /\ clientState = "Connected" => LastReceivedNumber \in acked

SyncInv == SyncsComeLast /\ PassedBySync /\ SyncsAnswered /\ PacketsComeLast /\ AckedPackets

\* When the FE takes an answer, the client has passed every packet sent so far,
\* and it waits for packets, or for a SYNC.
LEMMA ConnectsAlone ==
  ASSUME CoreTypes, SyncInv, NEW a, Connects(a)
  PROVE  /\ a.front \in 0 .. LastReceivedNumber
         /\ \A m \in Packets : m.packet \in 1 .. SendNumber /\ m.packet < a.front
         /\ clientState # "Connected"
<1>1. a \in AckSyncs /\ a.code = LastSentSync /\ a.front \in 0 .. LastReceivedNumber
  BY DEF Connects, CoreTypes, DatagramTypes
<1>2. PICK y \in Syncs : y.code = LastSentSync /\ y.packet <= a.front
  BY <1>1 DEF SyncInv, SyncsAnswered, HadSync
<1>3. \A m \in Packets : m.packet < y.packet
  BY <1>2 DEF SyncInv, SyncsComeLast
<1>4. \A m \in toClient : m.packet \in 1 .. SendNumber
  BY DEF CoreTypes, DatagramTypes
<1>5. y \in toClient /\ \A m \in Packets : m \in toClient
  BY DEF Syncs, Packets
<1>6. LastReceivedNumber \in Nat
  BY DEF CoreTypes
<1>7. \A m \in Packets : m.packet < a.front
  BY <1>1, <1>2, <1>3, <1>4, <1>5, <1>6
<1>8. ASSUME clientState = "Connected" PROVE FALSE
  <2>1. PICK m \in Packets : m.packet = LastReceivedNumber
    BY <1>8 DEF SyncInv, AckedPackets
  <2> QED BY <1>1, <1>6, <1>7, <2>1
<1> QED BY <1>1, <1>4, <1>5, <1>7, <1>8

LEMMA SyncStep ==
  ASSUME CoreTypes, SyncInv, Kinds
  PROVE  SyncInv'
<1> USE DEF SyncInv, SyncsComeLast, PassedBySync, SyncsAnswered, PacketsComeLast, AckedPackets,
            HadSync, Receivable, feCore, clientCore, feState, Connected
<1>0. /\ LastSentSync \in Nat /\ SendNumber \in Nat /\ LastReceivedNumber \in 0 .. SendNumber
      /\ \A m \in toClient : m.packet \in 1 .. SendNumber
      /\ \A y \in Syncs : y.code \in 0 .. LastSentSync
      /\ \A a \in AckSyncs : a.front \in 0 .. LastReceivedNumber
  BY DEF CoreTypes, DatagramTypes
<1>1. CASE Quiet
  BY <1>1 DEF Quiet, Packets, Syncs, AckSyncs
<1>2. CASE Posts
  BY <1>2 DEF Posts, Packets, Syncs, AckSyncs
<1>3. ASSUME NEW m, Control(m) PROVE SyncInv'
  BY <1>0, <1>3 DEF Control, Packets, Syncs, AckSyncs
<1>4. ASSUME NEW m, Sends(m) PROVE SyncInv'
  BY <1>0, <1>4 DEF Sends, Packets, Syncs, AckSyncs
<1>5. ASSUME NEW a, Connects(a) PROVE SyncInv'
  BY <1>0, <1>5, ConnectsAlone DEF Connects, Packets, Syncs, AckSyncs
<1>6. ASSUME NEW a, Hears(a) PROVE SyncInv'
  BY <1>6 DEF Hears, Packets, Syncs, AckSyncs
<1>7. ASSUME NEW a, Tells(a) PROVE SyncInv'
  BY <1>0, <1>7 DEF Tells, Packets, Syncs, AckSyncs
<1>8. ASSUME NEW m, Synchronizes(m) PROVE SyncInv'
  BY <1>0, <1>8 DEF Synchronizes, Receivable, AckSync, Packets, Syncs, AckSyncs
<1>9. ASSUME NEW m, Deaf(m) PROVE SyncInv'
  BY <1>0, <1>9 DEF Deaf, Packets, Syncs, AckSyncs
<1>10. ASSUME NEW m, Takes(m) PROVE SyncInv'
  BY <1>0, <1>10 DEF Takes, Packets, Syncs, AckSyncs
<1> QED BY <1>1, <1>2, <1>3, <1>4, <1>5, <1>6, <1>7, <1>8, <1>9, <1>10 DEF Kinds

--------------------------------------------------------------------------------
\* Acknowledgements.  A datagram of the client tells exactly which packets it has had.
AcksTold ==
  /\ \A a \in AckSyncs : a.bits = acked \cap LongAck(a.front)
  /\ \A a \in Actions : /\ a.ack \in acked
                        /\ a.mask = {p \in acked : a.ack - AckBits <= p /\ p < a.ack}

\* The packets of a channel since it has its impulses carry them all.
CarriedWhole == \A m \in Packets : Carries(m) => m.impulses = Queue[Channel(m.packet)]

AckedInv == AcksTold /\ CarriedWhole

\* What the FE does when it hears that the client has had the packets of a set.
Dropped(packets) == {c \in Channels : Queue[c] # <<>> /\ Carried(c) \cap packets # {}}
HearsOf(packets) ==
  /\ \A c \in Channels : Queue'[c] = IF c \in Dropped(packets) THEN <<>> ELSE Queue[c]
  /\ confirmed' = confirmed \cup UNION {ToSet(Queue[c]) : c \in Dropped(packets)}

\* What it hears of: by a normal message of all, by an ACK_SYNC of what the long
\* ack covers.
HeardIn(a) ==
  IF a.type = "NORMAL" THEN {p \in acked : LastReceivedAck < p /\ p <= a.ack}
  ELSE {p \in acked \cap LongAck(a.front) : LastReceivedAck < p}

LEMMA HeardOf ==
  ASSUME CoreTypes, NEW P, P \subseteq {p \in acked : LastReceivedAck < p}, Acknowledge(P)
  PROVE  HearsOf(P)
<1>1. /\ Queue \in [Channels -> Seq(Nat)]
      /\ Queue' = [c \in Channels |-> IF c \in Flushed(P) THEN <<>> ELSE Queue[c]]
      /\ confirmed' = confirmed \cup UNION {ToSet(Queue[c]) : c \in Flushed(P)}
      /\ acked \subseteq Int /\ LastReceivedAck \in Int
  BY DEF Acknowledge, CoreTypes
<1>2. ASSUME NEW c \in Channels, Queue[c] # <<>>
      PROVE  c \in Flushed(P) <=> c \in Dropped(P)
  <2>1. c \in Flushed(P) <=> \E p \in P : Channel(p) = c /\ p >= FirstSent[c]
    BY DEF Flushed
  <2>2. c \in Dropped(P) <=> \E p \in P : p \in Carried(c)
    BY <1>2 DEF Dropped
  <2>3. \A p \in P : p \in Carried(c) <=> Channel(p) = c /\ p >= FirstSent[c]
    BY <1>1 DEF Carried
  <2> QED BY <2>1, <2>2, <2>3
<1>3. Flushed(P) \subseteq Channels /\ Dropped(P) \subseteq Channels
      /\ \A c \in Dropped(P) : Queue[c] # <<>>
  BY DEF Flushed, Dropped
<1>4. \A c \in Channels : Queue'[c] = IF c \in Dropped(P) THEN <<>> ELSE Queue[c]
  BY <1>1, <1>2, <1>3
<1>5. UNION {ToSet(Queue[c]) : c \in Flushed(P)} = UNION {ToSet(Queue[c]) : c \in Dropped(P)}
  <2>1. \A c \in Channels : \A i : i \in ToSet(Queue[c]) => Queue[c] # <<>>
    BY DEF ToSet
  <2> QED BY <1>2, <1>3, <2>1
<1> QED BY <1>1, <1>4, <1>5 DEF HearsOf

LEMMA ConnectsHearing ==
  ASSUME CoreTypes, SyncInv, AckedInv, NEW a, Connects(a)
  PROVE  /\ a.type = "ACK_SYNC" /\ LastReceivedAck' = a.front /\ HearsOf(HeardIn(a))
         /\ \A c \in Channels : Carried(c)' = {}
<1>1. a \in AckSyncs /\ a.type = "ACK_SYNC" /\ LastReceivedAck' = a.front /\ acked' = acked
  BY DEF Connects, AckSyncs, clientCore
<1>2. {p \in a.bits \cap LongAck(a.front) : LastReceivedAck < p} = HeardIn(a)
  BY <1>1 DEF AckedInv, AcksTold, HeardIn
<1>3. HearsOf(HeardIn(a))
  <2>1. Acknowledge(HeardIn(a))
    BY <1>2 DEF Connects
  <2>2. HeardIn(a) \subseteq {p \in acked : LastReceivedAck < p}
    BY <1>1 DEF HeardIn
  <2> QED BY <2>1, <2>2, HeardOf
<1>4. ASSUME NEW p \in acked PROVE p < a.front /\ p \in Int
  <2>1. PICK m \in Packets : m.packet = p
    BY DEF SyncInv, AckedPackets
  <2> QED BY <2>1, ConnectsAlone
<1>5. a.front \in Int
  BY <1>1 DEF CoreTypes, DatagramTypes
<1> QED BY <1>1, <1>3, <1>4, <1>5 DEF Carried

LEMMA HearsAll ==
  ASSUME CoreTypes, AckedInv, NEW a, Hears(a)
  PROVE  /\ a.type = "NORMAL" /\ LastReceivedAck' = a.ack /\ HearsOf(HeardIn(a))
         /\ \A c \in Channels : Carried(c)' = Carried(c) \ HeardIn(a)
         /\ \A c \in Channels : \A p \in Carried(c) : p \in HeardIn(a) <=> p <= a.ack
<1>1. a \in Actions /\ a.type = "NORMAL" /\ a.ack \in Int /\ LastReceivedAck' = a.ack
      /\ LastReceivedAck \in Int /\ acked \subseteq Int /\ AckBits \in Nat
      /\ acked' = acked /\ FirstSent' = FirstSent
  BY SizesAssumption DEF Hears, Actions, CoreTypes, DatagramTypes, clientCore, Acknowledge
<1>2. a.ack \in acked /\ a.mask = {p \in acked : a.ack - AckBits <= p /\ p < a.ack}
  BY <1>1 DEF AckedInv, AcksTold
<1>3. a.ack - LastReceivedAck <= AckBits + 1 /\ LastReceivedAck <= a.ack
  BY <1>1 DEF Hears, TooManyAcks
<1>4. {p \in a.mask \cup {a.ack} : LastReceivedAck < p} = HeardIn(a)
  <2>1. ASSUME NEW p \in acked, LastReceivedAck < p
        PROVE  p \in a.mask \cup {a.ack} <=> p <= a.ack
    BY <1>1, <1>2, <1>3, <2>1
  <2>2. a.mask \cup {a.ack} \subseteq acked
    BY <1>2
  <2> QED BY <1>1, <2>1, <2>2 DEF HeardIn
<1>5. HearsOf(HeardIn(a))
  <2>1. Acknowledge(HeardIn(a))
    BY <1>4 DEF Hears
  <2>2. HeardIn(a) \subseteq {p \in acked : LastReceivedAck < p}
    BY <1>1 DEF HeardIn
  <2> QED BY <2>1, <2>2, HeardOf
<1>6. ASSUME NEW c \in Channels, NEW p \in Carried(c) PROVE p \in HeardIn(a) <=> p <= a.ack
  BY <1>1 DEF HeardIn, Carried
<1>7. ASSUME NEW c \in Channels PROVE Carried(c)' = Carried(c) \ HeardIn(a)
  <2>1. Carried(c)' = {p \in acked : Channel(p) = c /\ p >= FirstSent[c] /\ p > a.ack}
    BY <1>1 DEF Carried
  <2>2. \A p \in acked : p > a.ack <=> p > LastReceivedAck /\ ~(LastReceivedAck < p /\ p <= a.ack)
    BY <1>1, <1>3
  <2> QED BY <1>1, <2>1, <2>2 DEF Carried, HeardIn
<1> QED BY <1>1, <1>5, <1>6, <1>7

--------------------------------------------------------------------------------
\* What the client keeps.  It is awaited exactly what the decoder keeps: in the
\* state Synchronize every packet, in the state Connected those with an
\* acknowledgement that is recent enough.
KeptWhenSynchronized ==
  clientState = "Synchronize" =>
    \A m \in Packets : Receivable(m) /\ m.impulses # <<>> => Awaited(m)
KeptAfterSync ==
  \A y \in Syncs, m \in Packets :
    Receivable(y) /\ y.packet < m.packet /\ m.impulses # <<>> => Awaited(m)
KeptWhenConnected ==
  clientState = "Connected" =>
    \A m \in Packets : Receivable(m) /\ m.impulses # <<>> => (Awaited(m) <=> Keeps(m, LastAck))

\* A Connected FE whose client is not yet Connected waits for no acknowledgement of
\* a packet that the client has had.
FreshStart ==
  Connected /\ clientState # "Connected" =>
    \A c \in Channels : Queue[c] # <<>> => Carried(c) = {}

\* When both are Connected, the FE has heard of what the client kept last on a
\* channel exactly if it has dropped it there ...
BothConnected == Connected /\ clientState = "Connected"
HeardWhenDropped ==
  BothConnected => \A c \in Channels :
    (Queue[c] = <<>> \/ Carried(c) = {}) <=> ReceiveNumber >= LastAck[c]
\* ... and of the datagrams of the client just those after it tell of it.
ToldAfterwards ==
  BothConnected => \A c \in Channels : Queue[c] # <<>> /\ Carried(c) # {} =>
    \A a \in Actions : a.number >= LastAck[c] <=> \E p \in Carried(c) : p <= a.ack

KeepInv == KeptWhenSynchronized /\ KeptAfterSync /\ KeptWhenConnected /\ FreshStart
             /\ HeardWhenDropped /\ ToldAfterwards

\* The part of the invariant that is about the protocol, and not about what
\* the impulses are.
LinkInv == CoreTypes /\ SyncInv /\ AckedInv /\ KeepInv

\* What leaves the queues, the packets and the client alone keeps it.
LEMMA CalmStep ==
  ASSUME LinkInv, \/ Quiet \/ Posts \/ \E m : Control(m)
  PROVE  AckedInv' /\ KeepInv'
<1> USE DEF LinkInv, AckedInv, AcksTold, CarriedWhole, KeepInv, KeptWhenSynchronized,
            KeptAfterSync, KeptWhenConnected, FreshStart, HeardWhenDropped, ToldAfterwards,
            BothConnected, Connected, Carried, Carries, Awaited, Receivable, Keeps, feCore, clientCore
<1>1. CASE Quiet
  BY <1>1 DEF Quiet, Packets, Syncs, AckSyncs, Actions
<1>2. CASE Posts
  BY <1>2 DEF Posts, Packets, Syncs, AckSyncs, Actions
<1>3. ASSUME NEW m, Control(m) PROVE AckedInv' /\ KeepInv'
  <2>1. /\ Packets' = Packets /\ AckSyncs' = AckSyncs /\ Actions' = Actions
        /\ Syncs' \subseteq Syncs \cup {m}
    BY <1>3 DEF Control, Packets, Syncs, AckSyncs, Actions
  <2>2. \A n \in Packets : n.packet < m.packet
    BY <1>3 DEF Control, CoreTypes, DatagramTypes, Packets
  <2>3. /\ ConnectionState' # "Connected"
        /\ UNCHANGED <<ReceiveNumber, LastReceivedAck, Queue, FirstSent, clientState,
                       CurrentSendNumber, LastReceivedNumber, acked, LastAck>>
    BY <1>3 DEF Control
  <2>4. AckedInv'
    BY <2>1, <2>3
  <2>5. SendNumber \in Nat /\ m.packet = SendNumber + 1 /\ \A n \in Packets : n.packet \in 1 .. SendNumber
    BY <1>3 DEF Control, CoreTypes, DatagramTypes, Packets
  <2>6. KeptAfterSync'
    BY <2>1, <2>3, <2>5
  <2> QED BY <2>1, <2>3, <2>4, <2>6
<1> QED BY <1>1, <1>2, <1>3

\* A packet sent carries what the client still misses exactly if the channel
\* held it so, and does not change what the packets before it carry.
LEMMA SendStep ==
  ASSUME LinkInv, NEW m, Sends(m)
  PROVE  AckedInv' /\ KeepInv'
<1> DEFINE c == Channel(m.packet)
<1>0. SendNumber \in Nat /\ LastReceivedNumber \in 0 .. SendNumber /\ ReceiveNumber \in Int
  BY DEF LinkInv, CoreTypes
<1>1. /\ c \in Channels /\ m.packet = SendNumber + 1 /\ m.ack = ReceiveNumber /\ m.type = "NORMAL"
      /\ Connected /\ Connected' /\ toClient' = toClient \cup {m}
  <2>1. SendNumber + 1 \in Nat /\ m.packet = SendNumber + 1
    BY <1>0 DEF Sends
  <2> QED BY <2>1, ChannelType DEF Sends, Connected
<1>2. /\ UNCHANGED <<ReceiveNumber, LastReceivedAck, clientState, CurrentSendNumber,
                     LastReceivedNumber, acked, LastAck, toServer>>
      /\ m.impulses = Filled(c)
      /\ Queue' = [Queue EXCEPT ![c] = m.impulses]
      /\ FirstSent' = [FirstSent EXCEPT ![c] = IF Queue[c] = <<>> THEN m.packet ELSE @]
  BY DEF Sends, clientCore
<1>3. /\ Queue \in [Channels -> Seq(Nat)] /\ FirstSent \in [Channels -> 0 .. SendNumber]
      /\ acked \subseteq 1 .. SendNumber /\ \A n \in toClient : n.packet \in 1 .. SendNumber
  BY DEF LinkInv, CoreTypes, DatagramTypes
<1>4. /\ Packets' = Packets \cup {m} /\ Syncs' = Syncs /\ AckSyncs' = AckSyncs /\ Actions' = Actions
  BY <1>1, <1>2 DEF Packets, Syncs, AckSyncs, Actions
<1> HIDE DEF c
<1>5. \A d \in Channels : d # c => Queue'[d] = Queue[d] /\ Carried(d)' = Carried(d)
  BY <1>1, <1>2, <1>3 DEF Carried
<1>6. Queue[c] # <<>> => Queue'[c] = Queue[c] /\ FirstSent'[c] = FirstSent[c] /\ Carried(c)' = Carried(c)
  BY <1>1, <1>2, <1>3 DEF Carried, Filled
<1>7. Queue[c] = <<>> => FirstSent'[c] = m.packet /\ Carried(c)' = {}
  <2>1. Queue[c] = <<>> => FirstSent'[c] = SendNumber + 1
    BY <1>1, <1>2, <1>3
  <2>2. \A p \in acked' : p \in Int /\ p < SendNumber + 1
    <3>1. acked' = acked
      BY <1>2
    <3>2. \A p \in acked : p \in 1 .. SendNumber
      BY <1>3
    <3> QED BY <1>0, <3>1, <3>2
  <2> QED BY <1>0, <1>1, <2>1, <2>2 DEF Carried
<1>8. /\ Queue'[c] = m.impulses /\ m.packet >= FirstSent'[c] /\ Channel(m.packet) = c
      /\ \A n \in Packets : n \in toClient /\ n.packet \in Nat /\ n.packet < m.packet
                            /\ Channel(n.packet) \in Channels
  <2>1. Queue'[c] = m.impulses /\ Channel(m.packet) = c
    BY <1>1, <1>2, <1>3 DEF c
  <2>2. m.packet >= FirstSent'[c]
    <3>1. FirstSent[c] \in 0 .. SendNumber
      BY <1>1, <1>3
    <3> QED BY <1>0, <1>1, <1>6, <1>7, <3>1
  <2>3. ASSUME NEW n \in Packets
        PROVE  n \in toClient /\ n.packet \in Nat /\ n.packet < m.packet
    BY <1>0, <1>1, <1>3 DEF Packets
  <2> QED BY <2>1, <2>2, <2>3, ChannelType
<1>9. \A n \in Packets : /\ Carries(n)' <=> Carries(n)
                         /\ Awaited(n)' <=> Awaited(n)
                         /\ Carries(n) => Queue'[Channel(n.packet)] = Queue[Channel(n.packet)]
  <2> SUFFICES ASSUME NEW n \in Packets
               PROVE  /\ Carries(n)' <=> Carries(n)
                      /\ Awaited(n)' <=> Awaited(n)
                      /\ Carries(n) => Queue'[Channel(n.packet)] = Queue[Channel(n.packet)]
    OBVIOUS
  <2>1. CASE Channel(n.packet) # c
    <3>1. FirstSent'[Channel(n.packet)] = FirstSent[Channel(n.packet)]
      BY <1>2, <1>3, <1>8, <2>1
    <3> QED BY <1>5, <1>8, <2>1, <3>1 DEF Carries, Awaited
  <2>2. CASE Channel(n.packet) = c /\ Queue[c] # <<>>
    BY <1>6, <2>2 DEF Carries, Awaited
  <2>3. CASE Channel(n.packet) = c /\ Queue[c] = <<>>
    <3>1. n.packet < FirstSent'[c] /\ n.packet \in Nat /\ FirstSent'[c] \in Nat
      BY <1>0, <1>1, <1>7, <1>8, <2>3
    <3>2. ~Carries(n) /\ ~Carries(n)'
      BY <2>3, <3>1 DEF Carries
    <3> QED BY <3>2 DEF Awaited
  <2> QED BY <2>1, <2>2, <2>3
<1>10. m.impulses # <<>> => (Awaited(m)' <=> Queue[c] = <<>> \/ Carried(c) = {})
  BY <1>6, <1>7, <1>8 DEF Awaited, Carries
<1>11. \A d \in Channels : (Queue'[d] = <<>> \/ Carried(d)' = {}) <=> (Queue[d] = <<>> \/ Carried(d) = {})
  BY <1>5, <1>6, <1>7
<1>12. AcksTold'
  BY <1>2, <1>4 DEF LinkInv, AckedInv, AcksTold
<1>13. CarriedWhole'
  <2>1. \A n \in Packets : Carries(n)' => n.impulses = Queue'[Channel(n.packet)]
    BY <1>9 DEF LinkInv, AckedInv, CarriedWhole
  <2> QED BY <1>4, <1>8, <2>1 DEF CarriedWhole
<1>15. clientState # "Connected" /\ m.impulses # <<>> => Awaited(m)'
  BY <1>1, <1>10 DEF LinkInv, KeepInv, FreshStart
<1>16. KeptWhenSynchronized'
  <2>1. clientState = "Synchronize" =>
          \A n \in Packets : n.packet > LastReceivedNumber /\ n.impulses # <<>> => Awaited(n)'
    BY <1>9 DEF LinkInv, KeepInv, KeptWhenSynchronized, Receivable
  <2> QED BY <1>2, <1>4, <1>15, <2>1 DEF KeptWhenSynchronized, Receivable
<1>17. KeptAfterSync'
  <2>1. ASSUME clientState = "Connected", NEW y \in Syncs PROVE ~Receivable(y)
    <3>1. y \in toClient /\ y.type # "NORMAL" /\ y.packet \in Int /\ LastReceivedNumber \in Int
      BY <1>0, <1>3 DEF Syncs
    <3>2. y.packet < LastReceivedNumber
      BY <1>1, <2>1, <3>1 DEF LinkInv, SyncInv, PacketsComeLast
    <3> QED BY <3>1, <3>2 DEF Receivable
  <2>2. \A y \in Syncs, n \in Packets :
          Receivable(y) /\ y.packet < n.packet /\ n.impulses # <<>> => Awaited(n)'
    BY <1>9 DEF LinkInv, KeepInv, KeptAfterSync
  <2> QED BY <1>2, <1>4, <1>15, <2>1, <2>2 DEF KeptAfterSync, Receivable
<1>18. KeptWhenConnected'
  <2>1. clientState = "Connected" =>
          \A n \in Packets : n.packet > LastReceivedNumber /\ n.impulses # <<>>
                              => (Awaited(n)' <=> Keeps(n, LastAck))
    BY <1>9 DEF LinkInv, KeepInv, KeptWhenConnected, Receivable
  <2>2. clientState = "Connected" /\ m.impulses # <<>> => (Awaited(m)' <=> Keeps(m, LastAck))
    <3>1. clientState = "Connected" =>
            (Queue[c] = <<>> \/ Carried(c) = {} <=> ReceiveNumber >= LastAck[c])
      BY <1>1 DEF LinkInv, KeepInv, HeardWhenDropped, BothConnected
    <3> QED BY <1>1, <1>8, <1>10, <3>1 DEF Keeps
  <2> QED BY <1>2, <1>4, <2>1, <2>2 DEF KeptWhenConnected, Receivable, Keeps
<1>19. FreshStart'
  BY <1>1, <1>2, <1>11 DEF LinkInv, KeepInv, FreshStart, Connected
<1>20. HeardWhenDropped'
  BY <1>1, <1>2, <1>11 DEF LinkInv, KeepInv, HeardWhenDropped, BothConnected, Connected
<1>21. ToldAfterwards'
  BY <1>1, <1>2, <1>4, <1>5, <1>6, <1>7, <1>11
     DEF LinkInv, KeepInv, ToldAfterwards, BothConnected, Connected
<1> QED BY <1>12, <1>13, <1>16, <1>17, <1>18, <1>19, <1>20, <1>21 DEF AckedInv, KeepInv

\* Whatever the FE hears, a channel drops its impulses only when the client has
\* had them, so nothing changes for the packets on their way.
LEMMA HearStep ==
  ASSUME LinkInv, NEW a, Connects(a) \/ Hears(a)
  PROVE  AckedInv' /\ KeepInv'
<1>1. UNCHANGED <<toClient, FirstSent, clientState, CurrentSendNumber, LastReceivedNumber, acked,
                 LastAck, toServer>>
  BY DEF Connects, Hears, clientCore, Acknowledge
<1>2. Packets' = Packets /\ Syncs' = Syncs /\ AckSyncs' = AckSyncs /\ Actions' = Actions
  BY <1>1 DEF Packets, Syncs, AckSyncs, Actions
<1>3. /\ HearsOf(HeardIn(a))
      /\ Connects(a) => \A c \in Channels : Carried(c)' = {}
      /\ Hears(a) => /\ a.type = "NORMAL"
                     /\ \A c \in Channels : Carried(c)' = Carried(c) \ HeardIn(a)
                     /\ \A c \in Channels : \A p \in Carried(c) : p \in HeardIn(a) <=> p <= a.ack
  BY ConnectsHearing, HearsAll DEF LinkInv
<1> DEFINE D == Dropped(HeardIn(a))
<1>4. /\ \A c \in Channels : Queue'[c] = IF c \in D THEN <<>> ELSE Queue[c]
      /\ \A c \in Channels : c \in D <=> Queue[c] # <<>> /\ Carried(c) \cap HeardIn(a) # {}
  BY <1>3 DEF HearsOf, Dropped
<1> HIDE DEF D
<1>5. \A m \in Packets : Channel(m.packet) \in Channels /\ m.packet \in Nat
  <2>1. \A m \in toClient : m.packet \in 1 .. SendNumber
    BY DEF LinkInv, CoreTypes, DatagramTypes
  <2> QED BY <2>1, ChannelType DEF Packets
<1>6. AckedInv'
  <2>1. AcksTold'
    BY <1>1, <1>2 DEF LinkInv, AckedInv, AcksTold
  <2>2. CarriedWhole'
    BY <1>1, <1>2, <1>4, <1>5 DEF LinkInv, AckedInv, CarriedWhole, Carries
  <2> QED BY <2>1, <2>2 DEF AckedInv
<1>7. CASE Connects(a)
  <2>1. clientState # "Connected" /\ a.front <= LastReceivedNumber
        /\ \A m \in Packets : m.packet < a.front /\ m.packet \in Nat
        /\ a.front \in Nat /\ LastReceivedNumber \in Nat
    BY <1>7, ConnectsAlone DEF LinkInv, CoreTypes
  <2>2. \A m \in Packets : ~Receivable(m)
    BY <2>1 DEF Receivable
  <2>3. KeptWhenSynchronized' /\ KeptWhenConnected'
    BY <1>1, <1>2, <2>1, <2>2 DEF KeptWhenSynchronized, KeptWhenConnected, Receivable
  <2>4. KeptAfterSync'
    <3>1. \A y \in Syncs : y.packet \in Int
      BY DEF LinkInv, CoreTypes, DatagramTypes, Syncs
    <3> QED BY <1>1, <1>2, <2>1, <2>2, <3>1 DEF KeptAfterSync, Receivable
  <2>5. FreshStart'
    BY <1>3, <1>7 DEF FreshStart
  <2>6. HeardWhenDropped' /\ ToldAfterwards'
    BY <1>1, <2>1 DEF HeardWhenDropped, ToldAfterwards, BothConnected
  <2> QED BY <1>6, <2>3, <2>4, <2>5, <2>6 DEF KeepInv
<1>8. CASE Hears(a)
  <2>1. /\ a \in Actions /\ Connected /\ Connected' /\ ReceiveNumber \in Int
        /\ ReceiveNumber' = a.number /\ a.number > ReceiveNumber /\ a.number \in Int
        /\ LastAck \in [Channels -> Int]
    <3>1. LastAck \in [Channels -> -1 .. CurrentSendNumber]
      BY DEF LinkInv, CoreTypes
    <3> QED BY <1>8, <3>1 DEF Hears, Connected, LinkInv, CoreTypes, DatagramTypes, Actions
  <2>2. \A c \in Channels : c \notin D /\ Queue[c] # <<>> => Carried(c)' = Carried(c)
    BY <1>3, <1>4, <1>8
  <2>3. \A m \in Packets : Awaited(m)' <=> Awaited(m)
    BY <1>1, <1>4, <1>5, <2>2 DEF Awaited, Carries
  <2>4. KeptWhenSynchronized' /\ KeptAfterSync' /\ KeptWhenConnected'
    BY <1>1, <1>2, <2>3
       DEF LinkInv, KeepInv, KeptWhenSynchronized, KeptAfterSync, KeptWhenConnected, Receivable, Keeps
  <2>5. FreshStart'
    BY <1>1, <1>4, <2>1, <2>2 DEF LinkInv, KeepInv, FreshStart, Connected
  <2>6. HeardWhenDropped'
    <3>1. ASSUME clientState = "Connected", NEW c \in Channels
          PROVE  (Queue'[c] = <<>> \/ Carried(c)' = {}) <=> a.number >= LastAck[c]
      <4>1. (Queue[c] = <<>> \/ Carried(c) = {}) <=> ReceiveNumber >= LastAck[c]
        BY <2>1, <3>1 DEF LinkInv, KeepInv, HeardWhenDropped, BothConnected
      <4>2. Queue[c] # <<>> /\ Carried(c) # {} =>
              (a.number >= LastAck[c] <=> \E p \in Carried(c) : p <= a.ack)
        BY <2>1, <3>1 DEF LinkInv, KeepInv, ToldAfterwards, BothConnected
      <4>3. Queue[c] # <<>> => (c \in D <=> \E p \in Carried(c) : p <= a.ack)
        BY <1>3, <1>4, <1>8
      <4>4. LastAck[c] \in Int
        BY <2>1
      <4> QED BY <1>4, <2>1, <2>2, <4>1, <4>2, <4>3, <4>4
    <3> QED BY <1>1, <2>1, <3>1 DEF HeardWhenDropped, BothConnected
  <2>7. ToldAfterwards'
    BY <1>1, <1>2, <1>4, <2>1, <2>2 DEF LinkInv, KeepInv, ToldAfterwards, BothConnected, Connected
  <2> QED BY <1>6, <2>4, <2>5, <2>6, <2>7 DEF KeepInv
<1> QED BY <1>7, <1>8

\* The client sends a datagram.
LEMMA TellStep ==
  ASSUME LinkInv, NEW a, Tells(a)
  PROVE  AckedInv' /\ KeepInv'
<1>1. /\ UNCHANGED <<ConnectionState, ReceiveNumber, LastReceivedAck, Queue, FirstSent, toClient,
                     clientState, LastReceivedNumber, LatestSync, acked, LastAck>>
      /\ toServer' = toServer \cup {a} /\ a.number = CurrentSendNumber
  BY DEF Tells, feState, feCore
<1>2. Packets' = Packets /\ Syncs' = Syncs
  BY <1>1 DEF Packets, Syncs
<1>3. CurrentSendNumber \in Nat /\ LastAck \in [Channels -> -1 .. CurrentSendNumber]
      /\ acked \subseteq 1 .. LastReceivedNumber /\ LastReceivedNumber \in 0 .. SendNumber
      /\ SendNumber \in Nat /\ AckBits \in Nat
  BY SizesAssumption DEF LinkInv, CoreTypes
<1>4. AcksTold'
  <2>1. a.type = "ACK_SYNC" => a.bits = acked \cap LongAck(a.front)
    BY DEF Tells
  <2>2. a.type = "NORMAL" => /\ a.ack \in acked
                             /\ a.mask = {p \in acked : a.ack - AckBits <= p /\ p < a.ack}
    <3>1. SUFFICES ASSUME a.type = "NORMAL"
                   PROVE  /\ a.ack \in acked
                          /\ a.mask = {p \in acked : a.ack - AckBits <= p /\ p < a.ack}
      OBVIOUS
    <3>2. /\ clientState = "Connected" /\ a.ack = LastReceivedNumber
          /\ a.mask = acked \cap (a.ack - AckBits .. a.ack - 1)
      BY <3>1 DEF Tells
    <3>3. a.ack \in acked
      BY <3>2 DEF LinkInv, SyncInv, AckedPackets
    <3>4. ASSUME NEW p \in acked
          PROVE  p \in a.ack - AckBits .. a.ack - 1 <=> a.ack - AckBits <= p /\ p < a.ack
      BY <1>3, <3>2
    <3> QED BY <3>2, <3>3, <3>4
  <2>3. AckSyncs' \subseteq AckSyncs \cup {a} /\ (a.type # "ACK_SYNC" => AckSyncs' = AckSyncs)
        /\ Actions' \subseteq Actions \cup {a} /\ (a.type # "NORMAL" => Actions' = Actions)
    BY <1>1 DEF AckSyncs, Actions
  <2> QED BY <1>1, <2>1, <2>2, <2>3 DEF LinkInv, AckedInv, AcksTold
<1>5. CarriedWhole' /\ KeptWhenSynchronized' /\ KeptAfterSync' /\ KeptWhenConnected'
      /\ FreshStart' /\ HeardWhenDropped'
  BY <1>1, <1>2
     DEF LinkInv, AckedInv, KeepInv, CarriedWhole, KeptWhenSynchronized, KeptAfterSync,
         KeptWhenConnected, FreshStart, HeardWhenDropped, BothConnected, Connected, Carried, Carries,
         Awaited, Receivable, Keeps
<1>6. ToldAfterwards'
  <2>1. SUFFICES ASSUME BothConnected, NEW c \in Channels, Queue[c] # <<>>, Carried(c) # {},
                        NEW b \in Actions'
                 PROVE  b.number >= LastAck[c] <=> \E p \in Carried(c) : p <= b.ack
    BY <1>1 DEF ToldAfterwards, BothConnected, Connected, Carried
  <2>2. CASE b \in Actions
    BY <2>1, <2>2 DEF LinkInv, KeepInv, ToldAfterwards
  <2>3. CASE b \notin Actions
    <3>1. b = a /\ b.type = "NORMAL"
      BY <1>1, <2>1, <2>3 DEF Actions
    <3>2. b.ack = LastReceivedNumber /\ b.number = CurrentSendNumber
      BY <3>1 DEF Tells
    <3>3. \A p \in Carried(c) : p \in 1 .. LastReceivedNumber
      BY <1>3 DEF Carried
    <3>4. \E p \in Carried(c) : p <= b.ack
      BY <1>3, <2>1, <3>2, <3>3
    <3>5. b.number >= LastAck[c]
      BY <1>3, <3>2
    <3> QED BY <3>4, <3>5
  <2> QED BY <2>2, <2>3
<1> QED BY <1>4, <1>5, <1>6 DEF AckedInv, KeepInv

\* The client decodes a datagram that is not a packet it takes.
LEMMA PassStep ==
  ASSUME LinkInv, NEW m, Synchronizes(m) \/ Deaf(m)
  PROVE  AckedInv' /\ KeepInv'
<1>1. /\ UNCHANGED <<ConnectionState, ReceiveNumber, LastReceivedAck, Queue, FirstSent, toClient,
                     acked, LastAck>>
      /\ LastReceivedNumber' = m.packet /\ m \in toClient /\ m.packet > LastReceivedNumber
      /\ clientState' # "Connected"
  BY DEF Synchronizes, Deaf, feState, feCore, Receivable, Syncs
<1>2. Packets' = Packets /\ Syncs' = Syncs
  BY <1>1 DEF Packets, Syncs
<1>3. /\ LastReceivedNumber \in 0 .. SendNumber /\ SendNumber \in Nat /\ m.packet \in Nat
      /\ acked \subseteq 1 .. LastReceivedNumber
      /\ \A n \in toClient : n.packet \in Nat
  BY <1>1 DEF LinkInv, CoreTypes, DatagramTypes
<1>4. Actions' = Actions
      /\ (Deaf(m) => AckSyncs' = AckSyncs)
      /\ (Synchronizes(m) => AckSyncs' = AckSyncs \cup
            {AckSync(CurrentSendNumber, m.packet, acked \cap LongAck(m.packet), m.code)})
  BY DEF Synchronizes, Deaf, Actions, AckSyncs, AckSync
<1>5. AcksTold'
  BY <1>1, <1>4 DEF LinkInv, AckedInv, AcksTold, AckSync
<1>6. CarriedWhole' /\ KeptWhenConnected' /\ HeardWhenDropped' /\ ToldAfterwards'
  BY <1>1, <1>2
     DEF LinkInv, AckedInv, CarriedWhole, KeptWhenConnected, HeardWhenDropped,
         ToldAfterwards, BothConnected, Carried, Carries
<1>7. KeptAfterSync'
  BY <1>1, <1>2, <1>3
     DEF LinkInv, KeepInv, KeptAfterSync, Receivable, Awaited, Carries, Carried, Syncs
<1>8. KeptWhenSynchronized'
  <2>1. SUFFICES ASSUME clientState' = "Synchronize", NEW n \in Packets, n.packet > m.packet,
                        n.impulses # <<>>
                 PROVE  Awaited(n)
    BY <1>1, <1>2 DEF KeptWhenSynchronized, Receivable, Awaited, Carries, Carried
  <2>2. m \in Syncs /\ Receivable(m)
    BY <2>1 DEF Synchronizes, Deaf
  <2> QED BY <2>1, <2>2, <1>3 DEF LinkInv, KeepInv, KeptAfterSync
<1>9. FreshStart'
  <2>1. Connected => clientState # "Connected"
    <3>1. ASSUME Connected, clientState = "Connected" PROVE FALSE
      <4>1. m.type # "NORMAL"
        BY <3>1 DEF Synchronizes, Deaf, Syncs
      <4>2. m.packet < LastReceivedNumber
        BY <1>1, <3>1, <4>1 DEF LinkInv, SyncInv, PacketsComeLast
      <4> QED BY <1>1, <1>3, <4>2
    <3> QED BY <3>1
  <2> QED BY <1>1, <2>1 DEF LinkInv, KeepInv, FreshStart, Connected, Carried
<1> QED BY <1>5, <1>6, <1>7, <1>8, <1>9 DEF AckedInv, KeepInv

\* The decoder that is reset by the first packet after a SYNC keeps just what is
\* awaited, as the one of a client that is Connected does.
LEMMA ResetKeeps ==
  ASSUME LinkInv, clientState \in {"Synchronize", "Connected"}
  PROVE  /\ Before \in [Channels -> -1 .. CurrentSendNumber]
         /\ \A n \in Packets : Receivable(n) /\ n.impulses # <<>> => (Awaited(n) <=> Keeps(n, Before))
         /\ Connected => \A d \in Channels :
              (Queue[d] = <<>> \/ Carried(d) = {}) <=> ReceiveNumber >= Before[d]
         /\ Connected => \A d \in Channels : Queue[d] # <<>> /\ Carried(d) # {} =>
              \A b \in Actions : b.number >= Before[d] <=> \E p \in Carried(d) : p <= b.ack
<1>1. /\ CurrentSendNumber \in Nat /\ LastAck \in [Channels -> -1 .. CurrentSendNumber]
      /\ ReceiveNumber \in -1 .. CurrentSendNumber - 1
      /\ \A n \in Packets : n.ack \in -1 .. ReceiveNumber /\ n.packet \in Nat
  BY DEF LinkInv, CoreTypes, DatagramTypes, Packets
<1>2. CASE clientState = "Connected"
  <2>1. Before = LastAck
    BY <1>2 DEF Before
  <2> QED BY <1>1, <1>2, <2>1
             DEF LinkInv, KeepInv, KeptWhenConnected, HeardWhenDropped, ToldAfterwards, BothConnected
<1>3. CASE clientState = "Synchronize"
  <2>1. Before = [c \in Channels |-> -1]
    BY <1>3 DEF Before
  <2>2. \A n \in Packets : Channel(n.packet) \in Channels
    BY <1>1, ChannelType
  <2>3. \A n \in Packets : Keeps(n, Before)
    BY <1>1, <2>1, <2>2 DEF Keeps
  <2>4. \A n \in Packets : Receivable(n) /\ n.impulses # <<>> => Awaited(n)
    BY <1>3 DEF LinkInv, KeepInv, KeptWhenSynchronized
  <2>5. Connected => \A d \in Channels : Queue[d] # <<>> => Carried(d) = {}
    BY <1>3 DEF LinkInv, KeepInv, FreshStart
  <2>6. \A d \in Channels : ReceiveNumber >= Before[d]
    BY <1>1, <2>1
  <2>7. Before \in [Channels -> -1 .. CurrentSendNumber]
    BY <1>1, <2>1
  <2> QED BY <2>3, <2>4, <2>5, <2>6, <2>7
<1> QED BY <1>2, <1>3

\* What a packet that the client takes changes of what it has had: nothing, or
\* it has the impulses of the channel of the packet, which it was waiting for.
KeptBy(m) == m.impulses # <<>> /\ Keeps(m, Before)

LEMMA Taking ==
  ASSUME LinkInv, NEW m, Takes(m)
  PROVE  /\ Channel(m.packet) \in Channels
         /\ \A d \in Channels : d # Channel(m.packet) => Carried(d)' = Carried(d)
         /\ Carried(Channel(m.packet))' \subseteq Carried(Channel(m.packet)) \cup {m.packet}
         /\ Carried(Channel(m.packet)) \subseteq Carried(Channel(m.packet))'
         /\ KeptBy(m) => /\ Queue[Channel(m.packet)] = m.impulses
                         /\ m.packet >= FirstSent[Channel(m.packet)]
                         /\ Carried(Channel(m.packet)) = {}
                         /\ Carried(Channel(m.packet))' = {m.packet}
         /\ ~KeptBy(m) /\ Queue[Channel(m.packet)] # <<>> =>
              (Carried(Channel(m.packet))' = {} <=> Carried(Channel(m.packet)) = {})
<1> DEFINE c == Channel(m.packet)
<1>1. /\ m \in Packets /\ Receivable(m) /\ acked' = acked \cup {m.packet} /\ FirstSent' = FirstSent
      /\ clientState \in {"Synchronize", "Connected"}
  BY DEF Takes, feState, feCore
<1>2. m.packet \in Nat /\ c \in Channels /\ m.packet > LastReceivedAck
  <2>1. m.packet \in 1 .. SendNumber
    BY <1>1 DEF LinkInv, CoreTypes, DatagramTypes, Packets
  <2>2. LastReceivedAck \in -1 .. LastReceivedNumber /\ LastReceivedNumber \in Nat
    BY DEF LinkInv, CoreTypes
  <2> QED BY <1>1, <2>1, <2>2, ChannelType DEF Receivable
<1>3. \A d \in Channels : Carried(d)' =
        {p \in acked \cup {m.packet} : Channel(p) = d /\ p >= FirstSent[d] /\ p > LastReceivedAck}
  BY <1>1 DEF Carried, Takes, feState, feCore
<1>4. \A d \in Channels : d # c => Carried(d)' = Carried(d)
  BY <1>3 DEF Carried
<1>5. Carried(c)' = IF m.packet >= FirstSent[c] THEN Carried(c) \cup {m.packet} ELSE Carried(c)
  BY <1>2, <1>3 DEF Carried
<1>6. m.impulses # <<>> => (Awaited(m) <=> Keeps(m, Before))
  BY <1>1, ResetKeeps
<1>7. Carries(m) => m.impulses = Queue[c]
  BY <1>1 DEF LinkInv, AckedInv, CarriedWhole
<1>8. Carries(m) <=> Queue[c] # <<>> /\ m.packet >= FirstSent[c]
  BY DEF Carries
<1>9. Awaited(m) <=> Carries(m) /\ Carried(c) = {}
  BY DEF Awaited
<1>10. KeptBy(m) => /\ Queue[c] = m.impulses /\ m.packet >= FirstSent[c]
                    /\ Carried(c) = {} /\ Carried(c)' = {m.packet}
  BY <1>5, <1>6, <1>7, <1>8, <1>9 DEF KeptBy
<1>11. ~KeptBy(m) /\ Queue[c] # <<>> => (Carried(c)' = {} <=> Carried(c) = {})
  BY <1>5, <1>6, <1>7, <1>8, <1>9 DEF KeptBy
<1> QED BY <1>2, <1>4, <1>5, <1>10, <1>11

LEMMA TakeStep ==
  ASSUME LinkInv, NEW m, Takes(m)
  PROVE  AckedInv' /\ KeepInv'
<1> DEFINE c == Channel(m.packet)
<1>1. /\ UNCHANGED <<ConnectionState, ReceiveNumber, LastReceivedAck, Queue, FirstSent, toClient,
                     CurrentSendNumber, toServer>>
      /\ LastReceivedNumber' = m.packet /\ m \in Packets /\ m.packet > LastReceivedNumber
      /\ clientState \in {"Synchronize", "Connected"} /\ clientState' = "Connected"
      /\ acked' = acked \cup {m.packet}
      /\ Packets' = Packets /\ Syncs' = Syncs /\ Actions' = Actions /\ AckSyncs' = AckSyncs
  BY DEF Takes, feState, feCore, Receivable, Packets, Syncs, Actions, AckSyncs
<1>2. LastAck' = IF KeptBy(m) THEN [Before EXCEPT ![c] = CurrentSendNumber] ELSE Before
  BY DEF Takes, Decode, KeptBy
<1>3. /\ LastReceivedNumber \in Nat /\ CurrentSendNumber \in Nat /\ m.packet \in Nat
      /\ LastReceivedAck \in -1 .. LastReceivedNumber /\ ReceiveNumber \in -1 .. CurrentSendNumber - 1
      /\ acked \subseteq 1 .. LastReceivedNumber
      /\ \A n \in Packets : n.packet \in Nat /\ n.ack \in -1 .. ReceiveNumber
      /\ \A b \in Actions : b.number \in 0 .. CurrentSendNumber - 1 /\ b.ack \in 0 .. LastReceivedNumber
      /\ \A b \in AckSyncs : b.front \in 0 .. LastReceivedNumber
      /\ \A y \in toClient : y.packet \in Nat
  BY <1>1 DEF LinkInv, CoreTypes, DatagramTypes, Packets, Actions, AckSyncs
<1>4. /\ c \in Channels
      /\ \A d \in Channels : d # c => Carried(d)' = Carried(d)
      /\ Carried(c)' \subseteq Carried(c) \cup {m.packet} /\ Carried(c) \subseteq Carried(c)'
      /\ KeptBy(m) => /\ Queue[c] = m.impulses /\ m.packet >= FirstSent[c]
                      /\ Carried(c) = {} /\ Carried(c)' = {m.packet}
      /\ ~KeptBy(m) /\ Queue[c] # <<>> => (Carried(c)' = {} <=> Carried(c) = {})
  BY Taking DEF Carried
<1>5. /\ Before \in [Channels -> -1 .. CurrentSendNumber]
      /\ \A n \in Packets : Receivable(n) /\ n.impulses # <<>> => (Awaited(n) <=> Keeps(n, Before))
      /\ Connected => \A d \in Channels :
           (Queue[d] = <<>> \/ Carried(d) = {}) <=> ReceiveNumber >= Before[d]
      /\ Connected => \A d \in Channels : Queue[d] # <<>> /\ Carried(d) # {} =>
           \A b \in Actions : b.number >= Before[d] <=> \E p \in Carried(d) : p <= b.ack
  BY <1>1, ResetKeeps
<1> HIDE DEF c
<1>6. KeptBy(m) => m.impulses # <<>>
  BY DEF KeptBy
<1>7. AcksTold'
  <2>1. ASSUME NEW b \in AckSyncs PROVE acked' \cap LongAck(b.front) = acked \cap LongAck(b.front)
    <3>1. b.front < m.packet /\ b.front \in Int
      BY <1>1, <1>3
    <3>2. \A p \in LongAck(b.front) : p \in Int /\ p <= b.front
      BY <3>1, SizesAssumption DEF LongAck
    <3> QED BY <1>1, <1>3, <3>1, <3>2
  <2>2. \A b \in Actions : b.ack < m.packet /\ b.ack \in Int
    BY <1>1, <1>3
  <2> QED BY <1>1, <1>3, <2>1, <2>2 DEF LinkInv, AckedInv, AcksTold
<1>8. CarriedWhole'
  BY <1>1 DEF LinkInv, AckedInv, CarriedWhole, Carries
<1>10. KeptWhenSynchronized' /\ FreshStart'
  BY <1>1 DEF KeptWhenSynchronized, FreshStart
<1>11. KeptAfterSync'
  <2>1. ASSUME NEW y \in Syncs, NEW n \in Packets, y.packet > m.packet, y.packet < n.packet
        PROVE  FALSE
    BY <1>1, <1>3, <2>1 DEF LinkInv, SyncInv, PassedBySync
  <2> QED BY <1>1, <2>1 DEF KeptAfterSync, Receivable
<1>12. \A n \in Packets : Channel(n.packet) \in Channels
  BY <1>3, ChannelType
<1>13. KeptWhenConnected'
  <2>1. SUFFICES ASSUME NEW n \in Packets, n.packet > m.packet, n.impulses # <<>>
                 PROVE  Awaited(n)' <=> n.ack >= LastAck'[Channel(n.packet)]
    BY <1>1 DEF KeptWhenConnected, Receivable, Keeps
  <2> DEFINE d == Channel(n.packet)
  <2>2. /\ Awaited(n) <=> Queue[d] # <<>> /\ n.packet >= FirstSent[d] /\ Carried(d) = {}
        /\ Awaited(n)' <=> Queue[d] # <<>> /\ n.packet >= FirstSent[d] /\ Carried(d)' = {}
    BY <1>1 DEF Awaited, Carries
  <2>3. d \in Channels /\ (Awaited(n) <=> n.ack >= Before[d])
    BY <1>1, <1>3, <1>5, <1>12, <2>1 DEF Receivable, Keeps
  <2>4. CurrentSendNumber > n.ack
    BY <1>3
  <2> HIDE DEF d
  <2>5. CASE KeptBy(m)
    <3>1. CASE d = c
      <4>1. LastAck'[d] = CurrentSendNumber
        BY <1>2, <1>4, <1>5, <2>5, <3>1
      <4>2. ~(Awaited(n)')
        BY <1>4, <2>2, <2>5, <3>1
      <4>3. n.ack \in Int
        BY <1>3
      <4> QED BY <1>3, <2>4, <4>1, <4>2, <4>3 DEF d
    <3>2. CASE d # c
      <4>1. LastAck'[d] = Before[d]
        BY <1>2, <1>4, <1>5, <2>3, <2>5, <3>2
      <4> QED BY <1>4, <2>2, <2>3, <3>2, <4>1 DEF d
    <3> QED BY <3>1, <3>2
  <2>6. CASE ~KeptBy(m)
    <3>1. LastAck'[d] = Before[d]
      BY <1>2, <2>6
    <3>2. Queue[d] # <<>> => (Carried(d)' = {} <=> Carried(d) = {})
      BY <1>4, <2>3, <2>6
    <3> QED BY <2>2, <2>3, <3>1, <3>2 DEF d
  <2> QED BY <2>5, <2>6
<1>14. ASSUME Connected, NEW d \in Channels
       PROVE  /\ (Queue[d] = <<>> \/ Carried(d)' = {}) <=> ReceiveNumber >= LastAck'[d]
              /\ Queue[d] # <<>> /\ Carried(d)' # {} =>
                   \A b \in Actions : b.number >= LastAck'[d] <=> \E p \in Carried(d)' : p <= b.ack
  <2>1. /\ (Queue[d] = <<>> \/ Carried(d) = {}) <=> ReceiveNumber >= Before[d]
        /\ Queue[d] # <<>> /\ Carried(d) # {} =>
             \A b \in Actions : b.number >= Before[d] <=> \E p \in Carried(d) : p <= b.ack
    BY <1>5, <1>14
  <2>2. CASE d = c /\ KeptBy(m)
    <3>1. LastAck'[d] = CurrentSendNumber
      BY <1>2, <1>4, <1>5, <2>2
    <3>2. Queue[d] # <<>> /\ Carried(d)' = {m.packet}
      BY <1>4, <1>6, <2>2
    <3>3. \A b \in Actions : b.number < CurrentSendNumber /\ b.ack < m.packet
                             /\ b.number \in Int /\ b.ack \in Int
      BY <1>1, <1>3
    <3>4. ~(ReceiveNumber >= CurrentSendNumber) /\ CurrentSendNumber \in Int
      BY <1>3
    <3>5. m.packet \in Int
      BY <1>3
    <3>6. \A b \in Actions : /\ ~(b.number >= CurrentSendNumber)
                              /\ ~\E p \in Carried(d)' : p <= b.ack
      BY <3>2, <3>3, <3>4, <3>5
    <3> QED BY <3>1, <3>2, <3>4, <3>6
  <2>3. CASE d # c
    <3>1. LastAck'[d] = Before[d]
      BY <1>2, <1>4, <1>5, <2>3
    <3> QED BY <1>4, <2>1, <2>3, <3>1
  <2>4. CASE d = c /\ ~KeptBy(m)
    <3>1. LastAck'[d] = Before[d]
      BY <1>2, <2>4
    <3>2. Queue[d] # <<>> => (Carried(d)' = {} <=> Carried(d) = {})
      BY <1>4, <2>4
    <3>3. \A b \in Actions : b.ack < m.packet /\ b.ack \in Int
      BY <1>1, <1>3
    <3>4. \A b \in Actions : (\E p \in Carried(d)' : p <= b.ack) <=> \E p \in Carried(d) : p <= b.ack
      BY <1>3, <1>4, <2>4, <3>3
    <3> QED BY <2>1, <3>1, <3>2, <3>4
  <2> QED BY <2>2, <2>3, <2>4
<1>15. HeardWhenDropped' /\ ToldAfterwards'
  BY <1>1, <1>14 DEF HeardWhenDropped, ToldAfterwards, BothConnected, Connected
<1> QED BY <1>7, <1>8, <1>10, <1>11, <1>13, <1>15 DEF AckedInv, KeepInv

LEMMA LinkStep ==
  ASSUME LinkInv, Kinds
  PROVE  LinkInv'
<1>1. CoreTypes' /\ SyncInv'
  BY TypesStep, SyncStep DEF LinkInv
<1>2. AckedInv' /\ KeepInv'
  <2>1. CASE Quiet \/ Posts \/ \E m : Control(m)
    BY <2>1, CalmStep
  <2>2. ASSUME NEW m, Sends(m) PROVE AckedInv' /\ KeepInv'
    BY <2>2, SendStep
  <2>3. ASSUME NEW a, Connects(a) \/ Hears(a) PROVE AckedInv' /\ KeepInv'
    BY <2>3, HearStep
  <2>4. ASSUME NEW a, Tells(a) PROVE AckedInv' /\ KeepInv'
    BY <2>4, TellStep
  <2>5. ASSUME NEW m, Synchronizes(m) \/ Deaf(m) PROVE AckedInv' /\ KeepInv'
    BY <2>5, PassStep
  <2>6. ASSUME NEW m, Takes(m) PROVE AckedInv' /\ KeepInv'
    BY <2>6, TakeStep
  <2> QED BY <2>1, <2>2, <2>3, <2>4, <2>5, <2>6 DEF Kinds
<1> QED BY <1>1, <1>2 DEF LinkInv

LEMMA LinkInit == Init => LinkInv
<1> SUFFICES ASSUME Init PROVE LinkInv
  OBVIOUS
<1>1. /\ toClient = {} /\ toServer = {} /\ acked = {} /\ MainQueue = <<>> /\ delivered = <<>>
      /\ Queue = [c \in Channels |-> <<>>] /\ FirstSent = [c \in Channels |-> 0]
      /\ LastAck = [c \in Channels |-> -1] /\ posted = 0 /\ clientState = "Login"
      /\ SendNumber = 0 /\ ReceiveNumber = -1 /\ LastReceivedAck = -1 /\ LastSentSync = 1
      /\ CurrentSendNumber = 0 /\ LastReceivedNumber = 0 /\ LatestSync = 0
      /\ ConnectionState = "Synchronize"
  BY DEF Init
<1>2. CoreTypes
  BY <1>1 DEF CoreTypes, DatagramTypes, Packets, Syncs, AckSyncs, Actions
<1>3. SyncInv
  BY <1>1 DEF SyncInv, SyncsComeLast, PassedBySync, SyncsAnswered, PacketsComeLast, AckedPackets,
              Packets, Syncs, AckSyncs, Connected
<1>4. AckedInv
  BY <1>1 DEF AckedInv, AcksTold, CarriedWhole, Packets, AckSyncs, Actions
<1>5. KeepInv
  BY <1>1 DEF KeepInv, KeptWhenSynchronized, KeptAfterSync, KeptWhenConnected, FreshStart,
              HeardWhenDropped, ToldAfterwards, BothConnected, Connected, Syncs, Packets
<1> QED BY <1>2, <1>3, <1>4, <1>5 DEF LinkInv

--------------------------------------------------------------------------------
\* The states of the two ends, and the stalled mode of the main loop of the FE.
LoopInv ==
  /\ ConnectionState \in States /\ clientState \in ClientStates
  /\ phase \in {"Idle", "Reading", "Heard"} /\ StalledMode \in BOOLEAN
  /\ StalledMode => phase = "Idle" /\ ConnectionState = "Stalled"

LEMMA LoopInit == Init => LoopInv
BY DEF Init, LoopInv, States, ClientStates

LEMMA LoopStep ==
  ASSUME LoopInv, [Next]_vars
  PROVE  LoopInv'
<1> USE DEF LoopInv, States, ClientStates, hostVars, probeVars, encoderVars, loopVars, decoderVars,
            clientVars, feVars
<1>1. CASE AddImpulse
  BY <1>1 DEF AddImpulse
<1>9. CASE SendStalled
  BY <1>9 DEF SendStalled
<1>10. CASE BeginTick
  BY <1>10 DEF BeginTick
<1>2. ASSUME NEW m \in toServer, ReceiveAckSync(m) PROVE LoopInv'
  BY <1>2 DEF ReceiveAckSync, Received
<1>3. ASSUME NEW m \in toServer, ReceiveAckProbe(m) PROVE LoopInv'
  BY <1>3 DEF ReceiveAckProbe, Received
<1>4. ASSUME NEW m \in toServer, ReceiveNormal(m) PROVE LoopInv'
  BY <1>4 DEF ReceiveNormal, Received, SetProbe
<1>5. CASE ReceiveOld
  BY <1>5 DEF ReceiveOld
<1>6. CASE SendPacket \/ SendSync \/ SendProbe \/ SendNoProbe \/ FindLag
  BY <1>6 DEF SendPacket, SendSync, SendProbe, SendNoProbe, FindLag, Lag, EndsTick
<1>7. CASE Client
  BY <1>7 DEF Client, ReceiveSync, ReceiveProbe, ReceiveStalled, ReceivePacket, IgnorePacket, Decoded,
              ResendAckSync, SendAckProbe, SendAction
<1>8. CASE UNCHANGED vars
  BY <1>8 DEF vars
<1> QED BY <1>1, <1>2, <1>3, <1>4, <1>5, <1>6, <1>7, <1>8, <1>9, <1>10 DEF Next, FE

--------------------------------------------------------------------------------
\* Ticks.  The datagrams that tell the client the tick of their sending are the
\* SYNCs and the packets: one is sent per tick, so between two PROBEs or STALLED
\* messages the tick and the number of the datagram keep their distance.
TickTypes == {"SYNC", "NORMAL"}
Beats == {x \in toClient : x.type \in TickTypes}
Breaks == {p \in toClient : p.type \notin TickTypes}
Offset(x) == IF x.type = "SYNC" THEN x.sync ELSE x.sentAt - x.packet
\* The offset of the next datagram, if it is sent at the end of this or the next tick.
Now == tick - SendNumber - (IF phase = "Idle" THEN 0 ELSE 1)

OffsetTypes ==
  /\ tick \in Nat /\ SendNumber \in Nat /\ Synchronize \in Int /\ LastReceivedNumber \in Nat
  /\ \A x \in toClient : x.packet \in 1 .. SendNumber
  /\ \A x \in Beats : Offset(x) \in Int
  /\ \A x \in toClient : x.type = "NORMAL" => x.sentAt \in Int
Broken == \A x \in Beats : \E p \in Breaks : x.packet < p.packet
SteadySince == \A x \in Beats : Offset(x) = Now \/ \E p \in Breaks : x.packet < p.packet
\* A tick without a datagram comes only after a PROBE.
ProbedFirst == ConnectionState = "Probe" /\ LastSentProbe > 0 => Broken
SteadyBetween ==
  \A x, y \in Beats : x.packet < y.packet =>
    Offset(x) = Offset(y) \/ \E p \in Breaks : x.packet < p.packet /\ p.packet < y.packet
\* The client computes with the offset of a SYNC of the code it has.
ClientOffset ==
  clientState \in {"Synchronize", "Connected"} =>
    \E y \in Syncs : y.code = LatestSync /\ y.sync = Synchronize /\ y.packet <= LastReceivedNumber

TickInv == OffsetTypes /\ SteadySince /\ ProbedFirst /\ SteadyBetween /\ ClientOffset

\* The FE sends nothing, and its clock does not move away from its datagrams.
LEMMA NoDatagram ==
  ASSUME TickInv, UNCHANGED <<toClient, SendNumber, Synchronize, clientState, LatestSync,
                              LastReceivedNumber>>,
         tick' \in Nat, Now' = Now \/ Broken,
         ConnectionState' = "Probe" /\ LastSentProbe' > 0 => ConnectionState = "Probe" /\ LastSentProbe > 0
  PROVE  TickInv'
<1>1. /\ Beats' = Beats /\ Breaks' = Breaks /\ Syncs' = Syncs /\ \A x : Offset(x)' = Offset(x)
      /\ toClient' = toClient /\ SendNumber' = SendNumber /\ Synchronize' = Synchronize
      /\ clientState' = clientState /\ LatestSync' = LatestSync
      /\ LastReceivedNumber' = LastReceivedNumber
  BY DEF Beats, Breaks, Syncs, Offset
<1>2. OffsetTypes' /\ SteadyBetween' /\ ClientOffset'
  BY <1>1 DEF TickInv, OffsetTypes, SteadyBetween, ClientOffset, Offset
<1>3. SteadySince'
  BY <1>1 DEF TickInv, SteadySince, Broken, Offset
<1>4. ProbedFirst'
  BY <1>1 DEF TickInv, ProbedFirst, Broken
<1> QED BY <1>2, <1>3, <1>4 DEF TickInv

\* The FE sends the datagram n.
LEMMA OneDatagram ==
  ASSUME TickInv, NEW n, n.packet = SendNumber + 1, toClient' = toClient \cup {n},
         SendNumber' = SendNumber + 1, tick' = tick,
         UNCHANGED <<Synchronize, clientState, LatestSync, LastReceivedNumber>>,
         n.type \in TickTypes => /\ phase # "Idle" /\ phase' = "Idle" /\ ConnectionState' # "Probe"
                                 /\ Offset(n) = tick - (SendNumber + 1),
         n.type = "NORMAL" => n.sentAt = tick
  PROVE  TickInv'
<1>1. /\ tick \in Nat /\ SendNumber \in Nat /\ Synchronize \in Int /\ LastReceivedNumber \in Nat
      /\ \A x \in toClient : x.packet \in 1 .. SendNumber
      /\ \A x \in toClient : x.type = "NORMAL" => x.sentAt \in Int
      /\ \A x \in Beats : Offset(x) \in Int
      /\ \A x \in Beats \cup Breaks : x \in toClient
      /\ \A x : Offset(x)' = Offset(x)
  BY DEF TickInv, OffsetTypes, Beats, Breaks, Offset
<1>2. \A x \in Beats : x.packet \in Int /\ x.packet < n.packet
  BY <1>1
<1>3. ClientOffset'
  BY DEF TickInv, ClientOffset, Syncs
<1>4. CASE n.type \in TickTypes
  <2>1. Beats' = Beats \cup {n} /\ Breaks' = Breaks
    BY <1>4 DEF Beats, Breaks
  <2>2. Offset(n) = Now /\ Now' = Now /\ Now \in Int
    BY <1>1, <1>4 DEF Now
  <2>3. OffsetTypes'
    BY <1>1, <2>1, <2>2 DEF OffsetTypes, Offset
  <2>4. SteadySince'
    <3>1. ASSUME NEW x \in Beats' PROVE Offset(x) = Now' \/ \E p \in Breaks : x.packet < p.packet
      BY <2>1, <2>2 DEF TickInv, SteadySince
    <3> QED BY <2>1, <3>1 DEF SteadySince, Offset
  <2>5. ProbedFirst'
    BY <1>4 DEF ProbedFirst
  <2>6. SteadyBetween'
    <3>1. ASSUME NEW x \in Beats', NEW y \in Beats', x.packet < y.packet
          PROVE  Offset(x) = Offset(y) \/ \E p \in Breaks : x.packet < p.packet /\ p.packet < y.packet
      <4>1. x \in Beats
        BY <1>1, <1>2, <2>1, <3>1
      <4>2. CASE y \in Beats
        BY <3>1, <4>1, <4>2 DEF TickInv, SteadyBetween
      <4>3. CASE y = n
        <5>1. \A p \in Breaks : p.packet < n.packet
          BY <1>1
        <5> QED BY <2>2, <4>1, <4>3, <5>1 DEF TickInv, SteadySince
      <4> QED BY <2>1, <4>2, <4>3
    <3> QED BY <2>1, <3>1 DEF SteadyBetween, Offset
  <2> QED BY <1>3, <2>3, <2>4, <2>5, <2>6 DEF TickInv
<1>5. CASE n.type \notin TickTypes
  <2>1. Beats' = Beats /\ Breaks' = Breaks \cup {n}
    BY <1>5 DEF Beats, Breaks
  <2>2. OffsetTypes'
    BY <1>1, <1>5, <2>1 DEF OffsetTypes, Offset, TickTypes
  <2>3. Broken'
    BY <1>2, <2>1 DEF Broken
  <2>4. SteadyBetween'
    BY <2>1 DEF TickInv, SteadyBetween, Offset
  <2> QED BY <1>3, <2>2, <2>3, <2>4 DEF TickInv, SteadySince, ProbedFirst, Broken
<1> QED BY <1>4, <1>5

\* The client does something.
LEMMA ClientTicks ==
  ASSUME TickInv, Client
  PROVE  TickInv'
<1>1. UNCHANGED <<toClient, SendNumber, tick, phase, ConnectionState, LastSentProbe>>
  BY DEF Client, ReceiveSync, ReceiveProbe, ReceiveStalled, ReceivePacket, IgnorePacket, Decoded,
         ResendAckSync, SendAckProbe, SendAction, feVars, hostVars, loopVars, probeVars
<1>2. /\ Beats' = Beats /\ Breaks' = Breaks /\ Syncs' = Syncs /\ \A x : Offset(x)' = Offset(x)
      /\ Now' = Now /\ toClient' = toClient /\ SendNumber' = SendNumber /\ tick' = tick
      /\ ConnectionState' = ConnectionState /\ LastSentProbe' = LastSentProbe
  BY <1>1 DEF Beats, Breaks, Syncs, Offset, Now
<1>3. SteadySince' /\ ProbedFirst' /\ SteadyBetween'
  BY <1>2 DEF TickInv, SteadySince, ProbedFirst, SteadyBetween, Broken, Offset
<1>4. ClientOffset' /\ Synchronize' \in Int /\ LastReceivedNumber' \in Nat
  <2>1. ASSUME NEW m \in toClient, ReceiveSync(m) PROVE ClientOffset' /\ Synchronize' \in Int /\ LastReceivedNumber' \in Nat
    <3>1. /\ m \in Syncs /\ Synchronize' = m.sync /\ LatestSync' = m.code
          /\ LastReceivedNumber' = m.packet
      BY <2>1 DEF ReceiveSync, Decoded, SyncTaken, Syncs
    <3>2. m \in Beats /\ Offset(m) = m.sync /\ m.packet \in 1 .. SendNumber
      BY <3>1 DEF Beats, TickTypes, Offset, TickInv, OffsetTypes, Syncs
    <3> QED BY <1>2, <3>1, <3>2 DEF ClientOffset, TickInv, OffsetTypes
  <2>2. ASSUME NEW m \in toClient, ReceivePacket(m) PROVE ClientOffset' /\ Synchronize' \in Int /\ LastReceivedNumber' \in Nat
    <3>1. /\ LastReceivedNumber' = m.packet /\ m.packet > LastReceivedNumber
          /\ clientState \in {"Synchronize", "Connected"}
          /\ LatestSync' = LatestSync /\ Synchronize' = Synchronize /\ m.packet \in Nat
      BY <2>2 DEF ReceivePacket, Decoded, TickInv, OffsetTypes
    <3>2. \A y \in Syncs : y.packet \in Nat
      BY DEF TickInv, OffsetTypes, Syncs
    <3>3. LastReceivedNumber \in Nat
      BY DEF TickInv, OffsetTypes
    <3> QED BY <1>2, <3>1, <3>2, <3>3 DEF ClientOffset, TickInv, OffsetTypes
  <2>3. ASSUME NEW m \in toClient, ReceiveProbe(m) \/ ReceiveStalled(m) \/ IgnorePacket(m)
        PROVE  ClientOffset' /\ Synchronize' \in Int /\ LastReceivedNumber' \in Nat
    BY <2>3 DEF ReceiveProbe, ReceiveStalled, IgnorePacket, Decoded, ClientOffset, TickInv, OffsetTypes
  <2>4. CASE ResendAckSync \/ SendAckProbe \/ SendAction
    BY <1>2, <2>4 DEF ResendAckSync, SendAckProbe, SendAction, ClientOffset, TickInv, OffsetTypes
  <2> QED BY <2>1, <2>2, <2>3, <2>4 DEF Client
<1>5. OffsetTypes'
  BY <1>2, <1>4 DEF TickInv, OffsetTypes, Offset
<1> QED BY <1>3, <1>4, <1>5 DEF TickInv

LEMMA TickStep ==
  ASSUME TickInv, LoopInv, [Next]_vars
  PROVE  TickInv'
<1> USE DEF hostVars, probeVars, encoderVars, loopVars, clientVars, feVars, decoderVars
<1>0. tick \in Nat /\ SendNumber \in Nat
  BY DEF TickInv, OffsetTypes
<1>1. CASE AddImpulse
  BY <1>0, <1>1, NoDatagram DEF AddImpulse, Now
<1>2. CASE SendStalled
  <2>1. Stalled(SendNumber + 1).packet = SendNumber + 1 /\ Stalled(SendNumber + 1).type \notin TickTypes \cup {"NORMAL"}
    BY DEF Stalled, TickTypes
  <2> QED BY <1>2, <2>1, OneDatagram DEF SendStalled
<1>3. CASE BeginTick
  <2>1. Now' = Now /\ tick' \in Nat
    BY <1>0, <1>3 DEF BeginTick, Now
  <2> QED BY <1>3, <2>1, NoDatagram DEF BeginTick, LoopInv
<1>4. ASSUME NEW m \in toServer, ReceiveAckSync(m) \/ ReceiveAckProbe(m) \/ ReceiveNormal(m) PROVE TickInv'
  <2>1. /\ UNCHANGED <<toClient, SendNumber, tick, clientVars>> /\ phase # "Idle" /\ phase' = "Heard"
    BY <1>4 DEF ReceiveAckSync, ReceiveAckProbe, ReceiveNormal, Received
  <2>2. Now' = Now
    BY <2>1 DEF Now
  <2>3. ConnectionState' = "Probe" /\ LastSentProbe' > 0 => ConnectionState = "Probe" /\ LastSentProbe > 0
    BY <1>4 DEF ReceiveAckSync, ReceiveAckProbe, ReceiveNormal, SetProbe
  <2> QED BY <1>0, <2>1, <2>2, <2>3, NoDatagram
<1>5. CASE ReceiveOld
  BY <1>0, <1>5, NoDatagram DEF ReceiveOld, Now
<1>6. CASE SendPacket
  <2> DEFINE n == Normal(SendNumber + 1, ReceiveNumber, Filled(Channel(SendNumber + 1)), tick)
  <2>1. n.packet = SendNumber + 1 /\ n.type = "NORMAL" /\ n.sentAt = tick
    BY DEF Normal
  <2>2. /\ toClient' = toClient \cup {n} /\ SendNumber' = SendNumber + 1 /\ tick' = tick
        /\ phase # "Idle" /\ phase' = "Idle" /\ ConnectionState' = "Connected"
        /\ UNCHANGED <<Synchronize, clientState, LatestSync, LastReceivedNumber>>
    BY <1>6 DEF SendPacket, EndsTick
  <2> HIDE DEF n
  <2>3. Offset(n) = tick - (SendNumber + 1)
    BY <2>1 DEF Offset
  <2> QED BY <2>1, <2>2, <2>3, OneDatagram
<1>7. CASE SendSync
  <2> DEFINE n == Sync(SendNumber + 1, tick - (SendNumber + 1), LastSentSync)
  <2>1. n.packet = SendNumber + 1 /\ n.type = "SYNC" /\ n.sync = tick - (SendNumber + 1)
    BY DEF Sync
  <2>2. /\ toClient' = toClient \cup {n} /\ SendNumber' = SendNumber + 1 /\ tick' = tick
        /\ phase # "Idle" /\ phase' = "Idle" /\ ConnectionState' = "Synchronize"
        /\ UNCHANGED <<Synchronize, clientState, LatestSync, LastReceivedNumber>>
    BY <1>7 DEF SendSync, EndsTick
  <2> HIDE DEF n
  <2>3. Offset(n) = tick - (SendNumber + 1)
    BY <2>1 DEF Offset
  <2> QED BY <2>1, <2>2, <2>3, OneDatagram
<1>8. ASSUME NEW k, \/ SendProbe /\ k = LastSentProbe + 1
                    \/ FindLag /\ k = 1
      PROVE  TickInv'
  <2> DEFINE n == Probe(SendNumber + 1, k)
  <2>1. n.packet = SendNumber + 1 /\ n.type \notin TickTypes \cup {"NORMAL"}
    BY DEF Probe, TickTypes
  <2>2. /\ toClient' = toClient \cup {n} /\ SendNumber' = SendNumber + 1 /\ tick' = tick
        /\ UNCHANGED <<Synchronize, clientState, LatestSync, LastReceivedNumber>>
    BY <1>8 DEF SendProbe, FindLag, EndsTick
  <2> HIDE DEF n
  <2> QED BY <2>1, <2>2, OneDatagram
<1>9. CASE SendNoProbe
  <2>1. Broken
    BY <1>9 DEF SendNoProbe, TickInv, ProbedFirst
  <2>2. toClient' = toClient /\ UNCHANGED <<SendNumber, tick, clientVars, ConnectionState, probeVars>>
    BY <1>9 DEF SendNoProbe, EndsTick
  <2> QED BY <1>0, <2>1, <2>2, NoDatagram
<1>10. CASE Client
  BY <1>10, ClientTicks
<1>11. CASE UNCHANGED vars
  <2>1. Now' = Now /\ UNCHANGED <<toClient, SendNumber, tick, clientVars, ConnectionState, probeVars>>
    BY <1>11 DEF vars, Now
  <2> QED BY <1>0, <2>1, NoDatagram
<1> QED BY <1>1, <1>2, <1>3, <1>4, <1>5, <1>6, <1>7, <1>8, <1>9, <1>10, <1>11 DEF Next, FE

\* The client computes for each packet it takes the tick at which the FE sent it,
\* unless a PROBE or a STALLED message came between that and a SYNC of its code.
THEOREM TicksAgree == Spec => TicksAgreeUnlessInterrupted
<1>1. Init => TickInv
  <2> SUFFICES ASSUME Init PROVE TickInv
    OBVIOUS
  <2>1. toClient = {} /\ tick = 1 /\ SendNumber = 0 /\ Synchronize = 0 /\ clientState = "Login"
        /\ LastReceivedNumber = 0
    BY DEF Init
  <2> QED BY <2>1 DEF TickInv, OffsetTypes, SteadySince, ProbedFirst, SteadyBetween, ClientOffset,
                      Broken, Beats
<1>2. TickInv /\ LoopInv /\ [Next]_vars => TickInv'
  BY TickStep
<1>3. LoopInv /\ [Next]_vars => LoopInv'
  BY LoopStep
<1>4. TickInv => [\A m \in toClient : ReceivePacket(m) /\ Uninterrupted(m) => serverTick' = m.sentAt]_vars
  <2> SUFFICES ASSUME TickInv, NEW m \in toClient, ReceivePacket(m), Uninterrupted(m)
               PROVE  serverTick' = m.sentAt
    OBVIOUS
  <2>1. /\ m.type = "NORMAL" /\ m.packet > LastReceivedNumber
        /\ clientState \in {"Synchronize", "Connected"} /\ serverTick' = Synchronize + m.packet
    BY DEF ReceivePacket, Decoded
  <2>2. PICK y \in Syncs : y.code = LatestSync /\ y.sync = Synchronize /\ y.packet <= LastReceivedNumber
    BY <2>1 DEF TickInv, ClientOffset
  <2>3. /\ y \in Beats /\ m \in Beats /\ Offset(y) = Synchronize /\ Offset(m) = m.sentAt - m.packet
        /\ y.type = "SYNC" /\ y \in toClient
    BY <2>1, <2>2 DEF Beats, TickTypes, Offset, Syncs
  <2>4. y.packet < m.packet
    BY <2>1, <2>2, <2>3 DEF TickInv, OffsetTypes
  <2>5. \A p \in Breaks : ~(y.packet < p.packet /\ p.packet < m.packet)
    BY <2>2, <2>3 DEF Uninterrupted, Breaks, TickTypes
  <2>6. Offset(y) = Offset(m)
    BY <2>3, <2>4, <2>5 DEF TickInv, SteadyBetween
  <2> QED BY <2>1, <2>3, <2>6 DEF TickInv, OffsetTypes
<1>5. Init => LoopInv
  BY LoopInit
<1> QED BY <1>1, <1>2, <1>3, <1>4, <1>5, PTL DEF Spec, TicksAgreeUnlessInterrupted

--------------------------------------------------------------------------------
\* The impulses.  Those numbered up to Started have left the main queue.
Started == posted - Len(MainQueue)
Had == ToSet(delivered)

\* The main queue holds the last impulses posted.
MainIsTail ==
  Len(MainQueue) <= posted /\ \A i \in 1 .. Len(MainQueue) : MainQueue[i] = Started + i

\* A channel holds a few consecutive ones, that no other channel holds and that
\* are not confirmed ...
ChannelsApart ==
  \A c \in Channels :
    /\ Len(Queue[c]) <= MaxBatch
    /\ \A i \in 1 .. Len(Queue[c]) : Queue[c][i] = Queue[c][1] + i - 1
    /\ ToSet(Queue[c]) \subseteq 1 .. Started /\ ToSet(Queue[c]) \cap confirmed = {}
    /\ \A d \in Channels : c # d => ToSet(Queue[c]) \cap ToSet(Queue[d]) = {}

\* ... and between them the channels hold all that are not.
NoneDropped == \A i \in 1 .. Started : i \in confirmed \/ \E c \in Channels : i \in ToSet(Queue[c])

\* The client has all the impulses of a channel if it has had a packet with them.
HadByPackets ==
  /\ confirmed \subseteq Had /\ Had \subseteq 1 .. Started
  /\ \A c \in Channels : Queue[c] # <<>> /\ Carried(c) # {} => ToSet(Queue[c]) \subseteq Had

\* Some channel, the one that delivered last, holds nothing that was overtaken.
NotOvertaken(c) == \A i \in ToSet(Queue[c]) : i \in Had \/ \A j \in Had : j < i
OneInOrder == \E c \in Channels : NotOvertaken(c)

QueueInv == MainIsTail /\ ChannelsApart /\ NoneDropped /\ HadByPackets /\ OneInOrder

LEMMA SetOfSeq ==
  /\ ToSet(<<>>) = {}
  /\ \A s, t \in Seq(Nat) : ToSet(s \o t) = ToSet(s) \cup ToSet(t)
  /\ \A s \in Seq(Nat) : s # <<>> => s[1] \in ToSet(s) /\ Len(s) \in Nat \ {0}
  /\ \A s \in Seq(Nat) : \A x : x \in ToSet(s) <=> \E i \in 1 .. Len(s) : s[i] = x
<1>1. ToSet(<<>>) = {}
  BY DEF ToSet
<1>2. \A s \in Seq(Nat) : \A x : x \in ToSet(s) <=> \E i \in 1 .. Len(s) : s[i] = x
  BY DEF ToSet
<1>3. ASSUME NEW s \in Seq(Nat), NEW t \in Seq(Nat)
      PROVE  ToSet(s \o t) = ToSet(s) \cup ToSet(t)
  <2>1. /\ s \o t \in Seq(Nat) /\ Len(s \o t) = Len(s) + Len(t)
        /\ \A i \in 1 .. Len(s) + Len(t) :
             (s \o t)[i] = IF i <= Len(s) THEN s[i] ELSE t[i - Len(s)]
    BY ConcatProperties
  <2>2. Len(s) \in Nat /\ Len(t) \in Nat
    OBVIOUS
  <2> DEFINE u == s \o t
  <2>3. u \in Seq(Nat) /\ Len(u) = Len(s) + Len(t)
        /\ \A i \in 1 .. Len(u) : u[i] = IF i <= Len(s) THEN s[i] ELSE t[i - Len(s)]
    BY <2>1
  <2> HIDE DEF u
  <2>4. \A i \in 1 .. Len(s) : i \in 1 .. Len(u) /\ u[i] = s[i]
    BY <2>2, <2>3
  <2>5. ASSUME NEW i \in 1 .. Len(t) PROVE i + Len(s) \in 1 .. Len(u) /\ u[i + Len(s)] = t[i]
    <3>1. i + Len(s) \in 1 .. Len(u) /\ ~(i + Len(s) <= Len(s)) /\ (i + Len(s)) - Len(s) = i
      BY <2>2, <2>3
    <3> QED BY <2>3, <3>1
  <2>6. \A i \in 1 .. Len(u) : \/ i \in 1 .. Len(s) /\ u[i] = s[i]
                               \/ i - Len(s) \in 1 .. Len(t) /\ u[i] = t[i - Len(s)]
    BY <2>2, <2>3
  <2>7. ASSUME NEW x PROVE x \in ToSet(u) <=> x \in ToSet(s) \/ x \in ToSet(t)
    <3>0. /\ x \in ToSet(s) <=> \E i \in 1 .. Len(s) : s[i] = x
          /\ x \in ToSet(t) <=> \E i \in 1 .. Len(t) : t[i] = x
          /\ x \in ToSet(u) <=> \E i \in 1 .. Len(u) : u[i] = x
      BY <1>2, <2>3
    <3>1. ASSUME NEW i \in 1 .. Len(s), s[i] = x PROVE \E k \in 1 .. Len(u) : u[k] = x
      BY <2>4, <3>1
    <3>2. ASSUME NEW i \in 1 .. Len(t), t[i] = x PROVE \E k \in 1 .. Len(u) : u[k] = x
      BY <2>5, <3>2
    <3>3. ASSUME NEW i \in 1 .. Len(u), u[i] = x PROVE x \in ToSet(s) \/ x \in ToSet(t)
      BY <2>6, <3>0, <3>3
    <3> QED BY <3>0, <3>1, <3>2, <3>3
  <2> QED BY <2>7 DEF u
<1>4. \A s \in Seq(Nat) : s # <<>> => s[1] \in ToSet(s) /\ Len(s) \in Nat \ {0}
  BY DEF ToSet
<1> QED BY <1>1, <1>2, <1>3, <1>4

\* Steps that touch neither queues nor impulses.
LEMMA CalmQueues ==
  ASSUME CoreTypes, QueueInv,
         UNCHANGED <<posted, LastReceivedAck, MainQueue, Queue, FirstSent, acked, delivered,
                     confirmed>>
  PROVE  QueueInv'
<1>1. /\ posted' = posted /\ MainQueue' = MainQueue /\ Queue' = Queue /\ FirstSent' = FirstSent
      /\ acked' = acked /\ delivered' = delivered /\ confirmed' = confirmed
      /\ LastReceivedAck' = LastReceivedAck
  OBVIOUS
<1>2. Started' = Started /\ Had' = Had /\ \A c \in Channels : Carried(c)' = Carried(c)
  BY <1>1 DEF Started, Had, Carried
<1>3. MainIsTail' /\ ChannelsApart'
  BY <1>1, <1>2 DEF QueueInv, MainIsTail, ChannelsApart
<1>4. NoneDropped' /\ HadByPackets'
  BY <1>1, <1>2 DEF QueueInv, NoneDropped, HadByPackets
<1>5. OneInOrder'
  BY <1>1, <1>2 DEF QueueInv, OneInOrder, NotOvertaken
<1> QED BY <1>3, <1>4, <1>5 DEF QueueInv

LEMMA PostQueues ==
  ASSUME CoreTypes, QueueInv, Posts
  PROVE  QueueInv'
<1>1. /\ posted \in Nat /\ MainQueue \in Seq(Nat) /\ Len(MainQueue) \in Nat
      /\ posted' = posted + 1 /\ MainQueue' = Append(MainQueue, posted + 1)
      /\ UNCHANGED <<Queue, FirstSent, acked, delivered, confirmed, LastReceivedAck>>
  BY DEF Posts, CoreTypes, clientCore
<1>2. Len(MainQueue') = Len(MainQueue) + 1 /\ Started' = Started
      /\ \A i \in 1 .. Len(MainQueue) + 1 :
           MainQueue'[i] = IF i <= Len(MainQueue) THEN MainQueue[i] ELSE posted + 1
  BY <1>1 DEF Started
<1>3. MainIsTail'
  BY <1>1, <1>2 DEF QueueInv, MainIsTail, Started
<1>4. ChannelsApart' /\ NoneDropped'
  BY <1>1, <1>2 DEF QueueInv, ChannelsApart, NoneDropped
<1>5. HadByPackets' /\ OneInOrder'
  BY <1>1, <1>2 DEF QueueInv, HadByPackets, OneInOrder, NotOvertaken, Had, Carried
<1> QED BY <1>3, <1>4, <1>5 DEF QueueInv

\* A packet that takes impulses from the main queue: the next ones, in order.
LEMMA SendQueues ==
  ASSUME CoreTypes, QueueInv, NEW m, Sends(m)
  PROVE  QueueInv'
<1> DEFINE c == Channel(m.packet)
           k == Len(Taken)
<1>1. /\ SendNumber \in Nat /\ posted \in Nat /\ MainQueue \in Seq(Nat) /\ Len(MainQueue) \in Nat
      /\ Queue \in [Channels -> Seq(Nat)] /\ FirstSent \in [Channels -> 0 .. SendNumber]
      /\ acked \subseteq 1 .. LastReceivedNumber /\ LastReceivedNumber \in 0 .. SendNumber
  BY DEF CoreTypes
<1>2. c \in Channels /\ m.packet = SendNumber + 1
  BY <1>1, ChannelType DEF Sends
<1>3. /\ posted' = posted /\ confirmed' = confirmed /\ acked' = acked /\ delivered' = delivered
      /\ LastReceivedAck' = LastReceivedAck
      /\ Queue' = [Queue EXCEPT ![c] = Filled(c)] /\ MainQueue' = Left(c)
      /\ FirstSent' = [FirstSent EXCEPT ![c] = IF Queue[c] = <<>> THEN m.packet ELSE @]
  BY DEF Sends, clientCore
<1>4. /\ Taken \in Seq(Nat) /\ k \in Nat /\ k <= MaxBatch /\ k <= Len(MainQueue)
      /\ \A i \in 1 .. k : Taken[i] = MainQueue[i]
      /\ Left(c) \in Seq(Nat)
      /\ Queue[c] # <<>> => Left(c) = MainQueue
      /\ Queue[c] = <<>> => /\ Len(Left(c)) = Len(MainQueue) - k
                            /\ \A i \in 1 .. Len(Left(c)) : Left(c)[i] = MainQueue[k + i]
  BY <1>1, <1>2, Shares
<1> HIDE DEF c, k
<1>5. CASE Queue[c] # <<>>
  <2>1. Queue' = Queue /\ MainQueue' = MainQueue /\ FirstSent' = FirstSent
    BY <1>1, <1>2, <1>3, <1>4, <1>5 DEF Filled
  <2> QED BY <1>3, <2>1, CalmQueues
<1>6. CASE Queue[c] = <<>>
  <2>1. /\ Started \in Nat /\ \A i \in 1 .. Len(MainQueue) : MainQueue[i] = Started + i
        /\ confirmed \subseteq Had /\ Had \subseteq 1 .. Started
    BY <1>1 DEF QueueInv, MainIsTail, HadByPackets, Started
  <2>2. /\ Len(MainQueue') = Len(MainQueue) - k /\ MainQueue' \in Seq(Nat)
        /\ \A i \in 1 .. Len(MainQueue') : MainQueue'[i] = MainQueue[k + i]
    BY <1>3, <1>4, <1>6
  <2>3. Started' = Started + k /\ Started' \in Nat /\ Had' = Had
    BY <1>1, <1>3, <1>4, <2>1, <2>2 DEF Started, Had
  <2>4. MainIsTail'
    <3>1. ASSUME NEW i \in 1 .. Len(MainQueue') PROVE MainQueue'[i] = Started' + i
      <4>1. k + i \in 1 .. Len(MainQueue)
        BY <1>1, <1>4, <2>2
      <4>2. MainQueue'[i] = Started + (k + i)
        BY <2>1, <2>2, <4>1
      <4> QED BY <1>4, <2>1, <2>3, <4>2
    <3>2. Len(MainQueue') <= posted'
      BY <1>1, <1>3, <1>4, <2>2 DEF QueueInv, MainIsTail
    <3> QED BY <3>1, <3>2 DEF MainIsTail
  <2>5. /\ Queue'[c] = Taken /\ \A d \in Channels : d # c => Queue'[d] = Queue[d]
        /\ \A i \in 1 .. k : Taken[i] = Started + i
    BY <1>1, <1>2, <1>3, <1>4, <1>6, <2>1 DEF Filled
  <2>6. \A i : i \in ToSet(Taken) <=> i \in Started + 1 .. Started + k
    <3>1. \A x : x \in ToSet(Taken) <=> \E i \in 1 .. k : Taken[i] = x
      BY <1>4, SetOfSeq DEF k
    <3>2. ASSUME NEW x, x \in Started + 1 .. Started + k PROVE x \in ToSet(Taken)
      <4>1. x - Started \in 1 .. k /\ Started + (x - Started) = x
        BY <1>4, <2>1, <3>2
      <4>2. Taken[x - Started] = x
        BY <2>5, <4>1
      <4> QED BY <3>1, <4>1, <4>2
    <3>3. ASSUME NEW i \in 1 .. k PROVE Taken[i] \in Started + 1 .. Started + k
      BY <1>4, <2>1, <2>5
    <3> QED BY <3>1, <3>2, <3>3
  <2>7. /\ \A d \in Channels : d # c => FirstSent'[d] = FirstSent[d]
        /\ FirstSent'[c] = SendNumber + 1
    BY <1>1, <1>2, <1>3, <1>6
  <2>8. /\ \A d \in Channels : d # c => Carried(d)' = Carried(d)
        /\ Carried(c)' = {}
    <3>1. ASSUME NEW p \in acked PROVE p \in Nat /\ ~(p >= SendNumber + 1)
      <4>1. p \in 1 .. LastReceivedNumber
        BY <1>1
      <4> QED BY <1>1, <4>1
    <3>2. Carried(c)' \subseteq {p \in acked : Channel(p) = c /\ p >= SendNumber + 1}
      BY <1>3, <2>7 DEF Carried
    <3>3. \A d \in Channels : d # c => Carried(d)' = Carried(d)
      BY <1>3, <2>7 DEF Carried
    <3> QED BY <3>1, <3>2, <3>3
  <2>9. ChannelsApart'
    <3>1. \A d \in Channels : d # c => ToSet(Queue'[d]) \cap ToSet(Taken) = {}
      BY <2>1, <2>5, <2>6 DEF QueueInv, ChannelsApart
    <3>2. ASSUME NEW d \in Channels, d # c
          PROVE  /\ Len(Queue'[d]) <= MaxBatch
                 /\ \A i \in 1 .. Len(Queue'[d]) : Queue'[d][i] = Queue'[d][1] + i - 1
                 /\ ToSet(Queue'[d]) \subseteq 1 .. Started' /\ ToSet(Queue'[d]) \cap confirmed' = {}
                 /\ \A e \in Channels : d # e => ToSet(Queue'[d]) \cap ToSet(Queue'[e]) = {}
      <4>1. ToSet(Queue[d]) \subseteq 1 .. Started'
        <5>1. 1 .. Started \subseteq 1 .. Started'
          BY <1>4, <2>1, <2>3
        <5> QED BY <5>1 DEF QueueInv, ChannelsApart
      <4> QED BY <1>3, <2>5, <3>1, <3>2, <4>1 DEF QueueInv, ChannelsApart
    <3>3. /\ Len(Taken) <= MaxBatch
          /\ \A i \in 1 .. Len(Taken) : Taken[i] = Taken[1] + i - 1
          /\ ToSet(Taken) \subseteq 1 .. Started' /\ ToSet(Taken) \cap confirmed' = {}
      <4>1. ASSUME NEW i \in 1 .. k PROVE Taken[i] = Taken[1] + i - 1
        <5>1. 1 \in 1 .. k
          BY <1>4
        <5>2. Taken[1] = Started + 1 /\ Taken[i] = Started + i
          BY <2>5, <5>1
        <5> QED BY <2>1, <5>2
      <4>2. ToSet(Taken) \subseteq 1 .. Started'
        BY <1>4, <2>1, <2>3, <2>6
      <4>3. \A x \in confirmed : x \in 1 .. Started
        BY <2>1
      <4> QED BY <1>3, <1>4, <2>1, <2>6, <4>1, <4>2, <4>3 DEF k
    <3>4. \A e \in Channels : c # e => ToSet(Queue'[c]) \cap ToSet(Queue'[e]) = {}
      BY <2>5, <3>1
    <3> QED BY <2>5, <3>2, <3>3, <3>4 DEF ChannelsApart
  <2>10. NoneDropped'
    <3>1. ASSUME NEW i \in 1 .. Started', i \notin 1 .. Started PROVE i \in ToSet(Queue'[c])
      <4>1. i \in Started + 1 .. Started + k
        BY <1>4, <2>1, <2>3, <3>1
      <4> QED BY <2>5, <2>6, <4>1
    <3>2. ASSUME NEW i \in 1 .. Started, i \notin confirmed
          PROVE  \E d \in Channels : i \in ToSet(Queue'[d])
      <4>1. PICK d \in Channels : i \in ToSet(Queue[d])
        BY <3>2 DEF QueueInv, NoneDropped
      <4>2. d # c
        BY <1>6, <4>1, SetOfSeq
      <4> QED BY <2>5, <4>1, <4>2
    <3> QED BY <1>2, <1>3, <3>1, <3>2 DEF NoneDropped
  <2>11. HadByPackets'
    <3>1. confirmed' \subseteq Had' /\ Had' \subseteq 1 .. Started'
      <4>1. 1 .. Started \subseteq 1 .. Started'
        BY <1>4, <2>1, <2>3
      <4> QED BY <1>3, <2>1, <2>3, <4>1
    <3>2. ASSUME NEW d \in Channels, Queue'[d] # <<>>, Carried(d)' # {}
          PROVE  ToSet(Queue'[d]) \subseteq Had'
      <4>1. d # c /\ Carried(d)' = Carried(d) /\ Queue'[d] = Queue[d]
        BY <2>5, <2>8, <3>2
      <4> QED BY <2>3, <3>2, <4>1 DEF QueueInv, HadByPackets
    <3> QED BY <3>1, <3>2 DEF HadByPackets, Carried
  <2>12. OneInOrder'
    <3>1. PICK d \in Channels : \A i \in ToSet(Queue[d]) : i \in Had \/ \A j \in Had : j < i
      BY DEF QueueInv, OneInOrder, NotOvertaken
    <3>2. \A i \in ToSet(Queue'[d]) : i \in Had' \/ \A j \in Had' : j < i
      <4>1. CASE d # c
        BY <2>3, <2>5, <3>1, <4>1
      <4>2. CASE d = c
        BY <1>4, <2>1, <2>3, <2>5, <2>6, <4>2
      <4> QED BY <4>1, <4>2
    <3> QED BY <3>2 DEF OneInOrder, NotOvertaken
  <2> QED BY <2>4, <2>9, <2>10, <2>11, <2>12 DEF QueueInv
<1> QED BY <1>5, <1>6

\* The FE drops what the client has had, and confirms it.
LEMMA HearQueues ==
  ASSUME CoreTypes, QueueInv, NEW packets, HearsOf(packets),
         \A c \in Channels : Carried(c)' \subseteq Carried(c),
         UNCHANGED <<posted, MainQueue, delivered>>
  PROVE  QueueInv'
<1> DEFINE D == Dropped(packets)
<1>1. /\ posted' = posted /\ MainQueue' = MainQueue /\ delivered' = delivered
      /\ \A c \in Channels : Queue'[c] = IF c \in D THEN <<>> ELSE Queue[c]
      /\ confirmed' = confirmed \cup UNION {ToSet(Queue[c]) : c \in D}
      /\ D \subseteq Channels
  BY DEF HearsOf, Dropped
<1>2. Started' = Started /\ Had' = Had /\ \A c \in Channels : Carried(c)' \subseteq Carried(c)
  BY <1>1 DEF Started, Had
<1>3. \A c \in D : ToSet(Queue[c]) \subseteq Had
  BY DEF QueueInv, HadByPackets, Dropped
<1> HIDE DEF D
<1>4. ToSet(<<>>) = {} /\ Len(<<>>) = 0 /\ MaxBatch \in Nat
  BY SetOfSeq, SizesAssumption
<1>5. \A x : x \in confirmed' <=> x \in confirmed \/ \E c \in D : x \in ToSet(Queue[c])
  BY <1>1
<1>6. MainIsTail'
  BY <1>1, <1>2 DEF QueueInv, MainIsTail
<1>7. ChannelsApart'
  <2>1. ASSUME NEW c \in Channels
        PROVE  /\ Len(Queue'[c]) <= MaxBatch
               /\ \A i \in 1 .. Len(Queue'[c]) : Queue'[c][i] = Queue'[c][1] + i - 1
               /\ ToSet(Queue'[c]) \subseteq 1 .. Started' /\ ToSet(Queue'[c]) \cap confirmed' = {}
               /\ \A d \in Channels : c # d => ToSet(Queue'[c]) \cap ToSet(Queue'[d]) = {}
    <3>1. CASE c \in D
      <4>1. Queue'[c] = <<>>
        BY <1>1, <3>1
      <4>2. \A i \in 1 .. Len(Queue'[c]) : FALSE
        BY <1>4, <4>1
      <4> QED BY <1>4, <4>1, <4>2
    <3>2. CASE c \notin D
      <4>1. Queue'[c] = Queue[c]
        BY <1>1, <3>2
      <4>2. \A d \in Channels : c # d => ToSet(Queue[c]) \cap ToSet(Queue[d]) = {}
        BY DEF QueueInv, ChannelsApart
      <4>3. ToSet(Queue[c]) \cap confirmed' = {}
        BY <1>1, <1>5, <3>2, <4>2 DEF QueueInv, ChannelsApart
      <4>4. \A d \in Channels : ToSet(Queue'[d]) \subseteq ToSet(Queue[d])
        BY <1>1, <1>4
      <4> QED BY <1>2, <4>1, <4>2, <4>3, <4>4 DEF QueueInv, ChannelsApart
    <3> QED BY <3>1, <3>2
  <2> QED BY <2>1 DEF ChannelsApart
<1>8. NoneDropped'
  <2>1. ASSUME NEW i \in 1 .. Started
        PROVE  i \in confirmed' \/ \E c \in Channels : i \in ToSet(Queue'[c])
    BY <1>1, <1>5 DEF QueueInv, NoneDropped
  <2> QED BY <1>2, <2>1 DEF NoneDropped
<1>9. HadByPackets'
  <2>1. confirmed' \subseteq Had' /\ Had' \subseteq 1 .. Started'
    BY <1>2, <1>3, <1>5 DEF QueueInv, HadByPackets
  <2>2. \A c \in Channels : Queue'[c] # <<>> => Queue'[c] = Queue[c]
    BY <1>1
  <2> QED BY <1>2, <2>1, <2>2 DEF QueueInv, HadByPackets
<1>10. OneInOrder'
  <2>1. \A c \in Channels : ToSet(Queue'[c]) \subseteq ToSet(Queue[c])
    BY <1>1, <1>4
  <2> QED BY <1>2, <2>1 DEF QueueInv, OneInOrder, NotOvertaken
<1> QED BY <1>6, <1>7, <1>8, <1>9, <1>10 DEF QueueInv

\* The client gets the whole of what one channel holds, or nothing.
LEMMA TakeQueues ==
  ASSUME LinkInv, QueueInv, NEW m, Takes(m)
  PROVE  QueueInv'
<1> DEFINE c == Channel(m.packet)
<1>1. /\ posted' = posted /\ MainQueue' = MainQueue /\ FirstSent' = FirstSent
      /\ confirmed' = confirmed /\ Queue' = Queue /\ Started' = Started
  BY DEF Takes, feState, feCore, Started
<1>2. delivered' = IF KeptBy(m) THEN delivered \o m.impulses ELSE delivered
  BY DEF Takes, Decode, KeptBy
<1>3. /\ c \in Channels
      /\ \A d \in Channels : d # c => Carried(d)' = Carried(d)
      /\ KeptBy(m) => Queue[c] = m.impulses /\ Carried(c)' = {m.packet}
      /\ ~KeptBy(m) /\ Queue[c] # <<>> => (Carried(c)' = {} <=> Carried(c) = {})
  BY Taking DEF Carried
<1>4. Had' = IF KeptBy(m) THEN Had \cup ToSet(Queue[c]) ELSE Had
  <2>1. delivered \in Seq(Nat) /\ Queue[c] \in Seq(Nat)
    BY <1>3 DEF LinkInv, CoreTypes
  <2> QED BY <1>2, <1>3, <2>1, SetOfSeq DEF Had
<1> HIDE DEF c
<1>5. MainIsTail' /\ ChannelsApart' /\ NoneDropped'
  BY <1>1 DEF QueueInv, MainIsTail, ChannelsApart, NoneDropped
<1>6. HadByPackets'
  <2>1. confirmed' \subseteq Had' /\ Had' \subseteq 1 .. Started'
    BY <1>1, <1>3, <1>4 DEF QueueInv, HadByPackets, ChannelsApart
  <2>2. ASSUME NEW d \in Channels, Queue[d] # <<>>, Carried(d)' # {}
        PROVE  ToSet(Queue[d]) \subseteq Had'
    <3>1. CASE d = c /\ KeptBy(m)
      BY <1>4, <3>1
    <3>2. CASE ~(d = c /\ KeptBy(m))
      <4>1. Carried(d) # {}
        BY <1>3, <2>2, <3>2
      <4> QED BY <1>4, <2>2, <4>1 DEF QueueInv, HadByPackets
    <3> QED BY <3>1, <3>2
  <2> QED BY <1>1, <2>1, <2>2 DEF HadByPackets, Carried
<1>7. \E d \in Channels : \A i \in ToSet(Queue[d]) : i \in Had' \/ \A j \in Had' : j < i
  BY <1>3, <1>4 DEF QueueInv, OneInOrder, NotOvertaken
<1>8. OneInOrder'
  BY <1>1, <1>7 DEF OneInOrder, NotOvertaken
<1> QED BY <1>5, <1>6, <1>8 DEF QueueInv

LEMMA QueueStep ==
  ASSUME LinkInv, QueueInv, Kinds
  PROVE  QueueInv'
<1>0. CoreTypes
  BY DEF LinkInv
<1>1. CASE Quiet
  BY <1>0, <1>1, CalmQueues DEF Quiet, feCore, clientCore
<1>2. CASE Posts
  BY <1>0, <1>2, PostQueues
<1>3. ASSUME NEW m, Control(m) PROVE QueueInv'
  BY <1>0, <1>3, CalmQueues DEF Control, clientCore
<1>4. ASSUME NEW m, Sends(m) PROVE QueueInv'
  BY <1>0, <1>4, SendQueues
<1>5. ASSUME NEW a, Connects(a) PROVE QueueInv'
  <2>1. HearsOf(HeardIn(a)) /\ \A c \in Channels : Carried(c)' \subseteq Carried(c)
    BY <1>0, <1>5, ConnectsHearing DEF LinkInv
  <2>2. UNCHANGED <<posted, MainQueue, delivered>>
    BY <1>5 DEF Connects, Acknowledge, clientCore
  <2> QED BY <1>0, <2>1, <2>2, HearQueues
<1>6. ASSUME NEW a, Hears(a) PROVE QueueInv'
  <2>1. HearsOf(HeardIn(a)) /\ \A c \in Channels : Carried(c)' \subseteq Carried(c)
    BY <1>0, <1>6, HearsAll DEF LinkInv
  <2>2. UNCHANGED <<posted, MainQueue, delivered>>
    BY <1>6 DEF Hears, Acknowledge, clientCore
  <2> QED BY <1>0, <2>1, <2>2, HearQueues
<1>7. ASSUME NEW a, Tells(a) PROVE QueueInv'
  BY <1>0, <1>7, CalmQueues DEF Tells, feState, feCore
<1>8. ASSUME NEW m, Synchronizes(m) \/ Deaf(m) PROVE QueueInv'
  BY <1>0, <1>8, CalmQueues DEF Synchronizes, Deaf, feState, feCore
<1>9. ASSUME NEW m, Takes(m) PROVE QueueInv'
  BY <1>9, TakeQueues
<1> QED BY <1>1, <1>2, <1>3, <1>4, <1>5, <1>6, <1>7, <1>8, <1>9 DEF Kinds

LEMMA QueueInit == Init => QueueInv
<1> SUFFICES ASSUME Init PROVE QueueInv
  OBVIOUS
<1>1. /\ posted = 0 /\ MainQueue = <<>> /\ delivered = <<>> /\ confirmed = {}
      /\ \A c \in Channels : Queue[c] = <<>>
      /\ ToSet(<<>>) = {} /\ Len(<<>>) = 0 /\ MaxBatch \in Nat
  BY SetOfSeq, SizesAssumption DEF Init
<1>2. Started = 0 /\ Had = {}
  <2>1. Len(MainQueue) = 0 /\ ToSet(delivered) = {} /\ posted = 0
    BY <1>1, Zenon
  <2> QED BY <2>1 DEF Started, Had
<1>3. \A i \in 1 .. 0 : FALSE
  OBVIOUS
<1>4. OneInOrder
  <2>1. 0 \in Channels
    BY NbChannelsAssumption DEF Channels
  <2> QED BY <1>2, <2>1 DEF OneInOrder, NotOvertaken
<1> QED BY <1>1, <1>2, <1>3, <1>4 DEF QueueInv, MainIsTail, ChannelsApart, NoneDropped, HadByPackets

--------------------------------------------------------------------------------
\* The inductive invariant of the link.
Inv == LoopInv /\ LinkInv /\ QueueInv

LEMMA Invariance == Spec => []Inv
<1>1. Init => Inv
  BY LoopInit, LinkInit, QueueInit DEF Inv
<1>2. Inv /\ [Next]_vars => Inv'
  <2> SUFFICES ASSUME Inv, [Next]_vars PROVE Inv'
    OBVIOUS
  <2>1. Kinds
    BY StepKinds DEF Inv, LoopInv
  <2> QED BY <2>1, LoopStep, LinkStep, QueueStep DEF Inv
<1> QED BY <1>1, <1>2, PTL DEF Spec

\* If the FE hears of every packet at the end of a synchronisation, the client
\* has none of the impulses of a channel unless it has had a packet with them.
NotHadBefore ==
  \A c \in Channels : Queue[c] # <<>> /\ Carried(c) = {} => ToSet(Queue[c]) \cap Had = {}

\* What a channel takes from the main queue is new to the client.
LEMMA TakenIsNew ==
  ASSUME CoreTypes, QueueInv
  PROVE  ToSet(Taken) \cap Had = {}
<1>1. MainQueue \in Seq(Nat) /\ Started \in Nat /\ 0 \in Channels
  BY NbChannelsAssumption DEF CoreTypes, QueueInv, MainIsTail, Started, Channels
<1>2. /\ Taken \in Seq(Nat) /\ Len(Taken) <= Len(MainQueue)
      /\ \A i \in 1 .. Len(Taken) : Taken[i] = MainQueue[i]
  BY <1>1, Shares
<1>3. ASSUME NEW i \in 1 .. Len(Taken) PROVE Taken[i] \notin 1 .. Started
  <2>1. i \in 1 .. Len(MainQueue)
    BY <1>1, <1>2
  <2>2. Taken[i] = Started + i
    BY <1>2, <2>1 DEF QueueInv, MainIsTail
  <2> QED BY <1>1, <2>2
<1>4. Had \subseteq 1 .. Started
  BY DEF QueueInv, HadByPackets
<1> QED BY <1>2, <1>3, <1>4, SetOfSeq

LEMMA NotHadStep ==
  ASSUME LinkInv, QueueInv, NotHadBefore, Kinds, LongAckCovers
  PROVE  NotHadBefore'
<1>0. CoreTypes /\ AckedInv /\ SyncInv /\ Queue \in [Channels -> Seq(Nat)] /\ ToSet(<<>>) = {}
  BY SetOfSeq DEF LinkInv, CoreTypes
<1>1. CASE UNCHANGED <<LastReceivedAck, Queue, FirstSent, acked, delivered>>
  BY <1>1 DEF NotHadBefore, Carried, Had
<1>2. ASSUME NEW m, Sends(m) PROVE NotHadBefore'
  <2> DEFINE c == Channel(m.packet)
  <2>1. c \in Channels /\ FirstSent \in [Channels -> 0 .. SendNumber]
    <3>1. SendNumber \in Nat /\ m.packet = SendNumber + 1
      BY <1>0, <1>2 DEF Sends, CoreTypes
    <3>2. m.packet \in Nat
      BY <3>1
    <3> QED BY <1>0, <3>2, ChannelType DEF CoreTypes
  <2>2. /\ UNCHANGED <<LastReceivedAck, acked, delivered>>
        /\ Queue' = [Queue EXCEPT ![c] = Filled(c)]
        /\ FirstSent' = [FirstSent EXCEPT ![c] = IF Queue[c] = <<>> THEN m.packet ELSE @]
    BY <1>2 DEF Sends, clientCore
  <2> HIDE DEF c
  <2>3. ASSUME NEW d \in Channels, d # c \/ Queue[c] # <<>>
        PROVE  Queue'[d] = Queue[d] /\ Carried(d)' = Carried(d)
    BY <1>0, <2>1, <2>2, <2>3 DEF Filled, Carried
  <2>4. Queue[c] = <<>> => Queue'[c] = Taken
    BY <1>0, <2>1, <2>2 DEF Filled
  <2>5. Had' = Had
    BY <2>2 DEF Had
  <2> QED BY <1>0, <2>3, <2>4, <2>5, TakenIsNew DEF NotHadBefore
<1>3. ASSUME NEW a, Connects(a) PROVE NotHadBefore'
  <2>1. /\ a.type = "ACK_SYNC" /\ LastReceivedAck' = a.front /\ HearsOf(HeardIn(a))
        /\ delivered' = delivered /\ a.front \in Int /\ LongAckBits \in Nat
        /\ ConnectionState # "Connected" /\ ConnectionState' = "Connected"
    BY <1>0, <1>3, ConnectsHearing, ConnectsAlone, SizesAssumption DEF Connects, Connected, clientCore
  <2>2. ASSUME NEW c \in Channels, NEW p \in Carried(c) PROVE p \in HeardIn(a)
    <3>1. p \in acked /\ p > LastReceivedAck /\ p \in Int /\ LastReceivedAck \in Int
      BY <1>0 DEF Carried, CoreTypes
    <3>2. PICK m \in Packets : m.packet = p
      BY <1>0, <3>1 DEF SyncInv, AckedPackets
    <3>3. p > a.front - LongAckBits
      BY <2>1, <3>1, <3>2 DEF LongAckCovers, Packets
    <3>4. p < a.front
      BY <1>0, <1>3, <3>2, ConnectsAlone
    <3> QED BY <2>1, <3>1, <3>3, <3>4 DEF HeardIn, LongAck
  <2>3. ASSUME NEW c \in Channels, Queue'[c] # <<>> PROVE Queue'[c] = Queue[c] /\ Queue[c] # <<>> /\ Carried(c) = {}
    BY <2>1, <2>2, <2>3 DEF HearsOf, Dropped
  <2> QED BY <2>1, <2>3 DEF NotHadBefore, Had
<1>4. ASSUME NEW a, Hears(a) PROVE NotHadBefore'
  <2>1. /\ HearsOf(HeardIn(a)) /\ delivered' = delivered
        /\ \A c \in Channels : Carried(c)' = Carried(c) \ HeardIn(a)
    BY <1>0, <1>4, HearsAll DEF Hears, clientCore
  <2>2. ASSUME NEW c \in Channels, Queue'[c] # <<>>
        PROVE  Queue'[c] = Queue[c] /\ Queue[c] # <<>> /\ Carried(c)' = Carried(c)
    BY <2>1, <2>2 DEF HearsOf, Dropped
  <2> QED BY <2>1, <2>2 DEF NotHadBefore, Had
<1>5. ASSUME NEW m, Takes(m) PROVE NotHadBefore'
  <2> DEFINE c == Channel(m.packet)
  <2>1. /\ Queue' = Queue /\ delivered' = IF KeptBy(m) THEN delivered \o m.impulses ELSE delivered
    BY <1>5 DEF Takes, Decode, KeptBy, feState, feCore
  <2>2. /\ c \in Channels
        /\ \A d \in Channels : d # c => Carried(d)' = Carried(d)
        /\ KeptBy(m) => Queue[c] = m.impulses /\ Carried(c)' = {m.packet}
        /\ ~KeptBy(m) /\ Queue[c] # <<>> => (Carried(c)' = {} <=> Carried(c) = {})
    BY <1>5, Taking DEF Carried
  <2>3. Had' = IF KeptBy(m) THEN Had \cup ToSet(Queue[c]) ELSE Had
    <3>1. delivered \in Seq(Nat) /\ Queue[c] \in Seq(Nat)
      BY <1>0, <2>2 DEF CoreTypes
    <3> QED BY <2>1, <2>2, <3>1, SetOfSeq DEF Had
  <2> HIDE DEF c
  <2>4. ASSUME NEW d \in Channels, Queue[d] # <<>>, Carried(d)' = {}
        PROVE  ToSet(Queue[d]) \cap Had' = {}
    <3>1. ~(d = c /\ KeptBy(m)) /\ Carried(d) = {}
      BY <2>2, <2>4
    <3>2. ToSet(Queue[d]) \cap Had = {}
      BY <2>4, <3>1 DEF NotHadBefore
    <3>3. d # c => ToSet(Queue[c]) \cap ToSet(Queue[d]) = {}
      BY <2>2 DEF QueueInv, ChannelsApart
    <3> QED BY <2>3, <3>1, <3>2, <3>3
  <2> QED BY <2>1, <2>4 DEF NotHadBefore
<1> QED
  BY <1>1, <1>2, <1>3, <1>4, <1>5
     DEF Kinds, Quiet, Posts, Control, Tells, Synchronizes, Deaf, feState, feCore, clientCore

LEMMA CoveredInvariance == CoveredSpec => [](Inv /\ NotHadBefore)
<1>1. Init => Inv /\ NotHadBefore
  <2> SUFFICES ASSUME Init PROVE Inv /\ NotHadBefore
    OBVIOUS
  <2>1. \A c \in Channels : Queue[c] = <<>>
    BY DEF Init
  <2> QED BY <2>1, LoopInit, LinkInit, QueueInit DEF Inv, NotHadBefore
<1>2. Inv /\ NotHadBefore /\ [Next /\ LongAckCovers]_vars => (Inv /\ NotHadBefore)'
  <2> SUFFICES ASSUME Inv, NotHadBefore, [Next /\ LongAckCovers]_vars
               PROVE  (Inv /\ NotHadBefore)'
    OBVIOUS
  <2>1. Kinds /\ [Next]_vars
    BY StepKinds DEF Inv, LoopInv
  <2>2. LongAckCovers
    <3>1. CASE UNCHANGED vars
      BY <3>1 DEF LongAckCovers, vars, feVars, hostVars
    <3> QED BY <3>1
  <2> QED BY <2>1, <2>2, LoopStep, LinkStep, QueueStep, NotHadStep DEF Inv
<1> QED BY <1>1, <1>2, PTL DEF CoveredSpec

\* Type correctness, and what the numbers on the two sides are bounded by: the
\* FE has heard of no datagram that the client has not sent, nor the client of
\* one that the FE has not sent.
THEOREM LinkTypes == Spec => []TypeOK
<1>1. Inv => TypeOK
  <2> SUFFICES ASSUME Inv PROVE TypeOK
    OBVIOUS
  <2>1. LoopInv /\ CoreTypes /\ MainIsTail /\ ChannelsApart
    BY DEF Inv, LinkInv, QueueInv
  <2>2. /\ LastReceivedNumber \in 0 .. SendNumber /\ SendNumber \in Nat
        /\ LastReceivedAck \in -1 .. LastReceivedNumber
    BY <2>1 DEF CoreTypes
  <2>3. LastReceivedAck \in -1 .. SendNumber
    BY <2>2
  <2>4. 1 .. Started \subseteq Impulses
    <3>1. posted \in Nat /\ Len(MainQueue) \in Nat
      BY <2>1 DEF CoreTypes
    <3> QED BY <3>1 DEF Started, Impulses
  <2>5. \A c \in Channels : ToSet(Queue[c]) \subseteq Impulses
    BY <2>1, <2>4 DEF ChannelsApart
  <2> QED BY <2>1, <2>3, <2>5 DEF TypeOK, LoopInv, CoreTypes
<1> QED BY <1>1, Invariance, PTL

\* No impulse is ever lost, whatever the network loses, repeats and reorders and
\* however often the link is synchronised: what the client has not decoded waits
\* in the main queue or in a channel, which go on sending it.
THEOREM NothingIsLost == Spec => []NothingLost
<1>1. Inv => NothingLost
  <2> SUFFICES ASSUME Inv, NEW i \in Impulses, i \notin Had PROVE i \in Waiting
    BY DEF NothingLost, Had
  <2>1. /\ posted \in Nat /\ MainQueue \in Seq(Nat) /\ Len(MainQueue) \in Nat
        /\ \A k \in 1 .. Len(MainQueue) : MainQueue[k] = Started + k
        /\ confirmed \subseteq Had
        /\ NoneDropped
    BY DEF Inv, LinkInv, CoreTypes, QueueInv, MainIsTail, HadByPackets
  <2>2. CASE i \in 1 .. Started
    BY <2>1, <2>2 DEF NoneDropped, Waiting
  <2>3. CASE i \notin 1 .. Started
    <3>1. i - Started \in 1 .. Len(MainQueue) /\ Started + (i - Started) = i
      BY <2>1, <2>3 DEF Impulses, Started
    <3>2. MainQueue[i - Started] = i
      BY <2>1, <3>1
    <3>3. i \in ToSet(MainQueue)
      BY <2>1, <3>1, <3>2, SetOfSeq
    <3> QED BY <3>3 DEF Waiting
  <2> QED BY <2>2, <2>3
<1> QED BY <1>1, Invariance, PTL

\* A level of n channels lets at most n - 1 batches be overtaken: an impulse that
\* the client has not had, while it has a later one, is in a channel, and not in
\* the one that delivered last.  With one channel impulses arrive in order.
THEOREM FewOvertaken == Spec => []OvertakenBound
<1>1. Inv => OvertakenBound
  <2> SUFFICES ASSUME Inv PROVE OvertakenBound
    OBVIOUS
  <2>1. /\ posted \in Nat /\ Len(MainQueue) \in Nat /\ Queue \in [Channels -> Seq(Nat)]
        /\ confirmed \subseteq Had /\ Had \subseteq 1 .. Started
        /\ NoneDropped /\ ChannelsApart
    BY DEF Inv, LinkInv, CoreTypes, QueueInv, HadByPackets
  <2>2. PICK c \in Channels : NotOvertaken(c)
    BY DEF Inv, QueueInv, OneInOrder
  <2> DEFINE Places == (Channels \ {c}) \X (1 .. MaxBatch)
  <2>3. ASSUME NEW i \in Overtaken
        PROVE  \E p \in Places : p[2] \in 1 .. Len(Queue[p[1]]) /\ Queue[p[1]][p[2]] = i
    <3>1. PICK j \in Had : i < j /\ i \in Impulses /\ i \notin Had
      BY <2>3 DEF Overtaken, Had
    <3>2. i \in 1 .. Started
      BY <2>1, <3>1 DEF Impulses, Started
    <3>3. PICK d \in Channels : i \in ToSet(Queue[d])
      BY <2>1, <3>1, <3>2 DEF NoneDropped
    <3>4. d # c
      <4>1. i \in Nat /\ j \in Nat
        BY <2>1, <3>1 DEF Impulses, Started
      <4> QED BY <2>2, <3>1, <3>3, <4>1 DEF NotOvertaken
    <3>5. Queue[d] \in Seq(Nat)
      BY <2>1
    <3>6. PICK k \in 1 .. Len(Queue[d]) : Queue[d][k] = i
      BY <3>3, <3>5, SetOfSeq
    <3>7. k \in 1 .. MaxBatch
      BY <2>1, <3>5, SizesAssumption DEF ChannelsApart
    <3>8. <<d, k>> \in Places /\ <<d, k>>[1] = d /\ <<d, k>>[2] = k
      BY <3>4, <3>7
    <3> HIDE DEF Places
    <3> QED BY <3>6, <3>8
  <2> DEFINE place == [i \in Overtaken |->
                         CHOOSE p \in Places : p[2] \in 1 .. Len(Queue[p[1]]) /\ Queue[p[1]][p[2]] = i]
  <2>4. \A i \in Overtaken : place[i] \in Places /\ Queue[place[i][1]][place[i][2]] = i
    BY <2>3
  <2>5. place \in [Overtaken -> Places]
    BY <2>4
  <2> HIDE DEF place
  <2>6. place \in Injection(Overtaken, Places)
    BY <2>4, <2>5 DEF Injection, IsInjective
  <2>7. /\ IsFiniteSet(Channels \ {c}) /\ Cardinality(Channels \ {c}) = NbChannels - 1
    <3>1. IsFiniteSet(0 .. NbChannels - 1) /\ Cardinality(0 .. NbChannels - 1) = NbChannels
      BY NbChannelsAssumption, FS_Interval
    <3> QED BY <3>1, FS_RemoveElement DEF Channels
  <2>8. IsFiniteSet(1 .. MaxBatch) /\ Cardinality(1 .. MaxBatch) = MaxBatch
    <3>1. MaxBatch \in Nat /\ MaxBatch > 0
      BY SizesAssumption
    <3> QED BY <3>1, FS_Interval
  <2>9. IsFiniteSet(Places) /\ Cardinality(Places) = (NbChannels - 1) * MaxBatch
    <3>1. /\ IsFiniteSet(Places)
          /\ Cardinality(Places) = Cardinality(Channels \ {c}) * Cardinality(1 .. MaxBatch)
      BY <2>7, <2>8, FS_Product
    <3> QED BY <2>7, <2>8, <3>1
  <2>10. Cardinality(Overtaken) <= Cardinality(Places)
    BY <2>6, <2>9, FS_Injection
  <2> QED BY <2>9, <2>10 DEF OvertakenBound
<1> QED BY <1>1, Invariance, PTL

\* The link is a pipe for impulses: every step of the FE, of the network and of
\* the client is one in which the pipe takes an impulse, delivers a whole batch
\* that the client has not had, or confirms what it has had, or one that leaves
\* the pipe alone; as long as every synchronisation ends before the long ack has
\* lost sight of a packet that the FE has not heard of.
THEOREM LinkImplementsPipe == CoveredSpec => ImpulsesArriveOnce
<1>1. Init => Pipe!PipeInit
  BY DEF Init, Pipe!PipeInit
<1>2. Inv /\ NotHadBefore /\ [Next /\ LongAckCovers]_vars => [Pipe!PipeNext]_(Pipe!pipeVars)
  <2> SUFFICES ASSUME Inv, NotHadBefore, [Next]_vars PROVE [Pipe!PipeNext]_(Pipe!pipeVars)
    OBVIOUS
  <2> USE DEF Pipe!pipeVars
  <2>1. Kinds
    BY StepKinds DEF Inv, LoopInv
  <2>2. LinkInv /\ QueueInv /\ CoreTypes /\ AckedInv /\ SyncInv
    BY DEF Inv, LinkInv
  <2>3. CASE Quiet \/ (\E m : Control(m) \/ Sends(m)) \/ (\E a : Tells(a))
             \/ \E m : Synchronizes(m) \/ Deaf(m)
    BY <2>3 DEF Quiet, Control, Sends, Tells, Synchronizes, Deaf, feState, feCore, clientCore
  <2>4. CASE Posts
    BY <2>4 DEF Posts, clientCore, Pipe!PipeNext, Pipe!Post
  <2>5. ASSUME NEW packets, HearsOf(packets), UNCHANGED <<posted, delivered>> PROVE Pipe!PipeNext
    <3> DEFINE batch == UNION {ToSet(Queue[c]) : c \in Dropped(packets)}
    <3>1. \A c \in Dropped(packets) : ToSet(Queue[c]) \subseteq Had /\ ToSet(Queue[c]) \cap confirmed = {}
      BY <2>2 DEF QueueInv, HadByPackets, ChannelsApart, Dropped
    <3>2. batch \in SUBSET ToSet(delivered) /\ batch \cap confirmed = {}
      BY <3>1 DEF Had
    <3>3. confirmed' = confirmed \cup batch
      BY <2>5 DEF HearsOf
    <3> HIDE DEF batch
    <3>4. Pipe!Confirm(batch)
      BY <2>5, <3>2, <3>3 DEF Pipe!Confirm
    <3>5. batch \in SUBSET Pipe!ToSet(delivered)
      BY <3>2 DEF Pipe!ToSet, ToSet
    <3> QED BY <3>4, <3>5 DEF Pipe!PipeNext
  <2>6. ASSUME NEW a, Connects(a) PROVE Pipe!PipeNext
    <3>1. HearsOf(HeardIn(a)) /\ UNCHANGED <<posted, delivered>>
      BY <2>2, <2>6, ConnectsHearing DEF Connects, clientCore
    <3> QED BY <2>5, <3>1
  <2>7. ASSUME NEW a, Hears(a) PROVE Pipe!PipeNext
    <3>1. HearsOf(HeardIn(a)) /\ UNCHANGED <<posted, delivered>>
      BY <2>2, <2>7, HearsAll DEF Hears, clientCore
    <3> QED BY <2>5, <3>1
  <2>8. ASSUME NEW m, Takes(m), ~KeptBy(m) PROVE UNCHANGED Pipe!pipeVars
    BY <2>8 DEF Takes, Decode, KeptBy, feState, feCore
  <2>9. ASSUME NEW m, Takes(m), KeptBy(m) PROVE Pipe!PipeNext
    <3> DEFINE q == m.impulses
               first == q[1]
               last == q[1] + Len(q) - 1
    <3>1. /\ Channel(m.packet) \in Channels /\ Queue[Channel(m.packet)] = q /\ q # <<>>
          /\ Carried(Channel(m.packet)) = {}
      BY <2>2, <2>9, Taking DEF KeptBy
    <3>2. /\ q \in Seq(Nat) /\ Len(q) \in Nat /\ ToSet(q) \cap Had = {}
          /\ \A i \in 1 .. Len(q) : q[i] = q[1] + i - 1
          /\ ToSet(q) \subseteq 1 .. Started
      <4>1. q \in Seq(Nat) /\ Len(q) \in Nat
        BY <2>2, <3>1 DEF CoreTypes
      <4>2. ToSet(q) \cap Had = {}
        BY <3>1 DEF NotHadBefore
      <4>3. /\ \A i \in 1 .. Len(q) : q[i] = q[1] + i - 1
            /\ ToSet(q) \subseteq 1 .. Started
        BY <2>2, <3>1 DEF QueueInv, ChannelsApart
      <4> QED BY <4>1, <4>2, <4>3
    <3>3. delivered' = delivered \o q /\ UNCHANGED <<posted, confirmed>>
      BY <2>9 DEF Takes, Decode, KeptBy, feState, feCore
    <3> HIDE DEF q
    <3>4. 1 .. Started \subseteq 1 .. posted
      BY <2>2 DEF CoreTypes, Started
    <3>5. Len(q) > 0 /\ q[1] \in Nat /\ \A x : x \in ToSet(q) <=> \E i \in 1 .. Len(q) : q[i] = x
      BY <3>1, <3>2, SetOfSeq
    <3>6. first \in ToSet(q) /\ last \in ToSet(q)
      <4>1. 1 \in 1 .. Len(q) /\ Len(q) \in 1 .. Len(q) /\ q[Len(q)] = q[1] + Len(q) - 1
        BY <3>2, <3>5
      <4> QED BY <3>5, <4>1
    <3>7. ASSUME NEW x \in first .. last PROVE x \in ToSet(q)
      <4>1. x - first + 1 \in 1 .. Len(q) /\ q[1] + (x - first + 1) - 1 = x
        BY <3>2, <3>5
      <4>2. q[x - first + 1] = x
        BY <3>2, <4>1
      <4> QED BY <3>5, <4>1, <4>2
    <3>8. q = Pipe!Batch(first, last)
      <4>1. last - first + 1 = Len(q)
        BY <3>2, <3>5
      <4>2. q = [i \in 1 .. Len(q) |-> q[i]]
        BY <3>2
      <4>3. \A i \in 1 .. Len(q) : q[i] = first + i - 1
        BY <3>2
      <4> HIDE DEF first, last
      <4> QED BY <4>1, <4>2, <4>3 DEF Pipe!Batch
    <3>9. first <= last /\ first \in 1 .. posted /\ last \in 1 .. posted
      BY <3>2, <3>4, <3>5, <3>6
    <3> HIDE DEF first, last
    <3>10. (first .. last) \cap Pipe!ToSet(delivered) = {}
      BY <3>2, <3>7 DEF Had, Pipe!ToSet, ToSet
    <3>11. Pipe!Deliver(first, last)
      BY <3>3, <3>8, <3>9, <3>10 DEF Pipe!Deliver
    <3> QED BY <3>9, <3>11 DEF Pipe!PipeNext
  <2> QED BY <2>1, <2>3, <2>4, <2>6, <2>7, <2>8, <2>9 DEF Kinds
<1> QED BY <1>1, <1>2, CoveredInvariance, PTL DEF CoveredSpec, ImpulsesArriveOnce, Pipe!PipeSpec
===============================================================================
