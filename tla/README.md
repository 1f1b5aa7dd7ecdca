# Ryzom Core: clock, mirror and client sessions of a shard, specified

These modules specify the parts of the Ryzom server that the others stand on.
Inside the shard: how its processes agree on the game cycle, how the mirror
services exchange the changes of a cycle, and how the rows of the mirror are
shared out. At its border: how the frontend and a game client keep a link over
datagrams that get lost, and how the sessions of the users begin and end in the
eyes of the frontend, the welcome service and the game service. They are written
from the code, model-checked with TLC on small shards, and partly proved with
TLAPS for shards of any size.

Paths: `TS` = `src/ryzom/server/src/tick_service`, `MS` =
`src/ryzom/server/src/mirror_service`, `FE` =
`src/ryzom/server/src/frontend_service`, `EGS` =
`src/ryzom/server/src/entities_game_service`, `CL` = `src/ryzom/client/src`, `GS` =
`src/ryzom/common/src/game_share`.

## 1. The system

A shard is a set of processes on several machines that talk through NeL's layer
5 network (`CUnifiedNetwork`): ordered, reliable connections that can break, and
up and down callbacks that say so. Every process is one thread that runs its
receive loop and its handlers; a handler is never interrupted by another one of
the same process. All the difficulty is between processes: messages on
different connections are not ordered, and any process may die between two
messages.

        TICKS                 tick service, with the range manager
          |  TICK / TOCK, GRG / RG
        MS on each machine    mirror service: tick proxy + automaton + mirror
          |  \__ DELTA to and from each other MS
          |  TICK / TOCK
        FE, EGS, AIS, GPMS... client services: tick event handler + CMirror
          |  SYNC, PROBE, NORMAL... / ACK_SYNC, ACK_PROBE, NORMAL...  (UDP)
        game clients

One game cycle: TICKS sends TICK to the mirror services; each passes it to the
services of its machine and waits for their TOCKs; it then sends the changes its
services made to the other mirror services, waits for theirs, answers TICKS, and
applies what it received. TICKS sends the next TICK when nobody it waits for
still owes an answer. An MS also holds its changes back while a service of its
machine has not acknowledged the trackers it was told of.

A user comes with a cookie of the welcome service (WS), logs in at a frontend (FE),
which gives it a client id, synchronises it, and tells the WS and the EGS. In
each tick the FE reads datagrams, lets its handlers post impulses for the
clients, and sends each client one packet. A client that quits its character
waits in limbo mode, without a client id, until the EGS and the IOS let it come
back, it logs in anew, or its time is over.

### Components

| Component | State | Operations | Hard behaviour | What makes it correct |
|---|---|---|---|---|
| Tick service, `TS/tick_service.*` | mode, pause, steps granted, a slot per service id (registered, tock received, tocking, threshold, missing tocks), cycle, saved cycle | register, TOCK, disconnection, halt, resume, pause, step, save, reload | nothing polls: a tick leaves only if a handler looks; thresholds with messages under way; crash back to an old cycle | no lost wake-up, run-ahead bounded, both ends agree on the cycle |
| Tick proxy, `MS/tick_proxy.*` | state of the tick, services of the machine, who has tocked | master TICK and sync, service register, TOCK, leave | a service that comes or goes during a tick | no TOCK is counted twice or missed, no TICK meets a tick that is not over |
| MS automaton, `MS/ms_automaton.cpp` | deltas expected and received, delta sent, deltas before the sync | next task, receive delta, early deltas | deltas overtake TICKs; a sender is lost after its delta was counted | answers only with all deltas; never stuck |
| MS data sets and ranges, `MS/mirror_service.*`, `MS/data_set_ms.*` | owned ranges, remote MS list, trackers, subscriptions, tags | declare a type, give range, release, add and remove a service or MS | a service ends before its answer; the order of removals and additions of entities | ranges belong to services that run |
| Range manager, `TS/range_mirror_manager.*` | ordered list of ranges per data set | get, release, reacquire, loss of an MS | requests and releases cross losses and restarts | no row has two owners, none leaks, none is refused while free |
| Tick event handler, `GS/tick_event_handler.*` | cycle, sync | register, TICK, MS down | MS restarts under it | plays each cycle once, with the others |
| Mirror client, `GS/mirror.*`, `GS/mirrored_data_set.*` | data sets in shared memory, trackers, own ranges | add and remove an entity, track a property | trackers shared with the MS | an entity is added and removed once per observer |
| NeL network, `src/nel/src/net` | buffers, sockets, send and receive tasks, module gateways | send, receive, connect, disconnect | threads, queues at their limit | order, delivery, no lost wake-up |
| NeL misc, `src/nel/src/misc` | tasks, locks, FIFOs, factories | lock, enqueue, run | threads | exclusion, order |
| Naming service | names, ids, addresses | register, unregister, look up | ids given out again | an id belongs to one process |
| Login, welcome services | users, cookies, pending connections | log in, choose a shard, connect | three services and a client out of order | a cookie lets one user in once |
| Admin services | services to run, orders | start, stop, supervise | restart loops | a service is started once |
| Frontend: link, `FE/fe_receive_sub.*`, `FE/fe_send_sub.cpp`, `FE/impulse_encoder.*`, `FE/client_host.*` | state of each client's connection, packet numbers, impulse channels | synchronise, send, receive acknowledgements, find a lag, stall | loss, repetition, reordering of datagrams; synchronisations that interrupt one another | an impulse arrives once, none is lost, host and client end up in states that fit |
| Frontend: sessions, `FE/fe_receive_sub.*`, `FE/frontend_service.cpp` | client hosts by id, limbo clients, removals, cookies | log in, quit, come back, remove, refuse; EGS up and down | ids given out again; late removals; order of what others are told | one session per user, removals meet their client, WS and EGS know who is there |
| Client network, `CL/network_connection.*`, `CL/impulse_decoder.*` | state, last packets, acknowledgements | answer SYNC and PROBE, acknowledge, decode | old packets of an earlier synchronisation | an impulse is decoded once |
| Backup service and interface | files, pending saves, acknowledgements | save, load, append | partial writes, service restarts | what is acknowledged is on disk |
| EGS | players, guilds, teams, trades, outposts | connection of a user, character selection, disconnection; gameplay | a user comes back while its character is still in game; items shared by two actions | no player without a user, a refused user is sent away; items and money are conserved |
| AI, GPMS, IOS and mail | creatures, positions and vision, chat | behaviour, vision, routing | large and data driven | vision is symmetric with presence |
| Shard unifier, session browser | sessions, characters, participants | create, join, leave | several databases | a character is in one session |
| Persistent data services | log, references | log, replay | crash during a log | replay restores the data |
| Utility services | logs, patches, simulations | - | - | - |
| Client, NeL engine, tools, web, packaging | - | - | - | - |

`PROJECT.json` lists each with its status and the reason it is not modelled.

## 2. Modules

    TickService ----- TickShard ------ MCTickShard, TickShardProofs
         \
          MirrorService -- GameCycle - MCGameCycle, GameCycleProofs -- ShardDeltasProofs
                               \ INSTANCE
                                LockStep -- LockStepProofs
    RangeManager ---- MCRangeManager, RangeManagerProofs
    ClientLink ------ ClientLinkProofs
        \ INSTANCE
         ImpulsePipe -- ImpulsePipeProofs
    UserSessions ---- MCUserSessions, UserSessionsProofs

* **TickService** is `tick_service.cpp`: its variables are the members of
  `CTickService` (`StepCount` is `_StepCount`, and so on), the record
  `CClientInfos` the struct of that name. One action per callback or command.
  `checkTockReceived()` and `broadcastTick()` end most handlers, so they are
  operators that take the slots the handler has just computed: a handler is one
  step, with its whole call. Process start (`Start`, `Restart`) is `init()`, with
  the cycle read from the backup file; `Stop` is `release()` or a crash.
* **TickShard** adds clients, seen as TICKS sees them: the tick proxy from its
  registration to its TOCK, with the work of the tick taken as one step of
  unknown length. It is the module for thresholds, operators' commands and
  restarts of TICKS.
* **MirrorService** is the tick proxy and automaton of each MS in full. The
  process is a record `ms[m]` (`Services`, `NbTocked`, `DeltaSent`,
  `NbReceived`, `NbExpected`, ...), because `doNextTask()`, which nearly every
  handler ends with, is a function of that record and of what is on the network.
  `ClientServices`, `NbExpectedATAcknowledges` and `BlockedAwaitingATAck` are the
  members of these names: a service that declares a data set (`DeclareDataSets`) is
  told the trackers of the others of its machine, they are told of its tracker, and
  the automaton is blocked until each is acknowledged (`CbForwardACKATE`) or its
  service is gone (`NoLongerClient`, in `CbServiceDown`).
* **GameCycle** composes TICKS, mirror services and client services (the tick
  event handler, and the declaration and acknowledgements of `CMirror`) and states
  what holds of the whole shard.
* **LockStep** is the abstract promise: players join, play the present cycle,
  leave, and the cycle advances when all have played. GameCycle is checked to
  implement it: `cycle` is the cycle of TICKS, and `played[s]` is the cycle of
  service `s` while it is synchronised with a mirror service that runs, and
  "absent" otherwise.
* **RangeManager** is `range_mirror_manager.*` and the part of
  `mirror_service.cpp` that talks to it, for one data set (the code handles each
  on its own). `rangeList` is `_RangeList` without its last, unbounded element;
  `owned[m][s]` is `_ClientServices[s].OwnedRanges` of the MS `m`.
* **ClientLink** is one `CClientHost` with one level of its `CImpulseEncoder`, the
  tick of the frontend's main loop, and the `CNetworkConnection` of the client with
  its `CImpulseDecoder`. Variables have the names of the members. `toClient` and
  `toServer` are the *sets* of datagrams ever sent: one that stays in the set can
  be received late, twice or never, so loss, repetition and reordering need no
  actions of their own. A tick of the FE is `BeginTick`, any number of receptions
  and `AddImpulse`s, then one sending action, as in `onTick()`. An impulse is the
  rank at which it was posted. The bit mask of a normal message and the long ack of an
  ACK_SYNC (`LongAck`) tell of the last `AckBits` and `LongAckBits` packets: 32 and
  512 (`NumBitsInLongAck`) in the code.
* **ImpulsePipe** is what the channels promise to whoever posts an impulse:
  batches of impulses posted one after the other arrive whole and once, and only
  what has arrived is confirmed. ClientLink is checked to implement it.
* **UserSessions** is the part of the FE that knows who is there: `hosts` is
  `_ClientIdCont` (the hosts of `_ClientMap` are `Live`), `LimboClients`,
  `PendingUsers` and `toRemove` (`_ClientsToRemove`) are the containers of the code.
  Opposite are the players of the EGS (`players`, `DisconnectedUser`), with messages
  on their way in both directions. What the WS was told is history: `wsPlayers`
  counts, `wsOnline` keeps the last message. A player leaves the EGS when the FE says
  that its user has gone, when the EGS refuses the user, at the end of a countdown, or
  when its character cannot enter the game (`CharRefused`: no position in
  `cbSelectChar`, a character that is unknown or not in the mirror in `cbClientReady`).

What is left out of the modelled parts, because no property depends on it: the
time of day and the sleep between ticks (a tick may leave at any time), measures
and displays, the content of deltas and of messages forwarded between services,
entity rows and what a tracker is for, the content and size of impulses (`MaxBatch`
fit in a packet), and what clients send up.

## 3. What is assumed of the environment

* A connection delivers in order. When it breaks, the receiver gets a prefix of
  what was on its way and then the down callback; what is sent to a process that
  has ended is lost. The prefix is any length in TickShard and RangeManager, and
  0 to 2 messages in GameCycle.
* The end of a connection is read before a new process takes the same service id
  (`HostStart`, `MSStart`, `SvcStart`).
* An id of a client service is free (`IdFree`) when the mirror service has read the
  end of the service that had it. That is what the naming service sees to: it holds
  the id of an ended service until every service has acknowledged the end
  (`doRemove` and `checkWaitingUnregistrationServices` of `ryzom_naming_service.cpp`),
  and a service acknowledges in the handler that does what it does about it. What the
  mirror service has *sent* then can still be on its way: a release to TICKS, an
  answer to a request that was made for the old service. RangeManager has that
  (`Spec`), with up to `MaxUnread` messages on a connection when a service starts. Left
  out is the time-out of the naming service, which stops waiting for an
  acknowledgement after 10 s.
* `SlowStartSpec` of RangeManager assumes in addition that a process takes longer to
  start than a message needs to be read (`SlowStarts`). This is an assumption about
  times that nothing in the code enforces. Only the properties about what is recorded for
  an owner need it: `OwnedIsRecordedBeforeRestart` is false without it, because `releaseRanges()`
  frees by owner id alone and the late release of the old service takes the
  ranges of the new one.
* `CoveredSpec` of ClientLink assumes that each synchronisation ends before a packet
  sent since the last acknowledgement is too old for the long ack (`LongAckCovers`),
  that is, within 512 datagrams of the FE, which at one in a tick are tens of seconds.
  Only `ImpulsesArriveOnce` needs it. If a synchronisation takes longer, the
  acknowledgement of a packet that the client took before is not told, the FE sends its
  impulses again, and a client whose decoder was reset (`CL/network_connection.cpp:1476`)
  takes them a second time. Nothing is lost then: the other properties of the link are
  proved of `Spec`, where synchronisations last as long as they like.
* A client service quits when its mirror service ends (`CMirror::detectLocalMS`);
  a service without a mirror stays. Both are possible in `CbTicksDown`.
* A service declares its data sets at any moment after its registration with the
  tick proxy (`CTickEventHandler::init` comes first in `CMirror::init`), as an MS
  says when it is ready after the range manager has answered.
* Datagrams between the FE and a client are lost, repeated, delayed and reordered
  without limit. A lag is found, a packet is sent again and a probe is due at any
  moment at which the code compares times.
* In UserSessions an address stands for an address and its QUIC connection. Each
  user has its own first-in first-out connection to the EGS: no handler of the EGS
  looks at two users, so the order between users tells nothing. Times are left out:
  limbo and disconnection times are over at any moment. The development modes
  (invalid cookies accepted, user ids given by the FE) are left out.
* Configuration: an MS registers with `tocking = true`, `threshold = 0` in the
  shards of GameCycle; TickShard takes other values too.

## 4. Runs

All bounds are CONSTANTS of the cfgs. Counters of the code wrap at `CycleMod` and
`CountMod`. `MaxQueue` limits how many messages wait on one connection, `MaxCycle` is the
cycle after which TICKS reads nothing more, `MaxCrashes` the number of failures,
`MaxUnread` how many messages may wait when a service starts, `MaxDeclares` how many
types it declares;
`MaxImpulses`, `MaxTicks`, `MaxClientSends`, `MaxLags`, `MaxStalls`, `MaxCookies`,
`MaxQuitId` and `MaxEgsStarts` limit how often each of these happens.

| Run | Instance | Question and result |
|---|---|---|
| TickThresholds | 2 hosts, thresholds 0 and 1, tocking or not, both sending modes, all commands, host crashes | How far does TICKS run ahead? By at most the threshold and one tick of each client it waits for, messages under way included (`RunAheadBound`); what it counts as missing obeys the same bound, and an empty slot is clean (`MissingBound`). 630,610 states |
| TickLive | 2 hosts, crashes of hosts and of TICKS, which comes back with an old cycle, without bound; halts, pauses | `NeverIdle`: ticks that nothing but the clients holds back always have a client whose TOCK will come. `CycleAgreement`: cycle and ticks under way at a host give the cycle of TICKS. `TicksGoOn`: ticks go on for ever once crashes of TICKS, halts and pauses end. 157,172 states |
| ShardCrash | 2 machines with a service each, one MS a pure receiver, halts, a crash of any MS or service at any moment, 3 cycles | The assertions of `sendTicks`, `cbTock`, `receiveDeltaFromRemoteMS` and `doNextTask` hold, and the shard implements LockStep. 687,065 states |
| ShardLive | 2 MS, two services on one machine, one of which uses the mirror, one service crash, 2 cycles | `CyclesGoOn`: the shard gets to its last cycle whoever comes or goes during a tick, also when the automaton is blocked on an acknowledgement. `AnswersWithAllDeltas`: no MS answers a cycle before it has the delta of each MS it waits for. 155,844 states |
| Ranges | `SlowStartSpec`: 2 MS, 2 services that start again with the same ids, up to two types each, requests of 1 or 2 rows, 4 rows, a crash of an MS or of TICKS | `RangesApart`: no row has two owners. `TakenIsUsed`: a range that is taken has a running owner or its release is on the way, restarts included. `RefusedOnlyIfFull`: the search misses no place. `OwnedIsRecordedBeforeRestart`: until TICKS restarts, what a service was given is in its name. 1,205,860 states |
| LinkLossy | `CoveredSpec`: 2 channels, packets of 2 impulses, 4 impulses, 5 ticks, 4 datagrams of the client, a lag and a stall, a long ack of 3 packets | `ImpulsesArriveOnce`: the link implements ImpulsePipe. `NothingLost`: what the client has not had is still held. `OvertakenBound`: with n channels at most n - 1 batches are overtaken. `TicksAgreeUnlessInterrupted`: the client gives each packet the tick it was sent at, unless a PROBE or a STALLED message came between it and the SYNC. 2,162,751 states |
| Sessions | 2 users, 2 addresses, 1 or 2 client ids, 2 cookies, 2 QUITs of a client, an EGS that crashes and is started again | Who is there, for the FE, the WS and the EGS: `OneSession`, `RemovalReachesItsClient`, `WSCountsSessions`, `WSKnowsWhoIsOnline`, `ToldOnce`, `NoGhostPlayer`, `RefusedLeaves`, `QuitServedOnce`. 1,680,466 states |
| TickRestartAssert, ShardHaltedStart, ShardDeltasCrash, RangesReacquired, LinkResync | see section 5 | each finds its counterexample |

Why the bounds are enough: two clients are the least for one to hold the other
back, and for a service to come, go or owe an acknowledgement while another one
is waited for. Two mirror services are the least for deltas to overtake TICKs; the
third of ShardDeltasCrash is the least for a delta of one to be taken for that of
another. With `CountMod = 3` and thresholds 0 and 1 the 16-bit counter wraps, with
`CycleMod = 2` so does the cycle, both many times. In ShardCrash `MaxCycle = 3` has a
first cycle (deltas before the sync), a middle one and one with services that came
late, and a crash can fall in each; in ShardLive, which loses no MS, two cycles are
enough for an MS that comes between them. With one of two services using the mirror
the automaton is blocked on that service alone, which is the case in which only the
handler that ends it can go on (with both the run has 883,494 states and passes
too). In Ranges the three free rows hold a range of two and one of one and then
refuse, and ranges of one row leave holes. In LinkLossy two channels and two packets
per channel are what lets an impulse overtake and a packet number come back to its
channel; the lag and the stall each lead to a second synchronisation, with datagrams
of the first still under way. A long ack of three packets reaches back over a PROBE and
a SYNC and no further, so a synchronisation can take longer and is cut off by
`CoveredSpec`, and with one packet less `ImpulsesArriveOnce` fails. In Sessions two users and two addresses let one take
the other's id or address, one client id makes the FE full, and two QUITs let one be
late.

The two assumptions of section 3 are in these runs, but only `OwnedIsRecordedBeforeRestart` and
`ImpulsesArriveOnce` need them: the theorems about the others are of `Spec`, and the others were also
model-checked with it. Those of Ranges were with `MaxUnread = 1`, `MaxDeclares = 1` and
`MaxRows = 3` (3,266,827 states), those of LinkLossy with a long ack of one packet, which
tells of no packet at all (2,173,298 states).

Deadlock is checked in the Tick runs, Ranges and Sessions. It is not in the shard
runs and the Link runs: their bounds stop the model, and in ShardLive `CyclesGoOn`
says what a deadlock check would have said. Symmetry is used in TickThresholds,
Ranges and Sessions, none of which checks liveness.

Fairness (TickLive, ShardLive and ShardHaltedStart): each process keeps running its
receive loop (`TicksReceive`, `HostReceive`, `MSReceive`, `SvcReceive`, `TicksStep`),
finishes the work of a tick (`HostTock`), and registers with the server it sees
(`MSConnects`, `CbTicksUp`), each weakly fair. That is the main loop of
`CUnifiedNetwork::update()`, which reads every connection in turn. Starts, crashes,
halts, pauses, commands and the declaration of data sets have no fairness.
The link has no liveness property: over datagrams that may all be lost nothing is
bound to arrive, and the state that LinkResync shows is only left when the FE finds a
lag, which the bounds of the model forbid after `MaxLags`.

## 5. Where the code disagrees with what it says

Each of these is a run in which TLC finds the counterexample.

* **TickRestartAssert** - When TICKS restarts during a tick, the proxies stay
  `ExpectingLocalTocks`; the first TICK of the new TICKS fails
  `nlassert( State == ExpectingMasterTick )` (`MS/tick_proxy.cpp:325`) and takes
  the mirror service down.
* **ShardHaltedStart** - Cycle 0 means "not synchronised" to
  `receiveDeltaFromRemoteMS()` (`MS/ms_automaton.cpp:395`). If the shard is
  halted before its first tick and then resumed, the delta of cycle 1 can be
  put aside for a sync that has already come, and the shard waits for ever.
* **ShardDeltasCrash** - `removeRemoteMS()` takes back the expectation of a lost
  MS and not its delta that was counted (`MS/mirror_service.cpp:347`); the MS
  then answers the cycle with the delta of another one missing.
* **RangesReacquired** - `reacquireRange()` puts a range in the first place it
  fits in, not where its owner has it (`TS/range_mirror_manager.cpp:520`), and a
  mirror service tells unanswered requests as if they were ranges. One of these,
  told first, takes the row that another service owns.
* **LinkResync** - An ACK_SYNC is taken if its code is `LastSentSync`, which only
  changes when one is taken and not when a synchronisation begins
  (`FE/fe_receive_sub.cpp:1331`). In the counterexample the client answers a SYNC of code
  1; a lag makes the FE probe; the client answers a repeated SYNC, meets a PROBE,
  and sends an ACK_PROBE. The FE synchronises again, with code 1 again, takes the late
  ACK_SYNC, and is Connected, while the client, in the state Probe, drops the normal
  packets it now gets. They also put off the ACK_PROBE that it would send after 300 ms
  without one (`CL/network_connection.cpp:2504`, `:2510`), so it says nothing at all, until
  `updateClientsStates()` (`FE/frontend_service.cpp:1703`) finds after `_ClientLagTime` that
  it lags, probes it and synchronises once more. So the state ends, but no impulse
  arrives meanwhile, and it begins with a synchronisation that succeeded. With a `LastSentSync` that
  is incremented whenever a synchronisation begins, `ConnectedClientListens` holds in
  the instances tried. Ticks suffer from the same: two SYNCs of one code, with PROBEs
  or a stall between them, tell different ticks, and the answer to the older one ends
  the synchronisation of the newer one. A client that has missed the newer SYNC is then
  wrong about the tick of every packet. It takes two lags (or a stall) to get there,
  which is why the condition of `TicksAgreeUnlessInterrupted` is about the datagrams
  between the SYNC and the packet.

Two more disagreements are in the models as the code has them, without a run of
their own. In step by step mode the command `send` grants a step
(`TS/tick_service.h:271`) and nothing takes it: `enableSend()` does not call
`checkTockReceived()`, unlike `resumeTick()` and `pause`, so with all the TOCKs in no
tick leaves (`EnableSend` in TickService; `NeverIdle` is claimed of the continuous
mode). And a user whose character leaves by the countdown of a quit stays in
`_DisconnectedUser` until the next `tickUpdate()` (`EGS/player_manager/player_manager.cpp:1793`):
if it comes back before, its new player has a disconnection time of 0 and is removed
at once, and the FE is not told (`sentAway` in UserSessions, which `RefusedLeaves`
excepts). The same goes for a character that cannot enter the game
(`EGS/entity_manager/entity_callbacks.cpp:820`): the EGS disconnects the player, and its
user keeps its session at the FE.

The passing runs do not ask for what these show to fail: AnswersWithAllDeltas and
CyclesGoOn are claimed of shards that lose no MS and are not halted before their
first cycle, MasterTickExpected in ShardCrash of a TICKS that keeps running,
OwnedIsRecorded of a range manager that has not been restarted and services that start
slowly, ImpulsesArriveOnce of synchronisations that the long ack covers, and
TicksAgreeUnlessInterrupted of a packet that no PROBE or STALLED message separates from
the SYNCs of the code that the client has.

## 6. Proofs

TLAPS checks these for all values of the constants, from the ASSUMEs of the
modules alone.

The tick service (`TickShardProofs`; any set of hosts, any registrations, any widths
of the counters; restarts of TICKS included, `Next` and not only `TicksAlive`):

* `TypeCorrect`: `Spec => []TypeOK`. TypeOK is inductive as it stands. The
  lemmas follow the modules: sequences of messages, `BroadcastTick`,
  `CheckTockReceived`, then one lemma per group of actions.
* `NoLostWakeUp`: `Spec => []NeverIdle`. NeverIdle is inductive together with
  TypeOK. The heart is `CheckNotIdle`: whatever slots a handler hands over,
  `checkTockReceived()` leaves either somebody who blocks (and so has not
  answered) or slots that were all just sent a tick. The rest of the proof shows
  that each handler that does not call it cannot make NeverIdle false.
* `MissingBounded`: `Spec => []MissingBound`. The bound on the missing TOCKs
  is not inductive by itself. It needs that a slot whose TOCK is received is
  within its threshold, and that a slot nobody is in is the empty one, since
  registration resets nothing; both are parts of `SlotBound`.
* `CyclesAgree`: `Spec => []CycleAgreement`. The invariant says what the link of a host
  can be (`Link`): open, and then the queues hold what the protocol says and nothing of
  an earlier connection (`Open`); ended by TICKS, with the end last in the queue of the
  host (`Ending`); or none, and TICKS may have the end of the host still to read
  (`Apart`). It was model-checked on 395,252 states before it was proved. Each step is
  a lemma about the link it changes; `TickLink` shows that a tick keeps the link any
  handler hands over, and `AddMod`, that remainders and additions commute, is
  proved from the division alone. In an open link the messages to count are all
  there is in a queue, so counting is only needed at the end (`NbOfAll`).
* `NeverTooFarAhead`: `AliveSpec => []RunAheadBound`. What TICKS counts as missing is
  exactly what is on its way to the host and back (`Owes`), and `MissingBound` bounds it.
  It is about a TICKS that keeps running: a host that a new TICKS connects to in
  the middle of a tick still owes a TOCK that was for the old one.

The shard (`GameCycleProofs`; any hosts, services, number of mirrors and bounds;
`ShardSpec`, with every crash and return of services and mirror services):

* `ShardInv` is inductive. `Link` says what a connection of TICKS and a mirror service
  can hold given the states of both ends: seven states of one that is open, four
  of what is left of one that is lost. `Links` does the same for a mirror service and a
  client service, whose queues also hold declarations, trackers and their
  acknowledgements: at most one TICK or TOCK of a tick is on its way, only while the
  mirror service still counts on it, and never behind the end of the
  connection. `Sound` is about one mirror service: what it has counted is who is in
  `TockedServices`, and once its deltas are sent nobody is missing. It was
  model-checked on the instances of ShardCrash, ShardLive and ShardDeltasCrash (687,065,
  731,077 and 155,844 states) before it was proved.
* A handler of a mirror service reads a message, changes the record, and lets the
  automaton go on (`doNextTask()`). `Moved` says what the automaton may do to any
  record, `Handled` what a handler owes it, and `HandlerKeeps` that both together keep
  the invariant: each of the handlers then is one short lemma.
* From it: `TicksAreExpected`, `TocksAreExpected`, the assertions of the code, and
  `TocksStand`.
* `ShardPlaysInLockStep`: `ShardSpec => ServicesPlayInLockStep`, the refinement. A service
  joins with the registration that synchronises it (`CbRegisteredJoins`), plays with
  its tick update (`TickUpdatePlays`), leaves when it or its mirror service crashes
  (`LeftPlayed`); a tick of TICKS is the next cycle (`TicksNextCycle`), which needs
  that every service in the game has played: TICKS has the TOCK of its mirror
  service, which had its own. Every other step leaves LockStep alone.

The deltas and clocks of a shard (`ShardDeltasProofs`; the same constants. Deltas are
counted, so it uses that the hosts are a finite set, as ids of services are 16 bits and
mirror services sit in 256 slots: `HostsAssumption` of TickService):

* `DeltaInv(X)` is inductive on top of `ShardInv`. Of one mirror service to another there
  is at most one delta of the present cycle, on its way or pending, and none before the
  sender has sent it (`PairInv`); so `NbReceived`, a number, with the deltas that came
  before the sync (`Early`), is at most the number of those mirror services whose delta is
  pending (`Heard`), which is what `CountInv` says. There are two forms. With `X = Hosts`
  it holds of `ShardSpec`: mirror services may be lost, and the deltas counted may be of
  any of them. With `X = {}` it holds of `NoMSCrashSpec`: only deltas from mirror services
  that are waited for are counted. The second is false once a mirror service is lost,
  which ShardDeltasCrash shows: the delta of the lost one stays counted.
* Every handler ends in `doNextTask()`: `Acted` says what a handler owes the automaton for
  the deltas, `Acts` what the automaton does (it waits, sends its deltas, or ends the
  tick), and `ActsKeepDeltas` that both together keep the invariant. A tick makes
  everything up to now a delta of the cycle before, so nothing is heard of the new one
  and nothing counted: nobody counts a delta of a cycle before TICKS has started it.
* `DeltasInTime`: `ShardSpec => []DeltaNotTooEarly`. No delta is later than the cycle of
  TICKS, and a mirror service that has a delta of it to read is at most one tick behind.
* `AnswersHaveDeltas`: `NoMSCrashSpec => AnswersWithAllDeltas`, an action property. A
  mirror service answers when `NbReceived` is the number of those that it waits for;
  by `CountInv` as many of these are heard, so all are.
* `ShardTypes`: `ShardSpec => []TypeOK`. The bound on the deltas counted is from
  `CountInv`, the one on the clocks of services from `CycleInv`: a service that has lost
  its mirror service may still read the sync and the tick it had sent.
* `CycleInv` and `DeltaInv` were model-checked before they were proved, `DeltaInv(Hosts)`
  on the instance of ShardDeltasCrash and on one of 207,004 states with crashes of mirror
  services and of services, `DeltaInv({})` on the instance of ShardLive.

The abstract specifications (`LockStepProofs`, `ImpulsePipeProofs`):

* `LockStepTogether`: in LockStep no player is more than one cycle from the game.
  With `ShardPlaysInLockStep` it is the statement about services.
* `PipeKeepsPromise`: in ImpulsePipe nothing is delivered twice or before it was
  posted, and nothing confirmed that was not delivered. The invariant only adds
  types to the promise; the work is in a delivery, which appends a batch to a
  sequence (`BatchOnce`). With `LinkImplementsPipe` it is the statement about the
  impulses of a client.

The link (`ClientLinkProofs`; any numbers of channels, of impulses in a packet, of packets in the
mask and in the long ack, of ticks, datagrams, lags and stalls):

* `LinkTypes`, `NothingIsLost`, `FewOvertaken`: `Spec =>` the invariants of LinkLossy. They
  follow from one inductive invariant `Inv`, in layers, which was model-checked before it
  was proved. `StepKinds` first reduces the actions to ten kinds of steps.
  `SyncInv` is about the synchronisation: no packet is sent after the SYNCs of the present
  code, and once packets go on the client has passed those from before (`PassedBySync`);
  so an ACK_SYNC the FE takes was sent by a client that has passed every packet sent
  so far, old or late as it may be (`ConnectsAlone`). `AckedInv` says that
  acknowledgements tell exactly what came, as far back as the mask and the long ack go
  (`HeardIn`): a channel drops its impulses when the FE hears that the client has had a
  packet that carries them, and only then (`HearsOf`, `ConnectsHearing`, `HearsAll`). `KeepInv` is
  the agreement of encoder and decoder: while both are connected, a packet on its way
  carries impulses that no packet since the last synchronisation has brought if and only
  if the decoder keeps it (`KeptWhenConnected`), because the FE has heard the client's
  last datagrams exactly if it has dropped the impulses (`HeardWhenDropped`); a
  synchronisation leaves no packet to acknowledge (`FreshStart`). `QueueInv` is what the
  impulses are: consecutive ones in each channel, apart, and one channel without an
  overtaken impulse (`OneInOrder`), which with an injection into the places of the other
  channels gives the bound.
* `LinkImplementsPipe`: `CoveredSpec => ImpulsesArriveOnce`, the refinement of ImpulsePipe, from
  `Inv` and `NotHadBefore`: the client has had no impulse of a channel unless a packet that it is still
  to acknowledge brought them. This is where the long ack matters: a synchronisation
  forgets which packets brought what, and keeps `NotHadBefore` because the ACK_SYNC tells of
  all of them (`NotHadStep`, the case of `Connects`), for which `LongAckCovers` is needed. What a
  channel takes from the main queue is new to the client in any case (`TakenIsNew`).
* `TicksAgree`: `Spec => TicksAgreeUnlessInterrupted`. The FE sends one SYNC or packet per
  tick, so the distance of tick and packet number only changes at a PROBE, a tick
  without datagram after it, or a STALLED message (`SteadyBetween`).

The sessions (`UserSessionsProofs`; any users, addresses, client ids, removal delay and
bounds). The theorems are a tower of invariants, each proved on top of the one before,
with one step per action of the FE and of the EGS:

* `SessionTypes`: `Spec => []TypeOK`; between ticks no id is held by a client that is
  gone.
* `SessionInv` is inductive: sessions are apart, each removal meets its client, each
  host knows the last QUIT of its user, and a limbo client remembers the QUIT that took
  it there (`LimboRemembersQuit`, without which a restored host could forget it). From
  it: `SessionsApart`, `RemovalsMeetTheirClient`, `QuitsServedOnce`.
* `ToldInv` is inductive on top of it: what the WS and the EGS were told fits who has a
  session. From it: `PlayersCounted`, `OnlineKnown`, `ConnectionsToldOnce`. The action lemma
  `FETold` also gives `LeaversTold`: a step in which a user loses its session appends a
  CL_DISCONNECT for it, if the EGS is up.
* `GhostInv` is inductive on both: the mail about a user without session is empty or
  ends with its CL_DISCONNECT (`EndsLeft`), and is not empty unless the user has no
  player or one that is already leaving; an EGS that is down has neither mail nor
  players. From it: `NoPlayerForgotten`.
* `GuestInv` is inductive on the same: the mail about a user that the EGS is told of ends
  with its CL_CONNECT (`EndsCame`), or has been read and left a player, an order of the
  EGS to the FE, or a removal; and nobody is told of while the FE knows that there is
  no EGS, so a new EGS owes nothing. `FETold` gives `GuestsTold` as well: a step of
  the FE appends a CL_CONNECT last or keeps the mail and the removals, and `FEAnswers`
  that the order to disconnect a user is only used up by a removal. From it:
  `RefusedAreRemoved`.

The ranges (`RangeManagerProofs`; any services, mirror services, sizes of requests, number
of rows and bounds):

* `RangesNeverOverlap`: `Spec => []RangesApart`, and `RangeTypes`: `Spec => []TypeOK`.
  `RangeInv` is inductive: the list is in order (`Apart`), and what is owned or on
  its way is well-typed, in particular not empty: a mirror service tells a new TICKS
  ranges that an earlier one gave, or blank ones. A range that is inserted cannot go
  before row 0 (`LimitedApart`), so it comes after a range that ends before it and
  before one that starts after it (`InsertAtApart`).
* `RangesNeverLeak`: `Spec => []TakenIsUsed`. `SentInv` is about the order of what a
  mirror service sends: its loss comes last (`LastIsDown`). On top of it `UsedInv` looks ahead: for each
  taken range, and for each request or report of ranges still on its way, the owner is
  still connected, or its release or the loss of its mirror service comes later in the
  same queue (`Held`). Reading a message keeps that: what it takes is held by what
  follows it, and what is dropped with it is what it releases. A mirror service that
  TICKS does not know has taken nothing (`UnknownTakeNothing`), so a new TICKS starts
  with nothing that could leak. The invariants were model-checked before they were proved.
* `GivenRangesStay`: `SlowStartSpec => []OwnedIsRecordedBeforeRestart`, from `RecordedInv`: what a
  service owns or is about to be given is in the list. A release by owner removes
  only ranges of a service that is gone: `ReleasedGone`, which holds because a step
  only sends the release of a service that it disconnects (`ReleasesSent`), and stays
  true when the id is used again because of `SlowStarts` (`GoneStep`). The other theorems
  about ranges are about `Spec`.
* `RefusalsAreRight`: `Spec => RefusedOnlyIfFull`, an action property. The place
  `acquireRange()` finds is the first that fits (`IsPlaced`), so if that is past the last
  row there is none between two ranges, and a free place would be behind the last
  range: the first range that ends after its start gives the contradiction.
* Releases and reacquisitions go through a sequence step by step. The library's
  induction theorems cannot be used here, so induction over the steps is by the
  least counterexample (`Least`, from the well-foundedness of < on the naturals;
  `StepByStep`), and `Iteration` shows that the recursive functions of the model
  exist.

So every invariant and action property of the passing runs is stated by a theorem. Only
model-checked are the liveness properties: liveness under fairness is out of the
prover's reach and stays with TLC.

## 7. Not modelled, and the plan

In the parts above: trackers to other machines and of properties (their
acknowledgements use the same counter), subscriptions between mirror services
(`processDataSetEntitiesSubscription`), the removal of trackers some time after their
service is gone; messages the mirror forwards between services; entities in released
ranges; a `TickSendingMode` that changes at run time; failures of the backup service;
the commands `releaseRangesForService` and `resetRanges`; the prioritized properties
of the frontend, their history and vision; the threads of its receive task and double
buffer; the quit of a character as the client sees it.

The rest of the repository is not modelled, for three reasons. Much of it has no
protocol to check: the NeL engine (3D, sound, GUI, collision), the interface of the
client, the tools, the web pages and the data. Much of it is rules of the game over
data sheets (EGS, AI), where a model would repeat the code. And some of it would be
worth a model and has none yet. In this order:

1. `EntityRows`: adding and removing entities in an owned range, observers, and
   the order of removals from TICKS against additions from other mirror
   services, composed with RangeManager. Abstract specification: a row has one
   entity at a time at every observer.
2. `Backup`: the queue of unacknowledged saves of the interface and the service,
   with an abstract store; it would replace `CycleFile`.
3. NeL primitives: the receive queue and flush of the buffered sockets, the
   reader-writer lock, the task manager. Each has a small abstract specification
   (queue, exclusion) to be refined to.
4. The frontend's receive double buffer and the history of its prioritized
   properties.
5. Cookies between the login, welcome and frontend services; the naming service with
   the time-out of its acknowledgements, which RangeManager leaves out (`SlowStarts` would
   remain an assumption about times).
6. Shard unifier sessions; trade, team and guild protocols of the EGS.

With each module to come, theorems for its invariants as above. Of those already here,
liveness stays with TLC.
