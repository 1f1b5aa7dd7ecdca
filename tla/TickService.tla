------------------------------ MODULE TickService ------------------------------
(* The tick service (TICKS): the one process of a shard that decides when the  *)
(* game goes to its next cycle.  Its clients, the mirror services of the       *)
(* machines of the shard (Hosts), register, receive a TICK for every cycle and *)
(* answer it with a TOCK; the next TICK leaves when nobody blocks it.          *)
(*                                                                             *)
(* Each handler of tick_service.cpp is one action.  checkTockReceived() and    *)
(* broadcastTick() are called at the end of most handlers, so they are         *)
(* operators that assign what they change and take, as parameters, the state   *)
(* the caller has just computed.  What is abstracted: the time of day (the     *)
(* service only sleeps inside a handler), the game time carried next to the    *)
(* cycle, TICK and STEP_TICK (one message here), and all measures and logs.    *)
EXTENDS Naturals, Sequences, FiniteSets

CONSTANTS
  Hosts,          \* the service ids that may register, in 0..255
  CycleMod,       \* TGameCycle is a uint32: 2^32 in the code
  CountMod,       \* TockMissingCount and Threshold are uint16: 2^16 in the code
  SaveInterval,   \* INTERVAL_FOR_SAVING_GAME_CYCLE, 300 in the code
  MaxSteps        \* bound: steps the operator grants ahead (_StepCount)

ASSUME HostsAssumption == IsFiniteSet(Hosts)
ASSUME CycleModAssumption == CycleMod \in Nat \ {0, 1}
ASSUME CountModAssumption == CountMod \in Nat \ {0, 1}
ASSUME SaveIntervalAssumption == SaveInterval \in Nat
ASSUME MaxStepsAssumption == MaxSteps \in Nat \ {0}

VARIABLES
  CurrentMode,      \* "TickRunning" or "TickHalted"
  Pause,            \* the global of the command "pause"
  TickSendingMode,  \* "Continuous" or "StepByStep"; "Fastest" only sleeps less
  StepCount,        \* _StepCount: ticks the operator has granted
  ClientInfos,      \* _ClientInfos: one CClientInfos for every service id
  GameCycle,        \* _GameCycle
  SavedGameCycle,   \* _SavedGameCycle
  CycleFile,        \* game_cycle.ticks at the backup service
  ticksUp,          \* the process runs
  toTicks,          \* toTicks[h]: what host h has sent, in order
  toHost            \* toHost[h]: what TICKS has sent to h, in order

ticksControl == <<CurrentMode, Pause, TickSendingMode>>
ticksSaved == <<SavedGameCycle, CycleFile>>
ticksVars == <<CurrentMode, Pause, TickSendingMode, StepCount, ClientInfos,
               GameCycle, SavedGameCycle, CycleFile, ticksUp, toTicks, toHost>>

Cycles == 0 .. CycleMod - 1
Counts == 0 .. CountMod - 1
CClientInfos == [Registered : BOOLEAN, TockReceived : BOOLEAN, Tocking : BOOLEAN,
                 Threshold : Counts, TockMissingCount : Counts]

\* The value of a slot nobody is registered in (constructor, unregisterClient).
NoClient == [Registered |-> FALSE, TockReceived |-> TRUE, Tocking |-> TRUE,
             Threshold |-> 0, TockMissingCount |-> 0]

\* Messages.  Down is what the network layer reports last on a broken connection.
Register(tocking, threshold) ==
  [type |-> "REGISTER", tocking |-> tocking, threshold |-> threshold]
Registered(cycle) == [type |-> "REGISTERED", cycle |-> cycle]
Tick == [type |-> "TICK"]
Tock == [type |-> "TOCK"]
Down == [type |-> "DOWN"]

Clients == {h \in Hosts : ClientInfos[h].Registered}

--------------------------------------------------------------------------------
\* Mutant of Blocks: off by one, a client may owe one TOCK more.
BlocksOneLater(info) ==
  /\ info.Registered /\ ~info.TockReceived /\ info.Tocking
  /\ info.TockMissingCount > info.Threshold + 1

\* One client of the loop of checkTockReceived() that makes it return.
Blocks(info) ==
  /\ info.Registered
  /\ ~info.TockReceived
  /\ info.Tocking
  /\ info.TockMissingCount > info.Threshold

\* A TICK to every registered client, each of which now owes one more TOCK.
BroadcastTick(infos, paused, out) ==
  \/ /\ paused
     /\ ClientInfos' = infos
     /\ toHost' = out
     /\ UNCHANGED GameCycle
  \/ /\ ~paused
     /\ GameCycle' = (GameCycle + 1) % CycleMod
     /\ ClientInfos' =
          [h \in Hosts |->
             IF infos[h].Registered
             THEN [infos[h] EXCEPT !.TockReceived = FALSE,
                                   !.TockMissingCount = (@ + 1) % CountMod]
             ELSE infos[h]]
     /\ toHost' = [h \in Hosts |-> IF infos[h].Registered
                                   THEN Append(out[h], Tick) ELSE out[h]]

\* Mutant of CheckTockReceived: a tick leaves although no step is granted.
CheckTockReceivedNoSteps(infos, mode, paused, out) ==
  LET returns == mode = "TickHalted" \/ \E h \in Hosts : Blocks(infos[h])
  IN \/ /\ returns
        /\ ClientInfos' = infos
        /\ toHost' = out
        /\ UNCHANGED <<GameCycle, StepCount>>
     \/ /\ ~returns
        /\ StepCount' = IF TickSendingMode = "StepByStep" THEN StepCount - 1
                                                          ELSE StepCount
        /\ BroadcastTick(infos, paused, out)

\* The three ways out of checkTockReceived(): a return, a step by step mode with
\* no step left, a broadcast (which takes a step even when paused).
CheckTockReceived(infos, mode, paused, out) ==
  LET returns == mode = "TickHalted" \/ \E h \in Hosts : Blocks(infos[h])
      noStep == TickSendingMode = "StepByStep" /\ StepCount = 0
  IN \/ /\ returns \/ noStep
        /\ ClientInfos' = infos
        /\ toHost' = out
        /\ UNCHANGED <<GameCycle, StepCount>>
     \/ /\ ~returns /\ ~noStep
        /\ StepCount' = IF TickSendingMode = "StepByStep" THEN StepCount - 1
                                                          ELSE StepCount
        /\ BroadcastTick(infos, paused, out)

--------------------------------------------------------------------------------
HasMessage(h, type) == ticksUp /\ toTicks[h] # <<>> /\ Head(toTicks[h]).type = type
Consume(h) == toTicks' = [toTicks EXCEPT ![h] = Tail(@)]

\* The slots after a REGISTER of h.  What the slot counts is not reset.
RegisterClient(h, msg) ==
  [ClientInfos EXCEPT ![h].Registered = TRUE,
                      ![h].Tocking = msg.tocking,
                      ![h].Threshold = msg.threshold]

\* The first client to register starts the clock.  nlerror stops a second
\* REGISTER of a registered client: the guard on Registered stands for it.
CbRegister(h) ==
  /\ HasMessage(h, "REGISTER")
  /\ ~ClientInfos[h].Registered
  /\ Consume(h)
  /\ LET infos == RegisterClient(h, Head(toTicks[h]))
         out == [toHost EXCEPT ![h] = Append(@, Registered(GameCycle))]
     IN \/ /\ Clients = {}
           /\ CheckTockReceived(infos, CurrentMode, Pause, out)
        \/ /\ Clients # {}
           /\ ClientInfos' = infos
           /\ toHost' = out
           /\ UNCHANGED <<GameCycle, StepCount>>
  /\ UNCHANGED <<ticksControl, ticksSaved, ticksUp>>

\* Mutant of AddTock: one TOCK pays for all the ticks sent so far.
AddTockResets(h) ==
  IF ClientInfos[h].Registered
  THEN [ClientInfos EXCEPT ![h].TockReceived = TRUE, ![h].TockMissingCount = 0]
  ELSE ClientInfos

\* The slots after a TOCK of h; one of an unregistered client changes nothing.
AddTock(h) ==
  IF ClientInfos[h].Registered
  THEN [ClientInfos EXCEPT
          ![h].TockReceived = TRUE,
          ![h].TockMissingCount = IF @ > 0 THEN @ - 1 ELSE 0]
  ELSE ClientInfos

CbTock(h) ==
  /\ HasMessage(h, "TOCK")
  /\ Consume(h)
  /\ CheckTockReceived(AddTock(h), CurrentMode, Pause, toHost)
  /\ UNCHANGED <<ticksControl, ticksSaved, ticksUp>>

\* unregisterClient() empties the slot, whoever was in it.
UnregisterClient(h) == [ClientInfos EXCEPT ![h] = NoClient]

\* Mutant of CbClientDisconnection: the TOCKs are not looked at again.
CbClientDisconnectionSilent(h) ==
  /\ HasMessage(h, "DOWN")
  /\ Consume(h)
  /\ ClientInfos' = UnregisterClient(h)
  /\ UNCHANGED <<ticksControl, StepCount, GameCycle, ticksSaved, ticksUp, toHost>>

CbClientDisconnection(h) ==
  /\ HasMessage(h, "DOWN")
  /\ Consume(h)
  /\ CheckTockReceived(UnregisterClient(h), CurrentMode, Pause, toHost)
  /\ UNCHANGED <<ticksControl, ticksSaved, ticksUp>>

--------------------------------------------------------------------------------
\* Requests of services (HALT_TICK, RESUME_TICK) and of the operator (haltTick,
\* resumeTick, send, pause), in any state of the running process.
HaltTick ==
  /\ ticksUp /\ CurrentMode # "TickHalted"
  /\ CurrentMode' = "TickHalted"
  /\ UNCHANGED <<Pause, TickSendingMode, StepCount, ClientInfos, GameCycle,
                 ticksSaved, ticksUp, toTicks, toHost>>

\* Mutant of ResumeTick: TOCKs that came during the halt are forgotten.
ResumeTickSilent ==
  /\ ticksUp /\ CurrentMode # "TickRunning"
  /\ CurrentMode' = "TickRunning"
  /\ UNCHANGED <<Pause, TickSendingMode, StepCount, ClientInfos, GameCycle,
                 ticksSaved, ticksUp, toTicks, toHost>>

ResumeTick ==
  /\ ticksUp /\ CurrentMode # "TickRunning"
  /\ CurrentMode' = "TickRunning"
  /\ CheckTockReceived(ClientInfos, "TickRunning", Pause, toHost)
  /\ UNCHANGED <<Pause, TickSendingMode, ticksSaved, ticksUp, toTicks>>

TogglePause ==
  /\ ticksUp
  /\ Pause' = ~Pause
  /\ \/ /\ ~Pause
        /\ UNCHANGED <<StepCount, ClientInfos, GameCycle, toHost>>
     \/ /\ Pause
        /\ CheckTockReceived(ClientInfos, CurrentMode, FALSE, toHost)
  /\ UNCHANGED <<CurrentMode, TickSendingMode, ticksSaved, ticksUp, toTicks>>

EnableSend ==
  /\ ticksUp /\ StepCount < MaxSteps
  /\ StepCount' = StepCount + 1
  /\ UNCHANGED <<ticksControl, ClientInfos, GameCycle, ticksSaved, ticksUp,
                 toTicks, toHost>>

\* The part of update() that saves the cycle; the backup service has the file
\* when it has the message.
Update ==
  /\ ticksUp /\ CurrentMode # "TickHalted"
  /\ GameCycle > (SavedGameCycle + SaveInterval) % CycleMod
  /\ SavedGameCycle' = GameCycle
  /\ CycleFile' = GameCycle
  /\ UNCHANGED <<ticksControl, StepCount, ClientInfos, GameCycle, ticksUp,
                 toTicks, toHost>>

--------------------------------------------------------------------------------
\* The process as init() leaves it, with the cycle of the file of the backup
\* service (0 when there is none).
Start(mode, file) ==
  /\ CurrentMode = "TickRunning"
  /\ Pause = FALSE
  /\ TickSendingMode = mode
  /\ StepCount = 1
  /\ ClientInfos = [h \in Hosts |-> NoClient]
  /\ GameCycle = file
  /\ SavedGameCycle = file
  /\ CycleFile = file
  /\ ticksUp = TRUE

\* release() saves the cycle of a process that stops by itself, a crash saves
\* nothing.  Either way what hosts sent is lost, and of what was on its way to
\* host h the first kept[h] messages arrive, and then the end of the connection.
Stop(saves, connected, kept) ==
  /\ ticksUp
  /\ ticksUp' = FALSE
  /\ CycleFile' = IF saves THEN GameCycle ELSE CycleFile
  /\ toTicks' = [h \in Hosts |-> <<>>]
  /\ toHost' = [h \in Hosts |-> IF h \in connected
                                THEN Append(SubSeq(toHost[h], 1, kept[h]), Down)
                                ELSE toHost[h]]
  /\ UNCHANGED <<ticksControl, StepCount, ClientInfos, GameCycle, SavedGameCycle>>

\* init() of a new process.
Restart ==
  /\ ~ticksUp
  /\ ticksUp' = TRUE
  /\ CurrentMode' = "TickRunning"
  /\ Pause' = FALSE
  /\ StepCount' = 1
  /\ ClientInfos' = [h \in Hosts |-> NoClient]
  /\ GameCycle' = CycleFile
  /\ SavedGameCycle' = CycleFile
  /\ UNCHANGED <<TickSendingMode, CycleFile, toTicks, toHost>>

\* What TICKS sends before it sees that the process of h has ended is lost.
LoseSent(h) ==
  /\ toHost[h] # <<>>
  /\ toHost' = [toHost EXCEPT ![h] = <<>>]
  /\ UNCHANGED <<ticksControl, StepCount, ClientInfos, GameCycle, ticksSaved,
                 ticksUp, toTicks>>

================================================================================
