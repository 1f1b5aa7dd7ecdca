SPECIFICATION CoveredSpec
CONSTANTS
  NbChannels = 2
  MaxBatch = 2
  AckBits = 1
  LongAckBits = 3
  ProbesNeeded = 1
  MaxImpulses = 4
  MaxTicks = 5
  MaxClientSends = 4
  MaxLags = 1
  MaxStalls = 1
INVARIANTS
  TypeOK
  NothingLost
  OvertakenBound
PROPERTIES
  ImpulsesArriveOnce
  TicksAgreeUnlessInterrupted
CHECK_DEADLOCK FALSE
