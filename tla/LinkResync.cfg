SPECIFICATION Spec
CONSTANTS
  NbChannels = 2
  MaxBatch = 1
  AckBits = 1
  LongAckBits = 4
  ProbesNeeded = 1
  MaxImpulses = 3
  MaxTicks = 5
  MaxClientSends = 4
  MaxLags = 1
  MaxStalls = 0
INVARIANT ConnectedClientListens
CHECK_DEADLOCK FALSE
