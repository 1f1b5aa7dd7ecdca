SPECIFICATION AliveSpec
CONSTANTS
  Hosts = {h1, h2}
  Registrations <- Mixed
  SendingModes <- BothModes
  MaxQueue = 2
  CycleMod = 2
  CountMod = 3
  SaveInterval = 2
  MaxSteps = 1
SYMMETRY HostSymmetry
INVARIANTS
  TypeOK
  RunAheadBound
  MissingBound
