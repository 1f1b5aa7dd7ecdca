SPECIFICATION Spec
CONSTANTS
  Hosts = {h1, h2}
  Registrations <- Waited
  SendingModes <- OnlyContinuous
  MaxQueue = 3
  CycleMod = 3
  CountMod = 4
  SaveInterval = 1
  MaxSteps = 2
INVARIANT
  MasterTickExpected
