SPECIFICATION FairRestartSpec
CONSTANTS
  Hosts = {h1, h2}
  Registrations <- Waited
  SendingModes <- OnlyContinuous
  MaxQueue = 2
  CycleMod = 2
  CountMod = 2
  SaveInterval = 1
  MaxSteps = 1
INVARIANTS
  NeverIdle
  CycleAgreement
PROPERTY
  TicksGoOn
