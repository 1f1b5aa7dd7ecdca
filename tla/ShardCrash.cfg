SPECIFICATION ShardSpec
CONSTANTS
  m1 = m1
  m2 = m2
  m3 = m3
  s1 = s1
  s2 = s2
  s3 = s3
  Hosts = {m1, m2}
  Services = {s1, s2}
  Home <- OneEach
  PureReceivers = {m2}
  CycleMod = 8
  CountMod = 4
  SaveInterval = 8
  MaxSteps = 1
  MaxCycle = 3
  MaxCrashes = 1
  MayHalt = TRUE
  MirrorUsers = {}
INVARIANTS
  TypeOK
  MasterTickExpected
  TockExpected
  DeltaNotTooEarly
  TocksStandWithDeltaSent
PROPERTY
  ServicesPlayInLockStep
CHECK_DEADLOCK FALSE
