SPECIFICATION ShardSpec
CONSTANTS
  m1 = m1
  m2 = m2
  m3 = m3
  s1 = s1
  s2 = s2
  s3 = s3
  Hosts = {m1, m2, m3}
  Services = {}
  Home <- Nobody
  PureReceivers = {}
  CycleMod = 8
  CountMod = 4
  SaveInterval = 8
  MaxSteps = 1
  MaxCycle = 2
  MaxCrashes = 1
  MayHalt = FALSE
  MirrorUsers = {}
PROPERTY
  AnswersWithAllDeltas
CHECK_DEADLOCK FALSE
