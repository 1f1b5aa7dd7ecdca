SPECIFICATION SlowStartSpec
CONSTANTS
  Hosts = {m1, m2}
  Services = {s1, s2}
  Nobody = nobody
  Sizes = {1, 2}
  MaxRows = 4
  MaxDeclares = 2
  MaxUnread = 4
  MaxCrashes = 1
SYMMETRY RangeSymmetry
INVARIANTS
  TypeOK
  RangesApart
  TakenIsUsed
  OwnedIsRecordedBeforeRestart
PROPERTY
  RefusedOnlyIfFull
