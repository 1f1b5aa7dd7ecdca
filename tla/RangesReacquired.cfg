SPECIFICATION SlowStartSpec
CONSTANTS
  Hosts = {m1, m2}
  Services = {s1, s2}
  Nobody = nobody
  Sizes = {1, 2}
  MaxRows = 5
  MaxDeclares = 1
  MaxUnread = 4
  MaxCrashes = 1
INVARIANT
  OwnedIsRecorded
