SPECIFICATION Spec
CONSTANTS
  Users = {u1, u2}
  Addresses = {a1, a2}
  ClientLimits = {1, 2}
  RemovalDelay = 1
  MaxCookies = 2
  MaxQuitId = 2
  MaxEgsStarts = 2
SYMMETRY Symmetry
INVARIANTS
  TypeOK
  OneSession
  RemovalReachesItsClient
  WSCountsSessions
  WSKnowsWhoIsOnline
  ToldOnce
  NoGhostPlayer
  RefusedLeaves
  QuitServedOnce
