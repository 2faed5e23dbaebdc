SPECIFICATION FairSpec
CONSTANTS
  URL = {u1, u2}
  Domain = {d1, d2}
  Lists <- MCLists
  Client = {c1, c2}
  None = None
  u1 = u1
  u2 = u2
  d1 = d1
  d2 = d2
INVARIANTS
  TypeOK
  LatestListsInForce
  OneRefreshInForce
PROPERTIES
  ListsConverge
  RefreshRunsOut
CHECK_DEADLOCK FALSE
