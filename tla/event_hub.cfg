SPECIFICATION FairSpec
CONSTANTS
  Roles = {r1, r2}
  Conns = {c1, c2}
  Hung = {c2}
  Handlers = {h1}
  Capacity = 1
  WireLimit = 1
  r1 = r1
  r2 = r2
  c1 = c1
  c2 = c2
  h1 = h1
INVARIANT NewsIsPending
PROPERTIES
  AnnouncedIsShown
  HandlersNeverWait
  DeadConnsAreDropped
  StaleRoleEnds
