SPECIFICATION FairSpec
CONSTANTS
  MaxNumber = 2
  Versions <- MCVersions
  Creators = {c1, c2}
  Debounce = 1
  MaxWait = 1
  QueueLimit = 2
  Refusals = {"watch", "list", "row"}
  MaxRefused = 1
  c1 = c1
  c2 = c2
INVARIANTS
  NumbersAreUnique
  EveryDirIsCovered
  ChangesArePending
PROPERTIES
  OnlyOverflowOrRefusalLosesChanges
  IndexFollows
  SyncIsNotPostponed
CHECK_DEADLOCK FALSE
