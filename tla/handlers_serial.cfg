CONSTANTS
  S1 = S1
  S2 = S2
  Tasks <- MCTasks
  Stages <- MCStages
  Roles <- MCRoles
  KBMode = "enforce"
  MaxRows = 2
  Slots <- OneSlot
  MaxCrashes = 1
  Refusals <- EveryRefusal
SPECIFICATION FairSpec
CHECK_DEADLOCK FALSE
INVARIANTS
  TypeOK
  QueueIsRight
PROPERTIES
  ImplementsLifecycle
  PauseHolds
  NothingRunsAcrossRestart
  IndexCatchesUp
