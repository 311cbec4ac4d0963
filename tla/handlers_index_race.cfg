CONSTANTS
  S1 = S1
  S2 = S2
  Tasks <- MCTasks
  Stages <- MCShort
  Roles <- MCDesigner
  KBMode = "off"
  MaxRows = 1
  Slots <- TwoSlots
  MaxCrashes = 0
  Refusals <- NoRefusal
SPECIFICATION FairSpec
CHECK_DEADLOCK FALSE
PROPERTIES
  IndexCatchesUp
