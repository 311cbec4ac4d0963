CONSTANTS
  S1 = S1
  S2 = S2
  Tasks <- MCTasks
  Stages <- MCStages
  Roles <- MCRoles
  KBMode = "off"
  MaxRows = 2
  Slots <- TwoSlots
  MaxCrashes = 0
  Refusals <- NoTearing
SPECIFICATION Spec
SYMMETRY SlotSymmetry
VIEW HandlerView
CHECK_DEADLOCK FALSE
INVARIANTS
  EveryGateWasApproved
  TornOnlyWhileWriting
