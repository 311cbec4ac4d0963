CONSTANTS
  S1 = S1
  S2 = S2
  Tasks <- MCTasks
  Stages <- MCShort
  Roles <- MCTwoRoles
  KBMode = "off"
  MaxRows = 1
  Slots <- TwoSlots
  MaxCrashes = 0
  Refusals <- NoRefusal
SPECIFICATION Spec
CHECK_DEADLOCK FALSE
INVARIANTS
  RoleRouted
