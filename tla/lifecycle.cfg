CONSTANTS
  Tasks <- MCTasks
  Stages <- MCStages
  Roles <- MCRoles
  KBMode = "enforce"
  MaxRows = 6
SPECIFICATION Spec
CHECK_DEADLOCK FALSE
INVARIANTS
  TypeOK
  GatesPassed
  PendingRowsAreCurrent
  RoleRouted
  MergedTasksAreSettled
  NoTaskIsStranded
  IndInv
PROPERTIES
  DecisionsAreFinal
  StageMoves
  MergedIsStable
