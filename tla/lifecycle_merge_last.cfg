CONSTANTS
  Tasks <- MCTasks
  Stages <- MCMergeLast
  Roles <- MCRoles
  KBMode = "off"
  MaxRows = 3
SPECIFICATION Spec
CHECK_DEADLOCK FALSE
INVARIANTS
  DeliveredAfterReview
