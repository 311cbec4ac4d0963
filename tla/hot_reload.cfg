CONSTANTS
  S1 = S1
  S2 = S2
  S3 = S3
  Slots <- MCSlots
  MaxEdits = 4
  EditsDuringLoad = FALSE
SPECIFICATION Spec
CHECK_DEADLOCK FALSE
INVARIANTS
  FreshAfterStat
  ReloadInv
PROPERTIES
  VersionsGoForward
