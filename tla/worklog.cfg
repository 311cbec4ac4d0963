CONSTANTS
  W1 = W1
  W2 = W2
  W3 = W3
  Writers <- MCWriters
  Contents <- MCContents
  MaxEntries = 4
  MaxResets = 1
SPECIFICATION Spec
CHECK_DEADLOCK FALSE
INVARIANTS
  LogVerifies
  SingleChangeIsFound
  LogInv
