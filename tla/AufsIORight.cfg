SPECIFICATION Spec
CONSTANTS
  MaxHandles = 3
  MaxWrites = 2
CHECK_DEADLOCK FALSE
INVARIANTS
  RightObject
