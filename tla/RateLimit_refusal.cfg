SPECIFICATION Spec
CONSTANTS
  Limit = 2
  Window = 3
  MaxNow = 10
  MaxCount = 4
PROPERTY RefusedOnlyOverLimit
CHECK_DEADLOCK FALSE
