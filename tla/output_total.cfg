CONSTANTS
  Limit = 6
  MaxBody = 10
  MaxRead = 8
SPECIFICATION Spec
CHECK_DEADLOCK FALSE
INVARIANTS Bounded VerdictExact
