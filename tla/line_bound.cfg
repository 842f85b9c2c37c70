CONSTANTS
  Limit = 4
  BufferSize = 3
  MaxInput = 8
  MaxRead = 3
SPECIFICATION Spec
CHECK_DEADLOCK TRUE
INVARIANTS OnlyGoodLines NoGoodLineLost HoldsOneFrame
