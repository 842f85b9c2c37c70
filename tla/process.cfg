CONSTANTS
  Descendants = {d1, d2}
  Closers = {c1, c2}
  None = None
  MaxResponses = 2
SPECIFICATION FairSpec
CHECK_DEADLOCK FALSE
INVARIANTS GroupGone NothingLost ClosedAfterKill
PROPERTIES CloseReturns WaiterEnds
