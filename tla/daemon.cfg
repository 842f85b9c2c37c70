CONSTANTS
  Fronts = {f1, f2}
  Requests = {r1, r2}
SPECIFICATION Spec
CHECK_DEADLOCK FALSE
INVARIANTS ExitLeavesNothing WorkIsFinished
PROPERTY SignalEnds
