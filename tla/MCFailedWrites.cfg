SPECIFICATION Spec
CONSTANTS
  Contracts = {1, 2}
  MaxCompiles = 2
  MaxRuns = 0
CHECK_DEADLOCK FALSE
INVARIANT
  FailedWritesLeaveNothing
