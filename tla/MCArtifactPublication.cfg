SPECIFICATION Spec
CONSTANTS
  Contracts = {1, 2}
  MaxCompiles = 2
  MaxRuns = 1
CHECK_DEADLOCK FALSE
INVARIANTS
  TypeOK
  OneCompileOnDisk
  UndisturbedRunsAreComplete
  UndisturbedJoinsAreSound
  ContractsAreNeverOlder
  FailedCompilesLeaveNothing
  RenderedHasSql
