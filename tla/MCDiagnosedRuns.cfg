SPECIFICATION Spec
CONSTANTS
  Contracts = {1, 2}
  MaxCompiles = 1
  MaxRuns = 1
CHECK_DEADLOCK FALSE
INVARIANT
  ErrorDiagnosticsPreventRun
