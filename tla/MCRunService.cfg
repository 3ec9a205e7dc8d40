SPECIFICATION Spec
CONSTANTS
  c1 = c1
  c2 = c2
  CheckIds <- MCCheckIds
  Connections <- MCConnections
  LoadedProjects <- MCProjects
CHECK_DEADLOCK FALSE
INVARIANTS
  RunnableChecksHaveOpenAdapters
  NothingLeftOpen
  ConfigurationErrorsTouchNothing
  ExitTellsTheTruth
  QueriesAreSafe
  NothingExecutableIsDropped
  KeySafetyGuardsAgree
