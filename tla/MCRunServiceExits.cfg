SPECIFICATION FairSpec
CONSTANTS
  c1 = c1
  c2 = c2
  CheckIds <- MCCheckIds
  Connections <- MCConnections
  LoadedProjects <- MCFewProjects
CHECK_DEADLOCK FALSE
PROPERTY Exits
