SPECIFICATION Spec
CONSTANTS
  Connections <- Three
  Profiles <- SomeProfiles
  Projects <- SomeProjects
  CaseFold <- Fold
\* An invocation ends.
CHECK_DEADLOCK FALSE
INVARIANTS
  OnlyMatchingConnections
  SetupStaysLocal
  StatusesMeanWhatTheySay
PROPERTY BatchSpec
