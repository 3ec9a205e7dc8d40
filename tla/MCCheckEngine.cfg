CONSTANTS
  c1 = c1
  c2 = c2
  c3 = c3
  missing = missing
  CheckIds = {c1, c2, c3}
  Ids = {c1, c2, c3, missing}
  PrerequisiteLists <- MCLists
  OwnOutcomes <- MCOutcomes
  Artifacts <- MCArtifacts
SPECIFICATION Spec
INVARIANTS
  TypeOK
  CallsInProgress
  ExecutedOnlyAfterPrerequisites
  BrokenDependenciesNeverExecute
  BlockedForDominantRootCause
  ResultsValid
  RunStatusIsFlatAggregate
PROPERTIES
  ImplementsVerdicts
  Terminates
CHECK_DEADLOCK FALSE
