SPECIFICATION Spec
CONSTANTS
  ContractNames <- SomeNames
  StableNames <- Stable
  CaseFold <- FoldSome
  Worlds <- MCWorlds
CHECK_DEADLOCK FALSE
INVARIANTS
  FilesAreDistinct
  EveryContractIsCompiled
  SentinelsStayDistinct
  ChecksAreComplete
  CompiledChecksAreAccepted
  DiagnosedIffIllFormed
