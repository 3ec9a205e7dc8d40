SPECIFICATION Spec
CONSTANTS
  f1 = f1
  f2 = f2
  NoFile = NoFile
  Files <- MCFiles
  Paths <- MCPaths
  Directories <- MCDirectories
  Projects <- MCProjects
CHECK_DEADLOCK FALSE
INVARIANT
  NullFieldsAreDiagnosed
