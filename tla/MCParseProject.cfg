SPECIFICATION Spec
CONSTANTS
  f1 = f1
  f2 = f2
  NoFile = NoFile
  Files <- MCFiles
  Paths <- MCPaths
  Directories <- MCDirectories
  Projects <- MCProjects
\* A parse ends.
CHECK_DEADLOCK FALSE
INVARIANTS
  FilesAreBlamed
PROPERTY AuthoredSpec
