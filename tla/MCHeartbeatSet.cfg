CONSTANTS
  Paths <- MCPaths
  Bodies <- MCBodies
  MaxEdits = 5
SPECIFICATION FairSetSpec
INVARIANTS
  SetIsConsistent
PROPERTIES
  TasksFollowFiles
CHECK_DEADLOCK FALSE
