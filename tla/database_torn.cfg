CONSTANTS
  Paths <- MCPaths
  Ids = {1, 2, 3, 4, 5, 6, 7}
  Limit = 2
  Written = {1, 2}
  Targets <- MCTargets
  Tears = TRUE
  MaxOrphans = 1
VIEW View
SPECIFICATION Spec
INVARIANTS EveryEntryInDirectory
