CONSTANTS
  Paths <- MCPaths
  Ids = {1, 2, 3, 4, 5, 6}
  Limit = 2
  Written = {1, 2}
  Targets <- MCTargets
  MovesRoot = FALSE
  Sources <- MCSources
  Walk <- MCWalk
  Points <- MCPoints
VIEW View
SPECIFICATION MountSpec
INVARIANTS TableIsTree UsedIsReachable WriteIsRead
  CopyIsComplete OthersAreLeftAlone MergeFinishes
