CONSTANTS
  Paths <- MCPaths
  Ids = {1, 2, 3}
  Limit = 2
  Written = {1, 2}
  Targets <- MCTargets
  Walk <- MCWalk
  Points <- MCPoints
  ReadOnlys <- MCReadOnlys
VIEW View
SPECIFICATION Spec
INVARIANTS MovedIsSomewhere ListingMatches
