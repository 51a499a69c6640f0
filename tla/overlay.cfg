SPECIFICATION Spec
CONSTANTS
  a = a
  b = b
  x = x
  Paths <- MCPaths
  Contents <- MCContents
  Written <- MCWritten
  Longer <- MCLonger
  Order <- MCOrder
  Early <- NoPaths
  Lowers <- MCLowers
  Tears = TRUE
  DirTargets = FALSE
INVARIANTS ListingMatches TornReadsOldNewOrLower
PROPERTIES ImplementsTree
