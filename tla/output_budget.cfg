SPECIFICATION FairSpec
CONSTANTS
  w1 = w1
  w2 = w2
  w3 = w3
  NoWriter = NoWriter
  Writers <- MCWriters
  Sizes <- MCSizes
  Maximum = 3
INVARIANTS
  Accounted
  LossIsFlagged
PROPERTIES
  WritesReturn
  ImplementsMeter
