SPECIFICATION FairSpec
CONSTANTS
  g1 = g1
  g2 = g2
  Goroutines <- MCGoroutines
  MaxCalls = 2
  BytesPerWord = 2
  BytesPerHalf = 1
  Lengths <- MCLengths
INVARIANTS
  BytesOnceInOrder
  WholeOrError
  AloneIsContiguous
PROPERTIES
  CallEnds
