SPECIFICATION Spec
CONSTANTS
  Goroutines = {g1, g2}
  Modulus <- MCModulus
  Gamma <- MCGamma
  Mix <- MCMix
  BytesPerWord = 2
  ReadLengths <- MCReadLengths
  MaxCalls = 3
INVARIANTS
  TypeOK
  DrawsFollowStream
  NoWordTwice
  ResultsMatchDraws
PROPERTIES
  ImplementsStream
