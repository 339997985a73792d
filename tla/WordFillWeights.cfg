SPECIFICATION Spec
CONSTANTS
  a = a
  b = b
  c = c
  d = d
  NoByte = NoByte
  W = 256
  WordBits = 8
  WideAbove = 4
  Dictionaries <- MCRepeated
  Lengths <- MCLengths
INVARIANTS
  PositionsEquallyLikely
