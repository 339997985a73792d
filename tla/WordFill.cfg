SPECIFICATION FairSpec
CONSTANTS
  a = a
  b = b
  c = c
  d = d
  NoByte = NoByte
  W = 64
  WordBits = 6
  WideAbove = 4
  Dictionaries <- MCDictionaries
  Lengths <- MCLengths
INVARIANTS
  TypeOK
  NoAdjacentDuplicates
  RejectionRestores
  BatchUniform
PROPERTIES
  Terminates
