SPECIFICATION HashSpec
CONSTANTS
  p1 = p1
  p2 = p2
  p3 = p3
  k1 = k1
  k2 = k2
  r1 = r1
  r2 = r2
  b1 = b1
  b2 = b2
  b3 = b3
  None = None
  Procs <- MCProcs
  Keys <- MCKeys
  Prands <- MCPrands
  Buffers <- MCBuffers
SYMMETRY Symmetry
INVARIANTS
  TypeOK
  HashIsOwn
  BuffersExclusive
  RecentKeyCached
