SPECIFICATION Spec
CONSTANTS
  IPKinds <- MCIPKinds
  ValueKinds <- MCValueKinds
  Words <- MCWords
  MACs <- MCMACs
  Memory <- MCMemory
  MaxDraws = 3
INVARIANTS
  InDocumentedBlocks
  InterfaceIDOfMAC
  FirstUsable
  RangeExact
