SPECIFICATION Spec
CONSTANTS
  IPKinds <- MCPublicIPv4
  ValueKinds <- MCNoValues
  Words <- MCWords
  MACs <- MCMACs
  Memory <- MCMemory
  MaxDraws = 3
INVARIANTS
  PublicOutsideIANA
