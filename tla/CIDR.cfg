SPECIFICATION Spec
CONSTANTS
  Words <- MCWords
  Lengths <- MCLengths
  CallerNets <- MCCallerNets
INVARIANTS
  PrefixCanonical
  AddrInside
  InPlaceKeepsNet
