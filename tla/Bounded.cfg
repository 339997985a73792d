SPECIFICATION FairBoundedSpec
CONSTANTS
  W = 32
  TypeSizes <- MCTypeSizes
INVARIANTS
  WordsUniform
  IntervalCovered
  ResultFromAcceptedWord
PROPERTIES
  DrawTerminates
