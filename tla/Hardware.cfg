SPECIFICATION FairSpec
CONSTANTS
  Calls <- MCCalls
  Words <- MCWords
  OUIs <- MCOUIs
  Inputs <- MCInputs
  Hash <- MCHash
INVARIANTS
  KindRules
  EUI64OfMAC
  ExtensionFree
PROPERTIES
  Terminates
