SPECIFICATION ActiveSpec
CONSTANTS
  s1 = s1
  s2 = s2
  c1 = c1
  pa = pa
  pb = pb
  DefaultProvider = DefaultProvider
  Nil = Nil
  Scopes <- MCScopes
  Callers <- MCCallers
  Providers <- MCProviders
  MaxSets = 5
  MaxDraws = 2
INVARIANTS
  ActiveTypeOK
  SwapChain
  OneProviderPerCall
  NestedScopesRestore
