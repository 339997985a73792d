------------------------------ MODULE MCRPACache ------------------------------
(* Three goroutines, two keys, two random parts.                           *)
EXTENDS RPACache, TLC

CONSTANTS p1, p2, p3, k1, k2, r1, r2, b1, b2, b3

MCProcs == {p1, p2, p3}
MCKeys == {k1, k2}
MCPrands == {r1, r2}
MCBuffers == {b1, b2, b3}

Symmetry ==
  Permutations(MCProcs) \union Permutations(MCKeys)
    \union Permutations(MCPrands) \union Permutations(MCBuffers)
================================================================================
