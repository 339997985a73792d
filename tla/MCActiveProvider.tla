--------------------------- MODULE MCActiveProvider ---------------------------
(* Two scopes, one caller of a generator, and two providers besides the    *)
(* default.                                                                *)
EXTENDS ActiveProvider

CONSTANTS s1, s2, c1, pa, pb

MCScopes == {s1, s2}
MCCallers == {c1}
MCProviders == {DefaultProvider, pa, pb}
================================================================================
