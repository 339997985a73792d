------------------------------ MODULE MCBounded ------------------------------
(* Five-bit words; an integer type as wide as the word (int64) and a       *)
(* narrower one (int8).                                                    *)
EXTENDS Bounded

MCTypeSizes == {8, 32}
================================================================================
