-------------------------------- MODULE Mul64 --------------------------------
(***************************************************************************)
(* The word arithmetic every sampler of the package rests on: bits.Mul64   *)
(* and the tests Lemire's method makes on the low half of the product      *)
(* (boundedFrom and boundedSlow in number.go).                             *)
(***************************************************************************)
EXTENDS Integers

CONSTANT W   \* the number of words, 2^64 in the code

ASSUME WidthAssumption == W \in Nat \ {0} /\ W % 2 = 0

Words == 0 .. W - 1

(* hi, lo := bits.Mul64(x, n)                                              *)
Hi(x, n) == (x * n) \div W
Lo(x, n) == (x * n) % W

(* Defect: nothing is rejected, the modulo bias stays.                     *)
NoThreshold(n) == 0

(* -n % n in 64 bits: the number of words left over by n equal shares.     *)
Threshold(n) == ((W - n) % W) % n

(* The test that spares boundedFrom the division.                          *)
FastPath(lo, n) == lo >= n

(* Defect: the loop condition is inverted.                                 *)
RejectsInverted(lo, n) == lo >= Threshold(n)

(* The loop condition of boundedSlow.                                      *)
Rejects(lo, n) == lo < Threshold(n)
================================================================================
