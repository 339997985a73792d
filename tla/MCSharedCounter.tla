--------------------------- MODULE MCSharedCounter ---------------------------
(* Two goroutines over a 3-bit counter, two-byte words, and the avalanche  *)
(* of splitMix64 with its shifts and odd multipliers scaled to 3 bits.     *)
EXTENDS SharedCounter, Bitwise

MCModulus == 8
MCGamma == 5

(* Written out as a table: TLC would evaluate the xors at every use.       *)
MCTable == <<0, 5, 2, 7, 4, 1, 3, 6>>
MCMix == [x \in 0 .. MCModulus - 1 |-> MCTable[x + 1]]

ASSUME TableIsScaledSplitMix ==
  LET xorShift(z, d) == z ^^ (z \div d)
      z1(x) == (xorShift(x, 2) * 5) % MCModulus
      z2(x) == (xorShift(z1(x), 4) * 3) % MCModulus
  IN  \A x \in 0 .. MCModulus - 1 : MCMix[x] = xorShift(z2(x), 4)

MCReadLengths == {0, 4, 5}
================================================================================
