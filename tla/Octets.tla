-------------------------------- MODULE Octets --------------------------------
(***************************************************************************)
(* 64-bit words and byte slices at their real width, on numbers that fit   *)
(* the model checker: a word is a function from 0 .. 7 to bytes, its least *)
(* significant byte first, so byte(x>>(8*k)) is x[k].  A memory is a       *)
(* function from addresses to bytes; slices are runs of addresses and may  *)
(* overlap.  Used by the models of the address, value and telecom          *)
(* generators, whose arithmetic on words this is.                          *)
(***************************************************************************)
EXTENDS Integers, Sequences

Byte == 0 .. 255

(* A word from its bytes, the most significant first, as a number is read. *)
WordOf(bytes) == [k \in 0 .. 7 |-> bytes[8 - k]]

(* Bytes hi down to lo of x: a run of x, big-endian.                       *)
BigEndian(x, hi, lo) == [i \in 1 .. hi - lo + 1 |-> x[hi + 1 - i]]

LittleEndian(x, n) == [i \in 1 .. n |-> x[i - 1]]

(* The number a short sequence of bytes is, big-endian; below 2^31.        *)
Number(bytes) ==
  LET value[i \in 0 .. Len(bytes)] ==
        IF i = 0 THEN 0 ELSE 256 * value[i - 1] + bytes[i]
  IN  value[Len(bytes)]

MaxBound == 2147483647   \* of n, so that it is a number of the model checker

(* bits.Mul64(x, n), n up to MaxBound: the twelve low bytes, the rest is 0. *)
Product(x, n) ==
  LET nByte(j) == (n \div <<1, 256, 256 * 256, 256 * 256 * 256>>[j + 1]) % 256
      column(k) == LET part(j) == IF k - j \in 0 .. 7 THEN x[k - j] * nByte(j) ELSE 0
                   IN  part(0) + part(1) + part(2) + part(3)
      sum[k \in 0 .. 11] ==
        column(k) + (IF k = 0 THEN 0 ELSE sum[k - 1] \div 256)
  IN  [k \in 0 .. 11 |-> sum[k] % 256]

(* -n % n in 64 bits, that is 2^64 modulo n, by doubling.                  *)
Threshold(n) ==
  LET power[k \in 0 .. 64] == IF k = 0 THEN 1 % n ELSE (2 * power[k - 1]) % n
  IN  power[64]

(* The low half of a product is below t, a number below 2^31.              *)
LowBelow(p, t) ==
  /\ \A k \in 4 .. 7 : p[k] = 0
  /\ p[3] < 128
  /\ Number(BigEndian(p, 3, 0)) < t

(* boundedFrom and boundedSlow on one word: its high half, unless the low  *)
(* half is below the threshold, and then another word is drawn.  The fast  *)
(* path, lo >= n, takes no word the slow one would not.                    *)
BoundedAccepts(x, n) ==
  LET p == Product(x, n)
  IN  ~(LowBelow(p, n) /\ LowBelow(p, Threshold(n)))

BoundedValue(x, n) == Number(BigEndian(Product(x, n), 11, 8))

(* 256 ^ k in base 10000, the lowest of its digits first.                  *)
PowersOf256 ==
  <<<<1, 0, 0, 0, 0>>, <<256, 0, 0, 0, 0>>, <<5536, 6, 0, 0, 0>>,
    <<7216, 1677, 0, 0, 0>>, <<7296, 9496, 42, 0, 0>>,
    <<7776, 1162, 995, 1, 0>>, <<656, 7671, 4749, 281, 0>>,
    <<7936, 3792, 5940, 2057, 7>>>>

(* x in base 10000: five digits, the lowest at 0.                          *)
Base10000(x) ==
  LET part(k, j) == x[k] * PowersOf256[k + 1][j + 1]
      column(j) == part(0, j) + part(1, j) + part(2, j) + part(3, j)
                   + part(4, j) + part(5, j) + part(6, j) + part(7, j)
      sum[j \in 0 .. 4] == column(j) + (IF j = 0 THEN 0 ELSE sum[j - 1] \div 10000)
  IN  [j \in 0 .. 4 |-> sum[j] % 10000]

(* The n lowest of x's twenty decimal digits, the highest of them first.   *)
Digits(x, n) ==
  LET b == Base10000(x)
  IN  [i \in 1 .. n |->
         (b[(n - i) \div 4] \div <<1, 10, 100, 1000>>[((n - i) % 4) + 1]) % 10]

-------------------------------------------------------------------------------
(* Memory.                                                                 *)

Fresh == 100   \* where a new slice begins, away from everything else

(* fixedBytes: dst, at 0, or a fresh slice when its capacity is too small. *)
FixedBytes(capacity, n) == IF capacity < n THEN Fresh ELSE 0

Write(mem, at, bytes) ==
  [a \in DOMAIN mem |-> IF a - at + 1 \in DOMAIN bytes THEN bytes[a - at + 1] ELSE mem[a]]

Slice(mem, at, n) == [i \in 1 .. n |-> mem[at + i - 1]]

(* x ^ 0x02: the universal/local bit.                                      *)
FlipLocal(x) == IF (x \div 2) % 2 = 1 THEN x - 2 ELSE x + 2

(* Defect: ff:fe goes in before the first three bytes are read.            *)
FillerFirst(mem, b, mac, n) ==
  IF n = 8 THEN Write(mem, b, Slice(mem, mac, 8))
  ELSE LET m1 == Write(mem, b + 3, <<255, 254>>)
           m2 == Write(m1, b, Slice(m1, mac, 3))
       IN  Write(m2, b + 5, Slice(m2, mac + 3, 3))

(* putModifiedEUI64's copies: each reads its operands before it writes, so *)
(* a mac that overlaps b may be overwritten before all of it is read.      *)
Encapsulate(mem, b, mac, n) ==
  IF n = 8 THEN Write(mem, b, Slice(mem, mac, 8))
  ELSE LET m1 == Write(mem, b, Slice(mem, mac, 3))
           m2 == Write(m1, b + 3, <<255, 254>>)
       IN  Write(m2, b + 5, Slice(m2, mac + 3, 3))

(* Defect: the universal/local bit is set, not inverted.                   *)
SetsLocal(mem, b, mac, n) ==
  [Encapsulate(mem, b, mac, n) EXCEPT ![b] = (@ \div 4) * 4 + 2 + (@ % 2)]

PutModifiedEUI64(mem, b, mac, n) ==
  [Encapsulate(mem, b, mac, n) EXCEPT ![b] = FlipLocal(@)]
================================================================================
