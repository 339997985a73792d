----------------------------- MODULE NetworkProofs -----------------------------
(***************************************************************************)
(* For every word a provider may yield and every place of a MAC in memory: *)
(* an address lies in a block of its kind and in none its kind excludes,   *)
(* the interface identifier of IPv6EUI64 is that of the MAC passed, a      *)
(* public address or AS number is the first usable candidate, and the      *)
(* bounded kinds have exactly their ranges.                                *)
(***************************************************************************)
EXTENDS Network, SequenceTheorems, FiniteSetTheorems, TLAPS

-------------------------------------------------------------------------------
(* Blocks of addresses.                                                    *)

(* The r leading bits of a byte, and one of its bits.                      *)
Top(u, r) == u \div 2 ^ (8 - r)
BitOf(u, i) == (u \div 2 ^ (7 - i)) % 2

(* Powers of 2 up to a byte's.                                             *)
LEMMA Powers ==
  /\ 2 ^ 0 = 1 /\ 2 ^ 1 = 2 /\ 2 ^ 2 = 4 /\ 2 ^ 3 = 8
  /\ 2 ^ 4 = 16 /\ 2 ^ 5 = 32 /\ 2 ^ 6 = 64 /\ 2 ^ 7 = 128
OBVIOUS

(* One more bit.                                                           *)
LEMMA OneMoreBit ==
  ASSUME NEW u \in Byte, NEW v \in Byte, NEW q \in {1, 2, 4, 8, 16, 32, 64, 128}
  PROVE  u \div q = v \div q <=>
           u \div (2 * q) = v \div (2 * q) /\ (u \div q) % 2 = (v \div q) % 2
<1>1. u \in 0 .. 255 /\ v \in 0 .. 255
  BY DEF Byte
<1>2. CASE q = 1
  BY <1>1, <1>2
<1>3. CASE q = 2
  BY <1>1, <1>3
<1>4. CASE q = 4
  BY <1>1, <1>4
<1>5. CASE q = 8
  BY <1>1, <1>5
<1>6. CASE q = 16
  BY <1>1, <1>6
<1>7. CASE q = 32
  BY <1>1, <1>7
<1>8. CASE q = 64
  BY <1>1, <1>8
<1>9. CASE q = 128
  BY <1>1, <1>9
<1> QED BY <1>2, <1>3, <1>4, <1>5, <1>6, <1>7, <1>8, <1>9

(* Each leading part of a byte from the one that is a bit shorter.         *)
LEMMA TopStep ==
  ASSUME NEW u \in Byte, NEW v \in Byte, NEW r \in 0 .. 7
  PROVE  Top(u, r + 1) = Top(v, r + 1) <=>
           Top(u, r) = Top(v, r) /\ BitOf(u, r) = BitOf(v, r)
<1>1. PICK q : q = 2 ^ (7 - r)
  OBVIOUS
<1>2. q \in {1, 2, 4, 8, 16, 32, 64, 128} /\ 2 ^ (8 - r) = 2 * q
  <2>1. CASE r = 0
    BY <1>1, <2>1
  <2>2. CASE r = 1
    BY <1>1, <2>2
  <2>3. CASE r = 2
    BY <1>1, <2>3
  <2>4. CASE r = 3
    BY <1>1, <2>4
  <2>5. CASE r = 4
    BY <1>1, <2>5
  <2>6. CASE r = 5
    BY <1>1, <2>6
  <2>7. CASE r = 6
    BY <1>1, <2>7
  <2>8. CASE r = 7
    BY <1>1, <2>8
  <2> QED BY <2>1, <2>2, <2>3, <2>4, <2>5, <2>6, <2>7, <2>8
<1>3. 8 - (r + 1) = 7 - r
  OBVIOUS
<1>4. /\ Top(u, r + 1) = u \div q /\ Top(v, r + 1) = v \div q
      /\ Top(u, r) = u \div (2 * q) /\ Top(v, r) = v \div (2 * q)
      /\ BitOf(u, r) = (u \div q) % 2 /\ BitOf(v, r) = (v \div q) % 2
  BY <1>1, <1>2, <1>3 DEF Top, BitOf
<1>5. PICK q2 : q2 = 2 * q
  OBVIOUS
<1>6. u \div q = v \div q <=>
        u \div (2 * q) = v \div (2 * q) /\ (u \div q) % 2 = (v \div q) % 2
  BY <1>2, OneMoreBit
<1> QED BY ONLY <1>4, <1>6

(* Bytes with the same leading bits have the same leading part.            *)
LEMMA TopIs ==
  ASSUME NEW u \in Byte, NEW v \in Byte, NEW r \in 0 .. 8
  PROVE  Top(u, r) = Top(v, r) <=> \A i \in 0 .. r - 1 : BitOf(u, i) = BitOf(v, i)
<1>0. Top(u, 0) = Top(v, 0)
  <2>1. u \in 0 .. 255 /\ v \in 0 .. 255
    BY DEF Byte
  <2>2. 2 ^ (8 - 0) = 256
    OBVIOUS
  <2>3. u \div 256 = 0 /\ v \div 256 = 0
    BY <2>1
  <2> QED BY <2>2, <2>3 DEF Top
<1> DEFINE B(i) == BitOf(u, i) = BitOf(v, i)
           T(k) == Top(u, k) = Top(v, k)
<1>1. \A k \in 0 .. 7 : T(k + 1) <=> T(k) /\ B(k)
  BY TopStep
<1> HIDE DEF B, T
<1>2. /\ T(1) <=> T(0) /\ B(0)
      /\ T(2) <=> T(1) /\ B(1)
      /\ T(3) <=> T(2) /\ B(2)
      /\ T(4) <=> T(3) /\ B(3)
      /\ T(5) <=> T(4) /\ B(4)
      /\ T(6) <=> T(5) /\ B(5)
      /\ T(7) <=> T(6) /\ B(6)
      /\ T(8) <=> T(7) /\ B(7)
  <2>1. /\ 0 + 1 = 1 /\ 1 + 1 = 2 /\ 2 + 1 = 3 /\ 3 + 1 = 4
        /\ 4 + 1 = 5 /\ 5 + 1 = 6 /\ 6 + 1 = 7 /\ 7 + 1 = 8
        /\ 0 \in 0 .. 7 /\ 1 \in 0 .. 7 /\ 2 \in 0 .. 7 /\ 3 \in 0 .. 7
        /\ 4 \in 0 .. 7 /\ 5 \in 0 .. 7 /\ 6 \in 0 .. 7 /\ 7 \in 0 .. 7
    OBVIOUS
  <2> QED BY <1>1, <2>1
<1>3. T(0)
  BY <1>0 DEF T
<1>4. T(r) <=> \A i \in 0 .. r - 1 : B(i)
  <2>0. CASE r = 0
    BY <1>3, <2>0
  <2>1. CASE r = 1
    BY <1>2, <1>3, <2>1
  <2>2. CASE r = 2
    BY <1>2, <1>3, <2>2
  <2>3. CASE r = 3
    BY <1>2, <1>3, <2>3
  <2>4. CASE r = 4
    BY <1>2, <1>3, <2>4
  <2>5. CASE r = 5
    BY <1>2, <1>3, <2>5
  <2>6. CASE r = 6
    BY <1>2, <1>3, <2>6
  <2>7. CASE r = 7
    BY <1>2, <1>3, <2>7
  <2>8. CASE r = 8
    BY <1>2, <1>3, <2>8
  <2> QED BY <2>0, <2>1, <2>2, <2>3, <2>4, <2>5, <2>6, <2>7, <2>8
<1> QED BY <1>4 DEF B, T

(* The bits of a sequence of bytes, byte by byte.                          *)
LEMMA BitIs ==
  ASSUME NEW s, NEW j \in Nat, NEW i \in 0 .. 7
  PROVE  Bit(s, 8 * j + i) = BitOf(s[j + 1], i)
<1>1. (8 * j + i) \div 8 = j /\ (8 * j + i) % 8 = i
  OBVIOUS
<1> QED BY <1>1 DEF Bit, BitOf

(* The first m elements of s and h are bytes.                              *)
BothBytes(s, h, m) == \A j \in 1 .. m : s[j] \in Byte /\ h[j] \in Byte

(* s and h agree in k bytes and the leading r bits of one more.            *)
Agree(s, h, k, r) ==
  (\A j \in 1 .. k : s[j] = h[j]) /\ Top(s[k + 1], r) = Top(h[k + 1], r)

(* They do in the block of as many bits.                                   *)
LEMMA InIs ==
  ASSUME NEW s, NEW h, NEW k \in Nat, NEW r \in 1 .. 8, BothBytes(s, h, k + 1),
         NEW n, n = 8 * k + r
  PROVE  In(s, <<h, n>>) <=> Agree(s, h, k, r)
<1>0. \A j \in 1 .. k + 1 : s[j] \in Byte /\ h[j] \in Byte
  BY DEF BothBytes
<1> DEFINE E(j, i) == BitOf(s[j + 1], i) = BitOf(h[j + 1], i)
           I(j) == IF j < k THEN 7 ELSE r - 1
<1>1. In(s, <<h, n>>) <=> \A i \in 0 .. n - 1 : Bit(s, i) = Bit(h, i)
  BY DEF In
<1>2. (\A i \in 0 .. n - 1 : Bit(s, i) = Bit(h, i))
        <=> \A j \in 0 .. k : \A i \in 0 .. I(j) : E(j, i)
  <2>1. ASSUME \A i \in 0 .. n - 1 : Bit(s, i) = Bit(h, i), NEW j \in 0 .. k, NEW i \in 0 .. I(j)
        PROVE  E(j, i)
    <3>1. i \in 0 .. 7 /\ j \in Nat
      OBVIOUS
    <3>2. 8 * j + i \in 0 .. n - 1
      OBVIOUS
    <3>3. Bit(s, 8 * j + i) = BitOf(s[j + 1], i) /\ Bit(h, 8 * j + i) = BitOf(h[j + 1], i)
      BY <3>1, BitIs
    <3> QED BY <2>1, <3>2, <3>3
  <2>2. ASSUME \A j \in 0 .. k : \A i \in 0 .. I(j) : E(j, i), NEW l \in 0 .. n - 1
        PROVE  Bit(s, l) = Bit(h, l)
    <3>1. PICK j \in Nat, i \in 0 .. 7 : l = 8 * j + i
      <4>1. l \div 8 \in Nat /\ l % 8 \in 0 .. 7 /\ l = 8 * (l \div 8) + (l % 8)
        OBVIOUS
      <4> QED BY <4>1
    <3>2. j \in 0 .. k /\ i \in 0 .. I(j)
      BY <3>1
    <3>3. Bit(s, l) = BitOf(s[j + 1], i) /\ Bit(h, l) = BitOf(h[j + 1], i)
      BY <3>1, BitIs
    <3> QED BY <2>2, <3>2, <3>3
  <2> QED BY <2>1, <2>2
<1>3. (\A j \in 0 .. k : \A i \in 0 .. I(j) : E(j, i))
        <=> /\ \A j \in 0 .. k - 1 : \A i \in 0 .. 7 : E(j, i)
            /\ \A i \in 0 .. r - 1 : E(k, i)
  <2> HIDE DEF E
  <2> QED OBVIOUS
<1>4. ASSUME NEW j \in 0 .. k - 1 PROVE (\A i \in 0 .. 7 : E(j, i)) <=> s[j + 1] = h[j + 1]
  <2>1. s[j + 1] \in Byte /\ h[j + 1] \in Byte
    BY <1>0
  <2>2. Top(s[j + 1], 8) = Top(h[j + 1], 8) <=> \A i \in 0 .. 8 - 1 : E(j, i)
    BY <2>1, TopIs
  <2>3. Top(s[j + 1], 8) = s[j + 1] /\ Top(h[j + 1], 8) = h[j + 1]
    <3>1. ASSUME NEW u \in Byte PROVE Top(u, 8) = u
      <4>1. 2 ^ (8 - 8) = 1 /\ u \in Nat
        BY DEF Byte
      <4> QED BY <4>1 DEF Top
    <3> QED BY <2>1, <3>1
  <2>4. 0 .. 8 - 1 = 0 .. 7
    OBVIOUS
  <2> HIDE DEF E
  <2> QED BY <2>2, <2>3, <2>4
<1>5. (\A i \in 0 .. r - 1 : E(k, i)) <=> Top(s[k + 1], r) = Top(h[k + 1], r)
  <2>1. s[k + 1] \in Byte /\ h[k + 1] \in Byte /\ r \in 0 .. 8
    BY <1>0
  <2> QED BY <2>1, TopIs
<1>6. (\A j \in 0 .. k - 1 : s[j + 1] = h[j + 1]) <=> \A j \in 1 .. k : s[j] = h[j]
  <2>1. ASSUME \A j \in 0 .. k - 1 : s[j + 1] = h[j + 1], NEW j \in 1 .. k PROVE s[j] = h[j]
    <3>1. j - 1 \in 0 .. k - 1 /\ (j - 1) + 1 = j
      OBVIOUS
    <3> QED BY <2>1, <3>1
  <2>2. ASSUME \A j \in 1 .. k : s[j] = h[j], NEW j \in 0 .. k - 1 PROVE s[j + 1] = h[j + 1]
    <3>1. j + 1 \in 1 .. k
      OBVIOUS
    <3> QED BY <2>2, <3>1
  <2> QED BY <2>1, <2>2
<1> HIDE DEF E
<1>7. (\A j \in 0 .. k - 1 : \A i \in 0 .. 7 : E(j, i)) <=> \A j \in 0 .. k - 1 : s[j + 1] = h[j + 1]
  BY <1>4
<1>8. In(s, <<h, n>>)
        <=> (\A j \in 1 .. k : s[j] = h[j]) /\ Top(s[k + 1], r) = Top(h[k + 1], r)
  BY ONLY <1>1, <1>2, <1>3, <1>5, <1>6, <1>7
<1> QED BY ONLY <1>8 DEF Agree

(* A byte is a number.                                                     *)
LEMMA ByteIs == ASSUME NEW y, y \in Byte PROVE y \in Nat /\ y \in 0 .. 255
BY DEF Byte

(* The leading parts of bytes that the reserved blocks end in.             *)
LEMMA TopValues ==
  ASSUME NEW u \in Byte
  PROVE  /\ Top(u, 2) = u \div 64 /\ Top(u, 3) = u \div 32 /\ Top(u, 4) = u \div 16
         /\ Top(u, 7) = u \div 2 /\ Top(u, 8) = u
<1>1. u \in Nat
  BY ByteIs
<1>2. /\ 2 ^ (8 - 2) = 64 /\ 2 ^ (8 - 3) = 32 /\ 2 ^ (8 - 4) = 16
      /\ 2 ^ (8 - 7) = 2 /\ 2 ^ (8 - 8) = 1
  OBVIOUS
<1>3. u \div 1 = u
  BY <1>1
<1> QED BY <1>2, <1>3 DEF Top

(* Blocks that end in the first byte, in the second, ...                   *)
LEMMA In1 ==
  ASSUME NEW s, NEW a \in Byte, s[1] \in Byte, NEW r \in 1 .. 8
  PROVE  In(s, <<<<a>>, r>>) <=> Top(s[1], r) = Top(a, r)
<1>h. PICK h : h = <<a>>
  OBVIOUS
<1>k. PICK k : k = 0
  OBVIOUS
<1>1. h[1] = a
  BY <1>h
<1>2. k \in Nat /\ r = 8 * k + r /\ k + 1 = 1 /\ \A j \in 1 .. k + 1 : j = 1
  BY <1>k
<1>3. BothBytes(s, h, k + 1)
  BY <1>1, <1>2 DEF BothBytes
<1>4. In(s, <<h, r>>) <=> Agree(s, h, k, r)
  <2>1. r \in 1 .. 8
    OBVIOUS
  <2> QED BY ONLY <1>2, <1>3, <2>1, InIs
<1>5. \A j \in 1 .. k : FALSE
  BY <1>k
<1> QED BY <1>h, <1>1, <1>2, <1>4, <1>5 DEF Agree

LEMMA In2 ==
  ASSUME NEW s, NEW a \in Byte, NEW b \in Byte, s[1] \in Byte, s[2] \in Byte,
         NEW r \in 1 .. 8, NEW n, n = 8 + r
  PROVE  In(s, <<<<a, b>>, n>>) <=> s[1] = a /\ Top(s[2], r) = Top(b, r)
<1>h. PICK h : h = <<a, b>>
  OBVIOUS
<1>k. PICK k : k = 1
  OBVIOUS
<1>1. h[1] = a /\ h[2] = b
  BY <1>h
<1>2. k \in Nat /\ n = 8 * k + r /\ k + 1 = 2 /\ \A j \in 1 .. k + 1 : j = 1 \/ j = 2
  BY <1>k
<1>3. BothBytes(s, h, k + 1)
  BY <1>1, <1>2 DEF BothBytes
<1>4. In(s, <<h, n>>) <=> Agree(s, h, k, r)
  <2>1. r \in 1 .. 8
    OBVIOUS
  <2> QED BY ONLY <1>2, <1>3, <2>1, InIs
<1>5. 1 \in 1 .. k /\ \A j \in 1 .. k : j = 1
  BY <1>k
<1> QED BY <1>h, <1>1, <1>2, <1>4, <1>5 DEF Agree

LEMMA In3 ==
  ASSUME NEW s, NEW a \in Byte, NEW b \in Byte, NEW c \in Byte,
         s[1] \in Byte, s[2] \in Byte, s[3] \in Byte, NEW r \in 1 .. 8, NEW n, n = 16 + r
  PROVE  In(s, <<<<a, b, c>>, n>>) <=> s[1] = a /\ s[2] = b /\ Top(s[3], r) = Top(c, r)
<1>h. PICK h : h = <<a, b, c>>
  OBVIOUS
<1>k. PICK k : k = 2
  OBVIOUS
<1>1. h[1] = a /\ h[2] = b /\ h[3] = c
  BY <1>h
<1>2. k \in Nat /\ n = 8 * k + r /\ k + 1 = 3 /\ \A j \in 1 .. k + 1 : j = 1 \/ j = 2 \/ j = 3
  BY <1>k
<1>3. BothBytes(s, h, k + 1)
  BY <1>1, <1>2 DEF BothBytes
<1>4. In(s, <<h, n>>) <=> Agree(s, h, k, r)
  <2>1. r \in 1 .. 8
    OBVIOUS
  <2> QED BY ONLY <1>2, <1>3, <2>1, InIs
<1>5. 1 \in 1 .. k /\ 2 \in 1 .. k /\ \A j \in 1 .. k : j = 1 \/ j = 2
  BY <1>k
<1> QED BY <1>h, <1>1, <1>2, <1>4, <1>5 DEF Agree

(* Blocks of whole bytes.                                                  *)
LEMMA InWhole ==
  ASSUME NEW s, NEW h, NEW k \in Nat \ {0}, BothBytes(s, h, k), NEW n, n = 8 * k
  PROVE  In(s, <<h, n>>) <=> \A j \in 1 .. k : s[j] = h[j]
<1>1. PICK m : m = k - 1
  OBVIOUS
<1>2. m \in Nat /\ m + 1 = k /\ n = 8 * m + 8 /\ 8 \in 1 .. 8
  BY <1>1
<1>3. In(s, <<h, n>>) <=> Agree(s, h, m, 8)
  <2>1. BothBytes(s, h, m + 1)
    BY <1>2
  <2> QED BY ONLY <1>2, <2>1, InIs
<1>4. k \in 1 .. k /\ s[k] \in Byte /\ h[k] \in Byte
  BY DEF BothBytes
<1>5. Top(s[k], 8) = s[k] /\ Top(h[k], 8) = h[k]
  BY <1>4, TopValues
<1>6. (\A j \in 1 .. m : s[j] = h[j]) /\ s[k] = h[k] <=> \A j \in 1 .. k : s[j] = h[j]
  BY <1>2, <1>4
<1> QED BY <1>2, <1>3, <1>5, <1>6 DEF Agree

(* ... of one, two and three bytes.                                        *)
LEMMA InBytes ==
  ASSUME NEW s, s[1] \in Byte
  PROVE  /\ \A a \in Byte : In(s, <<<<a>>, 8>>) <=> s[1] = a
         /\ s[2] \in Byte =>
              /\ \A a, b \in Byte : In(s, <<<<a, b>>, 16>>) <=> s[1] = a /\ s[2] = b
              /\ s[3] \in Byte =>
                   \A a, b, c \in Byte :
                     In(s, <<<<a, b, c>>, 24>>) <=> s[1] = a /\ s[2] = b /\ s[3] = c
<1>1. 8 \in 1 .. 8 /\ 16 = 8 + 8 /\ 24 = 16 + 8 /\ \A u \in Byte : Top(u, 8) = u
  BY TopValues
<1>2. ASSUME NEW a \in Byte PROVE In(s, <<<<a>>, 8>>) <=> s[1] = a
  <2>1. In(s, <<<<a>>, 8>>) <=> Top(s[1], 8) = Top(a, 8)
    BY <1>1, In1
  <2> QED BY <1>1, <2>1
<1>3. ASSUME NEW a \in Byte, NEW b \in Byte, s[2] \in Byte
      PROVE  In(s, <<<<a, b>>, 16>>) <=> s[1] = a /\ s[2] = b
  <2>1. In(s, <<<<a, b>>, 16>>) <=> s[1] = a /\ Top(s[2], 8) = Top(b, 8)
    BY <1>1, <1>3, In2
  <2> QED BY <1>1, <1>3, <2>1
<1>4. ASSUME NEW a \in Byte, NEW b \in Byte, NEW c \in Byte, s[2] \in Byte, s[3] \in Byte
      PROVE  In(s, <<<<a, b, c>>, 24>>) <=> s[1] = a /\ s[2] = b /\ s[3] = c
  <2>1. In(s, <<<<a, b, c>>, 24>>) <=> s[1] = a /\ s[2] = b /\ Top(s[3], 8) = Top(c, 8)
    BY <1>1, <1>4, In3
  <2> QED BY <1>1, <1>4, <2>1
<1> QED BY <1>2, <1>3, <1>4

(* No block is smaller than that of all addresses.                         *)
LEMMA InAll == ASSUME NEW s PROVE In(s, <<<<0>>, 0>>)
<1>1. \A i \in 0 .. 0 - 1 : FALSE
  OBVIOUS
<1> QED BY <1>1 DEF In

-------------------------------------------------------------------------------
(* Sequences of bytes.                                                     *)

(* A function from 1 .. n is a sequence of n elements.                     *)
LEMMA SeqIs ==
  ASSUME NEW n \in Nat, NEW s, s \in [1 .. n -> Byte]
  PROVE  s \in Seq(Byte) /\ n = Len(s)
<1>1. s \in Seq(Byte)
  OBVIOUS
<1>2. Len(s) \in Nat /\ DOMAIN s = 1 .. Len(s)
  BY <1>1, LenProperties
<1>3. DOMAIN s = 1 .. n
  OBVIOUS
<1>4. PICK k : k = Len(s)
  OBVIOUS
<1>5. k \in Nat /\ 1 .. k = 1 .. n
  BY <1>2, <1>3, <1>4
<1>6. k = n
  BY ONLY <1>5, n \in Nat
<1> QED BY <1>1, <1>4, <1>6

(* r is the a elements of s, then the b elements of t.                     *)
Joined(r, s, t, a, b) ==
  /\ r \in [1 .. a + b -> Byte] /\ Len(r) = a + b
  /\ \A i \in 1 .. a : r[i] = s[i]
  /\ \A i \in 1 .. b : r[a + i] = t[i]

(* The parts of a concatenation.                                           *)
LEMMA JoinedIs ==
  ASSUME NEW a \in Nat, NEW b \in Nat, NEW s \in [1 .. a -> Byte], NEW t \in [1 .. b -> Byte],
         NEW r, r = s \o t
  PROVE  Joined(r, s, t, a, b)
<1>1. s \in Seq(Byte) /\ a = Len(s) /\ t \in Seq(Byte) /\ b = Len(t)
  BY SeqIs
<1>2. /\ r \in Seq(Byte) /\ Len(r) = a + b
      /\ \A i \in 1 .. a + b : r[i] = IF i <= a THEN s[i] ELSE t[i - a]
  BY <1>1, ConcatProperties
<1>3. ASSUME NEW i \in 1 .. a PROVE r[i] = s[i]
  <2>1. i \in 1 .. a + b /\ i <= a
    OBVIOUS
  <2> QED BY <2>1, <1>2
<1>4. ASSUME NEW i \in 1 .. b PROVE r[a + i] = t[i]
  <2>1. a + i \in 1 .. a + b /\ ~(a + i <= a) /\ (a + i) - a = i
    OBVIOUS
  <2> QED BY <2>1, <1>2
<1>5. r \in [1 .. a + b -> Byte]
  <2>1. r \in [1 .. Len(r) -> Byte]
    BY <1>2, LenProperties
  <2> QED BY <1>2, <2>1
<1> QED BY <1>2, <1>3, <1>4, <1>5 DEF Joined

(* r is what follows the first h of the n elements of s.                   *)
Rest(r, s, h, n) == r \in [1 .. n - h -> Byte] /\ \A i \in 1 .. n - h : r[i] = s[h + i]

LEMMA RestIs ==
  ASSUME NEW n \in Nat, NEW h \in 0 .. n, NEW s \in [1 .. n -> Byte],
         NEW r, r = SubSeq(s, h + 1, n)
  PROVE  Rest(r, s, h, n)
<1>1. r = [i \in 1 .. n - (h + 1) + 1 |-> s[i + (h + 1) - 1]]
  OBVIOUS
<1>2. n - (h + 1) + 1 = n - h /\ \A i \in 1 .. n - h : i + (h + 1) - 1 = h + i /\ h + i \in 1 .. n
  OBVIOUS
<1>3. r = [i \in 1 .. n - h |-> s[h + i]]
  BY ONLY <1>1, <1>2
<1> QED BY <1>2, <1>3 DEF Rest

(* r is the first h elements of s.                                         *)
Start(r, s, h) == r \in [1 .. h -> Byte] /\ Len(r) = h /\ \A i \in 1 .. h : r[i] = s[i]

LEMMA StartIs ==
  ASSUME NEW n \in Nat, NEW h \in 0 .. n, NEW s \in [1 .. n -> Byte],
         NEW r, r = SubSeq(s, 1, h)
  PROVE  Start(r, s, h)
<1>1. r = [i \in 1 .. h |-> s[i]]
  OBVIOUS
<1>2. r \in [1 .. h -> Byte]
  <2>1. \A i \in 1 .. h : i \in 1 .. n
    OBVIOUS
  <2> QED BY <1>1, <2>1
<1>3. h = Len(r)
  BY <1>2, SeqIs
<1> QED BY <1>1, <1>2, <1>3 DEF Start

(* Bytes of a word, from the highest down.                                 *)
LEMMA BigEndianIs ==
  ASSUME NEW x \in [0 .. 7 -> Byte], NEW hi \in 0 .. 7, NEW lo \in 0 .. hi,
         NEW s, s = BigEndian(x, hi, lo), NEW n, n = hi - lo + 1
  PROVE  s \in [1 .. n -> Byte] /\ \A i \in 1 .. n : s[i] = x[hi + 1 - i]
<1>1. n \in Nat /\ \A i \in 1 .. n : hi + 1 - i \in 0 .. 7
  OBVIOUS
<1>2. s = [i \in 1 .. n |-> x[hi + 1 - i]]
  BY DEF BigEndian
<1> QED BY <1>1, <1>2

(* Bytes of a word, from the lowest up.                                    *)
LEMMA LittleEndianIs ==
  ASSUME NEW x \in [0 .. 7 -> Byte], NEW s, s = LittleEndian(x, 8)
  PROVE  s \in [1 .. 8 -> Byte] /\ \A i \in 1 .. 8 : s[i] = x[i - 1]
<1>1. \A i \in 1 .. 8 : i - 1 \in 0 .. 7
  OBVIOUS
<1>2. s = [i \in 1 .. 8 |-> x[i - 1]]
  BY DEF LittleEndian
<1> QED BY <1>1, <1>2

(* Global replaces the three leading bits of the first byte.               *)
LEMMA GlobalIs ==
  ASSUME NEW n \in Nat \ {0}, NEW s \in [1 .. n -> Byte], NEW r, r = Global(s)
  PROVE  /\ r \in [1 .. n -> Byte]
         /\ r[1] \div 32 = 1
         /\ \A i \in 2 .. n : r[i] = s[i]
<1>1. PICK t : t = Tail(s)
  OBVIOUS
<1>2. t \in [1 .. n - 1 -> Byte] /\ \A i \in 1 .. n - 1 : t[i] = s[i + 1]
  <2>1. s \in Seq(Byte) /\ n = Len(s)
    BY SeqIs
  <2>2. s # <<>>
    BY <2>1, EmptySeq
  <2>3. /\ t \in Seq(Byte) /\ Len(t) = Len(s) - 1
        /\ \A i \in 1 .. Len(t) : t[i] = s[i + 1]
    BY <1>1, <2>1, <2>2, HeadTailProperties
  <2>4. t \in [1 .. Len(t) -> Byte]
    BY <2>3, LenProperties
  <2> QED BY <2>1, <2>3, <2>4
<1>3. PICK y : y = 32 + (s[1] % 32)
  OBVIOUS
<1>4. y \in Byte /\ y \div 32 = 1
  <2>0. 1 \in 1 .. n
    OBVIOUS
  <2>1. s[1] \in Byte
    BY <2>0
  <2>2. PICK u : u = s[1]
    OBVIOUS
  <2>3. u \in Nat
    BY ONLY <2>1, <2>2, ByteIs
  <2>4. PICK z : z = u % 32
    OBVIOUS
  <2>5. z \in 0 .. 31
    BY ONLY <2>3, <2>4
  <2>6. y = 32 + z
    BY ONLY <1>3, <2>2, <2>4
  <2>7. y \in 0 .. 255 /\ y \div 32 = 1
    BY ONLY <2>5, <2>6
  <2> QED BY <2>7 DEF Byte
<1>5. PICK h : h = <<y>>
  OBVIOUS
<1>6. h \in [1 .. 1 -> Byte] /\ h[1] = y
  BY <1>4, <1>5
<1>7. r = h \o t
  BY <1>1, <1>3, <1>5 DEF Global
<1>8. PICK m : m = n - 1
  OBVIOUS
<1>9. m \in Nat /\ 1 \in Nat /\ t \in [1 .. m -> Byte] /\ h \in [1 .. 1 -> Byte]
  BY <1>2, <1>6, <1>8
<1>10. Joined(r, h, t, 1, m)
  BY ONLY <1>7, <1>9, JoinedIs
<1>11. /\ r \in [1 .. 1 + m -> Byte]
       /\ \A i \in 1 .. 1 : r[i] = h[i]
       /\ \A i \in 1 .. m : r[1 + i] = t[i]
  BY <1>10 DEF Joined
<1>12. r \in [1 .. n -> Byte] /\ r[1] = y
  BY <1>6, <1>8, <1>11
<1>13. ASSUME NEW i \in 2 .. n PROVE r[i] = s[i]
  <2>1. PICK j : j = i - 1
    OBVIOUS
  <2>2. j \in 1 .. m /\ j \in 1 .. n - 1 /\ 1 + j = i /\ j + 1 = i
    BY <1>8, <2>1
  <2>3. r[1 + j] = t[j] /\ t[j] = s[j + 1]
    BY ONLY <1>2, <1>11, <2>2
  <2> QED BY ONLY <2>2, <2>3
<1> QED BY <1>4, <1>12, <1>13

-------------------------------------------------------------------------------
(* The inductive invariant.                                                *)

Word == [0 .. 7 -> Byte]
Quad == [1 .. 4 -> Byte]
Octet == [1 .. 8 -> Byte]

(* The i-th part of a result of a kind.                                    *)
Accepted(kind, i, c) ==
  /\ kind = "IPv4Public" => c \in Quad /\ IsPublicIPv4(c)
  /\ kind = "ASNPublic" => c \in Quad /\ IsPublicASN(PairOf(c))
  /\ kind = "IPv6Public" =>
       /\ c \in Octet
       /\ i = 1 => c[1] \div 32 = 1 /\ IsPublicIPv6(c)
       /\ i # 1 => ~IsAnycastIID(c)
  /\ kind \notin {"IPv4Public", "ASNPublic", "IPv6Public"} => c \in Word
  /\ kind = "IPv4LinkLocal" => c[0] \notin {0, 255}
  /\ kind = "IPv4Loopback" => BigEndian(c, 2, 0) \notin {<<0, 0, 0>>, <<255, 255, 255>>}

CallSet == [api : {"IP"}, kind : IPKinds, mac : {NoMAC}]
           \union [api : {"Value"}, kind : ValueKinds, mac : {NoMAC}]
           \union [api : {"IPv6EUI64"}, kind : IPKinds, mac : MACs]

(* Every part kept was accepted, and the result is made of all of them.    *)
NetInv ==
  /\ call \in CallSet
  /\ pc \in {"draw", "done", "nil"}
  /\ pc # "nil" /\ call.api = "IPv6EUI64" => call.kind \in EUI64Kinds /\ call.mac.len \in {6, 8}
  /\ drawn \in Seq(Words[call.kind])
  /\ parts \in Seq(Quad \union Octet \union Word)
  /\ \A i \in 1 .. Len(parts) : Accepted(call.kind, i, parts[i])
  /\ pc = "nil" => drawn = <<>>
  /\ pc = "draw" => Len(parts) < PartsOf(call.kind)
  /\ pc = "done" => Len(parts) = PartsOf(call.kind) /\ result = Outcome(parts)

-------------------------------------------------------------------------------
(* What the code takes for public, and what is in none of the blocks.      *)

(* The first three bytes of a special-purpose IPv4 address.                *)
Special4(a, b, c) ==
  \/ a \in {0, 10, 127}
  \/ a = 100 /\ b \div 64 = 1
  \/ a = 169 /\ b = 254
  \/ a = 172 /\ b \div 16 = 1
  \/ a = 192 /\ b = 0 /\ c \in {0, 2}
  \/ a = 192 /\ b = 88 /\ c = 99
  \/ a = 192 /\ b = 168
  \/ a = 198 /\ b \div 2 = 9
  \/ a = 198 /\ b = 51 /\ c = 100
  \/ a = 203 /\ b = 0 /\ c = 113
  \/ a \div 16 \in {14, 15}

(* An address with these is in one of the blocks.                          *)
LEMMA ReservedIPv4Is ==
  ASSUME NEW s, s[1] \in Byte, s[2] \in Byte, s[3] \in Byte
  PROVE  InAny(s, ReservedIPv4) <=> Special4(s[1], s[2], s[3])
<1>b. /\ \A y \in {0, 2, 9, 10, 16, 18, 51, 64, 88, 99, 100} : y \in Byte
      /\ \A y \in {113, 127, 168, 169, 172, 192, 198, 203, 224, 240, 254} : y \in Byte
  BY DEF Byte
<1>v. /\ Top(64, 2) = 1 /\ Top(224, 4) = 14 /\ Top(240, 4) = 15 /\ Top(16, 4) = 1
      /\ Top(18, 7) = 9
  <2>1. /\ Top(64, 2) = 64 \div 64 /\ Top(224, 4) = 224 \div 16 /\ Top(240, 4) = 240 \div 16
        /\ Top(16, 4) = 16 \div 16 /\ Top(18, 7) = 18 \div 2
    BY <1>b, TopValues
  <2> QED BY <2>1
<1>t. /\ \A u \in Byte : Top(u, 8) = u
      /\ \A u \in Byte : Top(u, 2) = u \div 64
      /\ \A u \in Byte : Top(u, 4) = u \div 16
      /\ \A u \in Byte : Top(u, 7) = u \div 2
  BY TopValues
<1>n. /\ 8 \in 1 .. 8 /\ 2 \in 1 .. 8 /\ 4 \in 1 .. 8 /\ 7 \in 1 .. 8
      /\ 10 = 8 + 2 /\ 16 = 8 + 8 /\ 12 = 8 + 4 /\ 15 = 8 + 7 /\ 24 = 16 + 8
  OBVIOUS
<1>1. /\ In(s, <<<<0>>, 8>>) <=> s[1] = 0
      /\ In(s, <<<<10>>, 8>>) <=> s[1] = 10
      /\ In(s, <<<<127>>, 8>>) <=> s[1] = 127
  <2>1. \A a \in Byte : In(s, <<<<a>>, 8>>) <=> Top(s[1], 8) = Top(a, 8)
    BY <1>n, In1
  <2> QED BY <1>b, <1>t, <2>1
<1>2. In(s, <<<<224>>, 4>>) <=> s[1] \div 16 = 14
  <2>1. \A a \in Byte : In(s, <<<<a>>, 4>>) <=> Top(s[1], 4) = Top(a, 4)
    BY <1>n, In1
  <2> QED BY <1>b, <1>t, <1>v, <2>1
<1>3. In(s, <<<<240>>, 4>>) <=> s[1] \div 16 = 15
  <2>1. \A a \in Byte : In(s, <<<<a>>, 4>>) <=> Top(s[1], 4) = Top(a, 4)
    BY <1>n, In1
  <2> QED BY <1>b, <1>t, <1>v, <2>1
<1>4. In(s, <<<<100, 64>>, 10>>) <=> s[1] = 100 /\ s[2] \div 64 = 1
  <2>1. \A a, b \in Byte : In(s, <<<<a, b>>, 10>>) <=> s[1] = a /\ Top(s[2], 2) = Top(b, 2)
    BY <1>n, In2
  <2> QED BY <1>b, <1>t, <1>v, <2>1
<1>5. In(s, <<<<172, 16>>, 12>>) <=> s[1] = 172 /\ s[2] \div 16 = 1
  <2>1. \A a, b \in Byte : In(s, <<<<a, b>>, 12>>) <=> s[1] = a /\ Top(s[2], 4) = Top(b, 4)
    BY <1>n, In2
  <2> QED BY <1>b, <1>t, <1>v, <2>1
<1>6. In(s, <<<<198, 18>>, 15>>) <=> s[1] = 198 /\ s[2] \div 2 = 9
  <2>1. \A a, b \in Byte : In(s, <<<<a, b>>, 15>>) <=> s[1] = a /\ Top(s[2], 7) = Top(b, 7)
    BY <1>n, In2
  <2> QED BY <1>b, <1>t, <1>v, <2>1
<1>7. /\ In(s, <<<<169, 254>>, 16>>) <=> s[1] = 169 /\ s[2] = 254
      /\ In(s, <<<<192, 168>>, 16>>) <=> s[1] = 192 /\ s[2] = 168
  <2>1. \A a, b \in Byte : In(s, <<<<a, b>>, 16>>) <=> s[1] = a /\ Top(s[2], 8) = Top(b, 8)
    BY <1>n, In2
  <2> QED BY <1>b, <1>t, <2>1
<1>8. /\ In(s, <<<<192, 0, 0>>, 24>>) <=> s[1] = 192 /\ s[2] = 0 /\ s[3] = 0
      /\ In(s, <<<<192, 0, 2>>, 24>>) <=> s[1] = 192 /\ s[2] = 0 /\ s[3] = 2
      /\ In(s, <<<<192, 88, 99>>, 24>>) <=> s[1] = 192 /\ s[2] = 88 /\ s[3] = 99
      /\ In(s, <<<<198, 51, 100>>, 24>>) <=> s[1] = 198 /\ s[2] = 51 /\ s[3] = 100
      /\ In(s, <<<<203, 0, 113>>, 24>>) <=> s[1] = 203 /\ s[2] = 0 /\ s[3] = 113
  <2>1. \A a, b, c \in Byte : In(s, <<<<a, b, c>>, 24>>)
                                <=> s[1] = a /\ s[2] = b /\ Top(s[3], 8) = Top(c, 8)
    BY <1>n, In3
  <2> QED BY <1>b, <1>t, <2>1
<1>9. InAny(s, ReservedIPv4) <=>
        \/ In(s, <<<<0>>, 8>>) \/ In(s, <<<<10>>, 8>>) \/ In(s, <<<<127>>, 8>>)
        \/ In(s, <<<<224>>, 4>>) \/ In(s, <<<<240>>, 4>>)
        \/ In(s, <<<<100, 64>>, 10>>) \/ In(s, <<<<172, 16>>, 12>>)
        \/ In(s, <<<<198, 18>>, 15>>)
        \/ In(s, <<<<169, 254>>, 16>>) \/ In(s, <<<<192, 168>>, 16>>)
        \/ In(s, <<<<192, 0, 0>>, 24>>) \/ In(s, <<<<192, 0, 2>>, 24>>)
        \/ In(s, <<<<192, 88, 99>>, 24>>) \/ In(s, <<<<198, 51, 100>>, 24>>)
        \/ In(s, <<<<203, 0, 113>>, 24>>)
  BY DEF InAny, ReservedIPv4
<1> QED BY ONLY <1>1, <1>2, <1>3, <1>4, <1>5, <1>6, <1>7, <1>8, <1>9 DEF Special4

(* The table of first octets and the slow path tell just these.            *)
LEMMA PublicIPv4Is ==
  ASSUME NEW s, s[1] \in Byte, s[2] \in Byte, s[3] \in Byte
  PROVE  IsPublicIPv4(s) <=> ~InAny(s, ReservedIPv4)
<1>1. ASSUME NEW a \in 0 .. 255, NEW b \in 0 .. 255, NEW c \in 0 .. 255
      PROVE  /\ IPv4FirstOctet(a) = 0 => ~Special4(a, b, c)
             /\ IPv4FirstOctet(a) = 1 => Special4(a, b, c)
             /\ IPv4FirstOctet(a) \notin {0, 1} =>
                  (IsPublicIPv4Slow(a, b, c) <=> ~Special4(a, b, c))
  <2>1. CASE a \in {0, 10, 127}
    BY <2>1 DEF IPv4FirstOctet, Special4
  <2>2. CASE a \in 224 .. 255
    <3>1. a \div 16 \in {14, 15}
      BY <2>2
    <3> QED BY <2>2, <3>1 DEF IPv4FirstOctet, Special4
  <2>3. CASE a \notin {0, 10, 127} \union 224 .. 255
    <3>1. a \div 16 \notin {14, 15}
      BY <2>3
    <3>2. CASE a \in {100, 169, 172, 192, 198, 203}
      <4>1. IPv4FirstOctet(a) = 2
        BY <2>3, <3>2 DEF IPv4FirstOctet
      <4>2. IsPublicIPv4Slow(a, b, c) <=> ~Special4(a, b, c)
        BY <2>3, <3>1 DEF IsPublicIPv4Slow, Special4
      <4> QED BY <4>1, <4>2
    <3>3. CASE a \notin {100, 169, 172, 192, 198, 203}
      <4>1. IPv4FirstOctet(a) = 0
        BY <2>3, <3>3 DEF IPv4FirstOctet
      <4>2. ~Special4(a, b, c)
        BY <2>3, <3>1, <3>3 DEF Special4
      <4> QED BY <4>1, <4>2
    <3> QED BY <3>2, <3>3
  <2> QED BY <2>1, <2>2, <2>3
<1>2. s[1] \in 0 .. 255 /\ s[2] \in 0 .. 255 /\ s[3] \in 0 .. 255
  BY ByteIs
<1>3. IsPublicIPv4(s) <=> ~Special4(s[1], s[2], s[3])
  <2>1. /\ IPv4FirstOctet(s[1]) = 0 => ~Special4(s[1], s[2], s[3])
        /\ IPv4FirstOctet(s[1]) = 1 => Special4(s[1], s[2], s[3])
        /\ IPv4FirstOctet(s[1]) \notin {0, 1} =>
             (IsPublicIPv4Slow(s[1], s[2], s[3]) <=> ~Special4(s[1], s[2], s[3]))
    BY <1>1, <1>2
  <2> QED BY <2>1, SMTT(30) DEF IsPublicIPv4
<1> QED BY <1>3, ReservedIPv4Is

(* The same of AS numbers.                                                 *)
LEMMA PublicASNIs ==
  ASSUME NEW a \in Nat, NEW b \in Nat, a < 65536, b < 65536,
         NEW p, p = <<a, b>>
  PROVE  IsPublicASN(p) <=> ~ReservedASN(p)
<1>1. /\ Pair(0) = <<0, 0>> /\ Pair(23456) = <<0, 23456>>
      /\ Pair(64496) = <<0, 64496>> /\ Pair(131071) = <<1, 65535>>
  BY DEF Pair
<1>3. p[1] = a /\ p[2] = b
  OBVIOUS
<1>4. /\ p = <<0, 0>> <=> a = 0 /\ b = 0
      /\ p = <<0, 23456>> <=> a = 0 /\ b = 23456
      /\ p = <<1, 65535>> <=> a = 1 /\ b = 65535
  OBVIOUS
<1>5. /\ AtMost(<<0, 64496>>, p) <=> 0 < a \/ (0 = a /\ 64496 <= b)
      /\ AtMost(p, <<1, 65535>>) <=> a < 1 \/ (a = 1 /\ b <= 65535)
  BY <1>3 DEF AtMost
<1>6. AtMost(<<0, 64496>>, p) /\ AtMost(p, <<1, 65535>>) <=> (a = 0 /\ b >= 64496) \/ a = 1
  BY <1>5
<1> DEFINE Top32 == AtMost(<<64086, 59904>>, p)
<1>7. IsPublicASN(p) <=> ~(p \in {<<0, 0>>, <<0, 23456>>} \/ (a = 0 /\ b >= 64496) \/ a = 1 \/ Top32)
  BY ONLY <1>1, <1>6 DEF IsPublicASN
<1>8. ReservedASN(p) <=>
        (p \in {<<0, 0>>, <<0, 23456>>, <<1, 65535>>} \/ (a = 0 /\ b >= 64496) \/ a = 1 \/ Top32)
  BY ONLY <1>3 DEF ReservedASN
<1> HIDE DEF Top32
<1> QED BY <1>4, <1>7, <1>8

(* The first bytes of a special-purpose IPv6 address.                      *)
Special6(s) ==
  \/ s[1] = 32 /\ s[2] = 1 /\ s[3] \div 2 = 0
  \/ s[1] = 32 /\ s[2] = 1 /\ s[3] = 13 /\ s[4] = 184
  \/ s[1] = 32 /\ s[2] = 2
  \/ s[1] = 95 /\ s[2] = 0
  \/ s[1] = 63 /\ s[2] = 255 /\ s[3] \div 16 = 0
  \/ s[1] = 38 /\ s[2] = 32 /\ s[3] = 0 /\ s[4] = 79 /\ s[5] = 128 /\ s[6] = 0

(* A block of n bits ends r bits into the third byte.                      *)
Ends3(s, n, r) ==
  \A a, b, c \in Byte :
    In(s, <<<<a, b, c>>, n>>) <=> s[1] = a /\ s[2] = b /\ Top(s[3], r) = Top(c, r)

(* An address in one of the blocks has these.                              *)
LEMMA SpecialIPv6Is ==
  ASSUME NEW s, \A i \in 1 .. 8 : s[i] \in Byte, InAny(s, SpecialIPv6)
  PROVE  Special6(s)
<1>b. \A y \in {0, 1, 2, 13, 32, 38, 63, 79, 95, 128, 184, 255} : y \in Byte
  BY DEF Byte
<1>s. /\ s[1] \in Byte /\ s[2] \in Byte /\ s[3] \in Byte
      /\ s[4] \in Byte /\ s[5] \in Byte /\ s[6] \in Byte
  OBVIOUS
<1>t. /\ \A u \in Byte : Top(u, 8) = u
      /\ \A u \in Byte : Top(u, 4) = u \div 16
      /\ \A u \in Byte : Top(u, 7) = u \div 2
  BY TopValues
<1>v. Top(0, 7) = 0 /\ Top(0, 4) = 0
  <2>1. Top(0, 7) = 0 \div 2 /\ Top(0, 4) = 0 \div 16
    BY <1>b, <1>t
  <2> QED BY <2>1
<1>n. 8 \in 1 .. 8 /\ 4 \in 1 .. 8 /\ 7 \in 1 .. 8 /\ 16 = 8 + 8 /\ 23 = 16 + 7 /\ 20 = 16 + 4
  OBVIOUS
<1>1. In(s, <<<<32, 1, 0>>, 23>>) <=> s[1] = 32 /\ s[2] = 1 /\ s[3] \div 2 = 0
  <2>1. Ends3(s, 23, 7)
    <3>1. PICK r, n : r = 7 /\ n = 23
      OBVIOUS
    <3>2. r \in 1 .. 8 /\ n = 16 + r
      BY ONLY <1>n, <3>1
    <3>3. ASSUME NEW a \in Byte, NEW b \in Byte, NEW c \in Byte
          PROVE  In(s, <<<<a, b, c>>, n>>)
                   <=> s[1] = a /\ s[2] = b /\ Top(s[3], r) = Top(c, r)
      BY ONLY <1>s, <3>2, In3, a \in Byte, b \in Byte, c \in Byte, SMTT(30)
    <3>4. Ends3(s, n, r)
      BY ONLY <3>3 DEF Ends3
    <3> QED BY ONLY <3>1, <3>4
  <2> QED BY <1>b, <1>s, <1>t, <1>v, <2>1 DEF Ends3
<1>2. In(s, <<<<63, 255, 0>>, 20>>) <=> s[1] = 63 /\ s[2] = 255 /\ s[3] \div 16 = 0
  <2>1. Ends3(s, 20, 4)
    <3>1. PICK r, n : r = 4 /\ n = 20
      OBVIOUS
    <3>2. r \in 1 .. 8 /\ n = 16 + r
      BY ONLY <1>n, <3>1
    <3>3. ASSUME NEW a \in Byte, NEW b \in Byte, NEW c \in Byte
          PROVE  In(s, <<<<a, b, c>>, n>>)
                   <=> s[1] = a /\ s[2] = b /\ Top(s[3], r) = Top(c, r)
      BY ONLY <1>s, <3>2, In3, a \in Byte, b \in Byte, c \in Byte, SMTT(30)
    <3>4. Ends3(s, n, r)
      BY ONLY <3>3 DEF Ends3
    <3> QED BY ONLY <3>1, <3>4
  <2> QED BY <1>b, <1>s, <1>t, <1>v, <2>1 DEF Ends3
<1>3. /\ In(s, <<<<32, 2>>, 16>>) <=> s[1] = 32 /\ s[2] = 2
      /\ In(s, <<<<95, 0>>, 16>>) <=> s[1] = 95 /\ s[2] = 0
  <2>1. \A a, b \in Byte : In(s, <<<<a, b>>, 16>>) <=> s[1] = a /\ Top(s[2], 8) = Top(b, 8)
    BY <1>n, <1>s, In2
  <2> QED BY <1>b, <1>s, <1>t, <2>1
<1>4. In(s, <<<<32, 1, 13, 184>>, 32>>) => s[1] = 32 /\ s[2] = 1 /\ s[3] = 13 /\ s[4] = 184
  <2>1. PICK h : h = <<32, 1, 13, 184>>
    OBVIOUS
  <2>2. h[1] = 32 /\ h[2] = 1 /\ h[3] = 13 /\ h[4] = 184
    BY <2>1
  <2>3. BothBytes(s, h, 4)
    <3>1. \A j \in 1 .. 4 : j = 1 \/ j = 2 \/ j = 3 \/ j = 4
      OBVIOUS
    <3> QED BY <1>b, <1>s, <2>2, <3>1 DEF BothBytes
  <2>4. 4 \in Nat \ {0} /\ 32 = 8 * 4
    OBVIOUS
  <2>5. In(s, <<h, 32>>) <=> \A j \in 1 .. 4 : s[j] = h[j]
    BY ONLY <2>3, <2>4, InWhole
  <2> QED BY <2>1, <2>2, <2>5
<1>5. In(s, <<<<38, 32, 0, 79, 128, 0>>, 48>>) =>
        s[1] = 38 /\ s[2] = 32 /\ s[3] = 0 /\ s[4] = 79 /\ s[5] = 128 /\ s[6] = 0
  <2>1. PICK h : h = <<38, 32, 0, 79, 128, 0>>
    OBVIOUS
  <2>2. h[1] = 38 /\ h[2] = 32 /\ h[3] = 0 /\ h[4] = 79 /\ h[5] = 128 /\ h[6] = 0
    BY <2>1
  <2>3. BothBytes(s, h, 6)
    <3>1. \A j \in 1 .. 6 : j = 1 \/ j = 2 \/ j = 3 \/ j = 4 \/ j = 5 \/ j = 6
      OBVIOUS
    <3> QED BY <1>b, <1>s, <2>2, <3>1 DEF BothBytes
  <2>4. 6 \in Nat \ {0} /\ 48 = 8 * 6
    OBVIOUS
  <2>5. In(s, <<h, 48>>) <=> \A j \in 1 .. 6 : s[j] = h[j]
    BY ONLY <2>3, <2>4, InWhole
  <2> QED BY <2>1, <2>2, <2>5
<1>6. \/ In(s, <<<<32, 1, 0>>, 23>>) \/ In(s, <<<<32, 1, 13, 184>>, 32>>)
      \/ In(s, <<<<32, 2>>, 16>>) \/ In(s, <<<<38, 32, 0, 79, 128, 0>>, 48>>)
      \/ In(s, <<<<63, 255, 0>>, 20>>) \/ In(s, <<<<95, 0>>, 16>>)
  BY DEF InAny, SpecialIPv6
<1> QED BY ONLY <1>1, <1>2, <1>3, <1>4, <1>5, <1>6 DEF Special6

(* None of those is public.                                                *)
LEMMA PublicIPv6Is ==
  ASSUME NEW hi \in Octet, IsPublicIPv6(hi)
  PROVE  ~Special6(hi)
<1>1. ASSUME NEW h \in 1 .. 8, NEW t \in [1 .. h -> Byte], \A i \in 1 .. h : hi[i] = t[i]
      PROVE  SubSeq(hi, 1, h) = t
  <2>1. PICK r : r = SubSeq(hi, 1, h)
    OBVIOUS
  <2>2. PICK n : n = 8
    OBVIOUS
  <2>3. n \in Nat /\ h \in 0 .. n /\ hi \in [1 .. n -> Byte]
    BY <2>2 DEF Octet
  <2>4. r \in [1 .. h -> Byte] /\ \A i \in 1 .. h : r[i] = hi[i]
    <3>1. Start(r, hi, h)
      BY ONLY <2>1, <2>3, StartIs
    <3> QED BY ONLY <3>1 DEF Start
  <2>5. r = t
    BY <1>1, <2>4
  <2> QED BY <2>1, <2>5
<1>2. ASSUME hi[1] = 32, hi[2] = 1, hi[3] = 13, hi[4] = 184
      PROVE  SubSeq(hi, 1, 4) = <<32, 1, 13, 184>>
  <2>1. PICK t : t = <<32, 1, 13, 184>>
    OBVIOUS
  <2>2. t \in [1 .. 4 -> Byte]
    BY <2>1 DEF Byte
  <2>3. \A i \in 1 .. 4 : i = 1 \/ i = 2 \/ i = 3 \/ i = 4
    OBVIOUS
  <2>4. t[1] = 32 /\ t[2] = 1 /\ t[3] = 13 /\ t[4] = 184
    BY <2>1
  <2>5. \A i \in 1 .. 4 : hi[i] = t[i]
    BY <1>2, <2>3, <2>4
  <2>6. 4 \in 1 .. 8
    OBVIOUS
  <2> QED BY <1>1, <2>1, <2>2, <2>5, <2>6, ZenonT(40)
<1>3. ASSUME NEW a \in Byte, NEW b \in Byte, hi[1] = a, hi[2] = b
      PROVE  SubSeq(hi, 1, 2) = <<a, b>>
  <2>1. PICK t : t = <<a, b>>
    OBVIOUS
  <2>2. t \in [1 .. 2 -> Byte] /\ t[1] = a /\ t[2] = b
    BY <2>1
  <2>3. \A i \in 1 .. 2 : i = 1 \/ i = 2
    OBVIOUS
  <2>4. \A i \in 1 .. 2 : hi[i] = t[i]
    BY <1>3, <2>2, <2>3
  <2>5. 2 \in 1 .. 8
    OBVIOUS
  <2> QED BY <1>1, <2>1, <2>2, <2>4, <2>5
<1>4. ASSUME hi[1] = 38, hi[2] = 32, hi[3] = 0, hi[4] = 79, hi[5] = 128, hi[6] = 0
      PROVE  SubSeq(hi, 1, 6) = <<38, 32, 0, 79, 128, 0>>
  <2>1. PICK t : t = <<38, 32, 0, 79, 128, 0>>
    OBVIOUS
  <2>2. t \in [1 .. 6 -> Byte]
    BY <2>1 DEF Byte
  <2>3. \A i \in 1 .. 6 : i = 1 \/ i = 2 \/ i = 3 \/ i = 4 \/ i = 5 \/ i = 6
    OBVIOUS
  <2>4. t[1] = 38 /\ t[2] = 32 /\ t[3] = 0 /\ t[4] = 79 /\ t[5] = 128 /\ t[6] = 0
    BY <2>1
  <2>5. \A i \in 1 .. 6 : hi[i] = t[i]
    BY <1>4, <2>3, <2>4
  <2>6. 6 \in 1 .. 8
    OBVIOUS
  <2> QED BY <1>1, <2>1, <2>2, <2>5, <2>6
<1>5. 32 \in Byte /\ 2 \in Byte /\ 95 \in Byte /\ 0 \in Byte
  BY DEF Byte
<1> QED BY <1>2, <1>3, <1>4, <1>5 DEF IsPublicIPv6, Special6

(* Min of a set with a least element.                                      *)
LEMMA MinIs ==
  ASSUME NEW S, S \subseteq Int, NEW m \in S, \A y \in S : m <= y
  PROVE  Min(S) = m
<1>1. \E x \in S : \A y \in S : x <= y
  OBVIOUS
<1>2. Min(S) \in S /\ \A y \in S : Min(S) <= y
  BY <1>1 DEF Min
<1>3. Min(S) <= m /\ m <= Min(S) /\ Min(S) \in Int
  BY <1>2
<1> QED BY <1>3

(* The halves of a word and its eight bytes, as candidates are made.       *)
LEMMA HalfIs ==
  ASSUME NEW x \in Word, NEW high \in BOOLEAN
  PROVE  Half(x, high) \in Quad
<1>1. x \in [0 .. 7 -> Byte]
  BY DEF Word
<1>2. PICK hi : hi = IF high THEN 7 ELSE 3
  OBVIOUS
<1>3. PICK lo : lo = IF high THEN 4 ELSE 0
  OBVIOUS
<1>4. PICK n : n = 4
  OBVIOUS
<1>5. hi \in 0 .. 7 /\ lo \in 0 .. hi /\ n = hi - lo + 1
  BY <1>2, <1>3, <1>4
<1>6. PICK s : s = BigEndian(x, hi, lo)
  OBVIOUS
<1>7. s \in [1 .. n -> Byte]
  BY ONLY <1>1, <1>5, <1>6, BigEndianIs
<1>8. Half(x, high) = s
  BY <1>2, <1>3, <1>6 DEF Half
<1> QED BY <1>4, <1>7, <1>8 DEF Quad

LEMMA OctetIs ==
  ASSUME NEW x \in Word
  PROVE  BigEndian(x, 7, 0) \in Octet
<1>1. x \in [0 .. 7 -> Byte]
  BY DEF Word
<1>2. PICK n : n = 8
  OBVIOUS
<1>3. 7 \in 0 .. 7 /\ 0 \in 0 .. 7 /\ n = 7 - 0 + 1
  BY <1>2
<1>4. PICK s : s = BigEndian(x, 7, 0)
  OBVIOUS
<1>5. s \in [1 .. n -> Byte]
  BY ONLY <1>1, <1>3, <1>4, BigEndianIs
<1> QED BY <1>2, <1>4, <1>5 DEF Octet

AllKinds == IPv4Kinds \union IPv6Kinds \union NumberKinds

(* A word offers one candidate or two.                                     *)
LEMMA CandidatesAre ==
  ASSUME NEW kind \in AllKinds, NEW x, NEW cs, cs = Candidates(kind, x)
  PROVE  \/ cs = <<cs[1]>> /\ Len(cs) = 1
         \/ cs = <<cs[1], cs[2]>> /\ Len(cs) = 2
BY DEF Candidates

(* The one kept is the first its kind accepts.                             *)
LEMMA FirstAccepted ==
  ASSUME NEW kind \in AllKinds, NEW x, NEW cs, cs = Candidates(kind, x),
         NEW i, i = SelectInSeq(cs, LAMBDA c : Accepts(kind, c))
  PROVE  \/ i = 0 /\ \A j \in 1 .. Len(cs) : ~Accepts(kind, cs[j])
         \/ /\ i \in 1 .. Len(cs) /\ Accepts(kind, cs[i])
            /\ \A j \in 1 .. i - 1 : ~Accepts(kind, cs[j])
<1> DEFINE A(j) == Accepts(kind, cs[j])
<1>1. Len(cs) \in {1, 2}
  BY CandidatesAre
<1>2. PICK I : I = {j \in 1 .. Len(cs) : A(j)}
  OBVIOUS
<1>3. i = IF I # {} THEN Min(I) ELSE 0
  BY <1>2 DEF SelectInSeq
<1> HIDE DEF A
<1>4. \A j : j \in I <=> j \in 1 .. Len(cs) /\ A(j)
  BY <1>2
<1>5. I \subseteq Int
  BY <1>1, <1>4
<1>6. CASE I = {}
  BY <1>3, <1>4, <1>6 DEF A
<1>7. CASE A(1)
  <2>1. 1 \in I /\ \A y \in I : 1 <= y
    BY <1>1, <1>4, <1>7
  <2>2. Min(I) = 1
    BY ONLY <1>5, <2>1, MinIs
  <2>3. i = 1
    BY ONLY <1>3, <2>1, <2>2
  <2>4. \A j \in 1 .. 1 - 1 : FALSE
    OBVIOUS
  <2> QED BY <1>4, <2>1, <2>3, <2>4 DEF A
<1>8. CASE I # {} /\ ~A(1)
  <2>0. PICK j : j \in I
    BY <1>8
  <2>1. Len(cs) = 2 /\ A(2) /\ 2 \in I /\ \A y \in I : 2 <= y
    <3>1. j \in 1 .. Len(cs) /\ A(j)
      BY <1>4, <2>0
    <3>2. j # 1
      BY <1>8, <3>1
    <3>3. j = 2 /\ Len(cs) = 2
      <4>1. CASE Len(cs) = 1
        BY ONLY <3>1, <3>2, <4>1
      <4>2. CASE Len(cs) = 2
        BY ONLY <3>1, <3>2, <4>2
      <4> QED BY <1>1, <4>1, <4>2
    <3>4. \A y \in I : y = 2
      BY <1>4, <1>8, <3>3
    <3> QED BY <2>0, <3>1, <3>3, <3>4
  <2>2. Min(I) = 2
    BY ONLY <1>5, <2>1, MinIs
  <2>3. i = 2
    BY ONLY <1>3, <2>1, <2>2
  <2>4. \A m \in 1 .. 2 - 1 : m = 1
    OBVIOUS
  <2> QED BY <1>4, <1>8, <2>1, <2>3, <2>4 DEF A
<1> QED BY <1>6, <1>7, <1>8

(* The kinds whose rule is not the threshold's.                            *)
LEMMA Unbounded ==
  ASSUME NEW kind \in {"IPv4Public", "ASNPublic", "IPv6Public", "IPv4LinkLocal", "IPv4Loopback"}
  PROVE  Bound(kind) = 0
BY DEF Bound

(* An accepted candidate is a part of its kind.                            *)
LEMMA PartIsAccepted ==
  ASSUME NEW kind \in AllKinds, NEW x \in Word, parts \in Seq(Quad \union Octet \union Word),
         NEW i \in 1 .. Len(Candidates(kind, x)), NEW c, c = Candidates(kind, x)[i],
         Accepts(kind, c), NEW k, k = Len(parts) + 1
  PROVE  Accepted(kind, k, c) /\ c \in Quad \union Octet \union Word
<1>1. i \in {1, 2}
  <2>1. Len(Candidates(kind, x)) \in {1, 2}
    BY CandidatesAre
  <2> QED BY <2>1
<1>2. CASE kind \in {"IPv4Public", "ASNPublic"}
  <2>1. c = Half(x, FALSE) \/ c = Half(x, TRUE)
    <3>1. CASE kind = "ASNPublic" \/ drawn = <<>>
      <4>1. Candidates(kind, x) = <<Half(x, FALSE), Half(x, TRUE)>>
        BY <1>2, <3>1 DEF Candidates
      <4>2. Candidates(kind, x)[1] = Half(x, FALSE) /\ Candidates(kind, x)[2] = Half(x, TRUE)
        BY ONLY <4>1
      <4> QED BY <1>1, <4>2
    <3>2. CASE kind = "IPv4Public" /\ drawn # <<>>
      <4>1. Candidates(kind, x) = <<Half(x, FALSE)>>
        BY <3>2 DEF Candidates
      <4>2. Candidates(kind, x)[1] = Half(x, FALSE) /\ Len(Candidates(kind, x)) = 1
        BY ONLY <4>1
      <4>3. i = 1
        BY <4>2
      <4> QED BY <4>2, <4>3
    <3> QED BY <1>2, <3>1, <3>2
  <2>2. c \in Quad
    BY <2>1, HalfIs
  <2>3. /\ kind = "IPv4Public" => IsPublicIPv4(c)
        /\ kind = "ASNPublic" => IsPublicASN(PairOf(c))
    BY <1>2, Unbounded DEF Accepts
  <2> QED BY <1>2, <2>2, <2>3 DEF Accepted
<1>3. CASE kind = "IPv6Public"
  <2>1. CASE parts = <<>>
    <3>1. Len(Candidates(kind, x)) = 1 /\ Candidates(kind, x)[1] = Global(BigEndian(x, 7, 0))
      BY <1>3, <2>1 DEF Candidates
    <3>2. i = 1 /\ c = Global(BigEndian(x, 7, 0))
      BY <3>1
    <3>3. PICK s : s = BigEndian(x, 7, 0)
      OBVIOUS
    <3>4. PICK n : n = 8
      OBVIOUS
    <3>5. n \in Nat \ {0} /\ s \in [1 .. n -> Byte]
      BY <3>3, <3>4, OctetIs DEF Octet
    <3>6. c \in [1 .. n -> Byte] /\ c[1] \div 32 = 1
      <4>1. c = Global(s)
        BY <3>2, <3>3
      <4> QED BY ONLY <3>5, <4>1, GlobalIs
    <3>7. IsPublicIPv6(c)
      BY <1>3, <2>1, Unbounded DEF Accepts
    <3>8. k = 1
      BY <2>1
    <3> QED BY <1>3, <3>4, <3>6, <3>7, <3>8 DEF Accepted, Octet
  <2>2. CASE parts # <<>>
    <3>1. Len(Candidates(kind, x)) = 1 /\ Candidates(kind, x)[1] = BigEndian(x, 7, 0)
      BY <1>3, <2>2 DEF Candidates
    <3>2. c = BigEndian(x, 7, 0)
      BY <3>1
    <3>3. c \in Octet
      BY <3>2, OctetIs
    <3>4. ~IsAnycastIID(c)
      BY <1>3, <2>2, Unbounded DEF Accepts
    <3>5. k # 1
      <4>1. Len(parts) # 0
        BY <2>2, EmptySeq
      <4> QED BY <4>1
    <3> QED BY <1>3, <3>3, <3>4, <3>5 DEF Accepted
  <2> QED BY <2>1, <2>2
<1>4. CASE kind \notin {"IPv4Public", "ASNPublic", "IPv6Public"}
  <2>1. Len(Candidates(kind, x)) = 1 /\ Candidates(kind, x)[1] = x
    BY <1>4 DEF Candidates
  <2>2. c = x
    BY <2>1
  <2>3. kind = "IPv4LinkLocal" => c[0] \notin {0, 255}
    BY <1>4, Unbounded DEF Accepts
  <2>4. kind = "IPv4Loopback" => BigEndian(c, 2, 0) \notin {<<0, 0, 0>>, <<255, 255, 255>>}
    BY <1>4, Unbounded DEF Accepts
  <2> QED BY <1>4, <2>2, <2>3, <2>4 DEF Accepted
<1> QED BY <1>2, <1>3, <1>4

(* What a call may be.                                                     *)
LEMMA CallFacts ==
  ASSUME call \in CallSet
  PROVE  /\ call.kind \in AllKinds /\ Words[call.kind] \subseteq Word
         /\ call.api \in {"IP", "Value", "IPv6EUI64"}
         /\ call.api = "Value" => call.kind \in NumberKinds
         /\ call.api # "Value" => call.kind \in IPv4Kinds \union IPv6Kinds
         /\ call.api # "IPv6EUI64" => call.mac = NoMAC
         /\ call.api = "IPv6EUI64" => call.mac \in MACs
<1>1. /\ call.api \in {"IP", "Value", "IPv6EUI64"}
      /\ call.api = "Value" => call.kind \in ValueKinds
      /\ call.api # "Value" => call.kind \in IPKinds
      /\ call.api # "IPv6EUI64" => call.mac = NoMAC
      /\ call.api = "IPv6EUI64" => call.mac \in MACs
  BY DEF CallSet
<1>2. /\ IPKinds \subseteq IPv4Kinds \union IPv6Kinds
      /\ ValueKinds \subseteq NumberKinds
      /\ \A kind \in IPKinds \union ValueKinds : Words[kind] \subseteq Word
  BY NetworkAssumption DEF Word
<1> QED BY ONLY <1>1, <1>2 DEF AllKinds

LEMMA PartsOfIs == \A kind : PartsOf(kind) \in {1, 2}
BY DEF PartsOf

(* NetInv holds in every reachable state.                                  *)
LEMMA NetInvInductive == Spec => []NetInv
<1>1. Init => NetInv
  <2> SUFFICES ASSUME Init PROVE NetInv
    OBVIOUS
  <2>1. call \in CallSet /\ drawn = <<>> /\ parts = <<>>
    BY DEF Init, CallSet
  <2>2. /\ pc \in {"draw", "nil"}
        /\ pc # "nil" /\ call.api = "IPv6EUI64" => call.kind \in EUI64Kinds /\ call.mac.len \in {6, 8}
    BY DEF Init
  <2>3. /\ drawn \in Seq(Words[call.kind])
        /\ parts \in Seq(Quad \union Octet \union Word)
        /\ Len(parts) = 0 /\ \A i \in 1 .. Len(parts) : FALSE
    BY <2>1
  <2> QED BY <2>1, <2>2, <2>3, PartsOfIs DEF NetInv
<1>2. NetInv /\ [Next]_vars => NetInv'
  <2> SUFFICES ASSUME NetInv, [Next]_vars PROVE NetInv'
    OBVIOUS
  <2>1. CASE UNCHANGED vars
    BY <2>1 DEF NetInv, vars, Outcome
  <2>2. CASE Finished
    BY <2>2 DEF NetInv, vars, Finished, Outcome
  <2>3. ASSUME NEW x \in Words[call.kind], Draw(x) PROVE NetInv'
    <3>1. call.kind \in AllKinds /\ x \in Word
      BY CallFacts DEF NetInv
    <3>2. PICK cs : cs = Candidates(call.kind, x)
      OBVIOUS
    <3>3. PICK i : i = SelectInSeq(cs, LAMBDA c : Accepts(call.kind, c))
      OBVIOUS
    <3>4. PICK p : p = IF i = 0 THEN parts ELSE Append(parts, cs[i])
      OBVIOUS
    <3>5. /\ pc = "draw" /\ call' = call
          /\ drawn' = Append(drawn, x)
          /\ parts' = p
          /\ Len(p) = PartsOf(call.kind) => pc' = "done" /\ result' = Outcome(p)
          /\ Len(p) # PartsOf(call.kind) => pc' = pc
      BY <2>3, <3>2, <3>3, <3>4 DEF Draw
    <3>6. drawn' \in Seq(Words[call.kind])
      BY <3>5 DEF NetInv
    <3>7. /\ p \in Seq(Quad \union Octet \union Word)
          /\ \A k \in 1 .. Len(p) : Accepted(call.kind, k, p[k])
          /\ Len(p) <= PartsOf(call.kind)
      <4>1. /\ parts \in Seq(Quad \union Octet \union Word)
            /\ \A k \in 1 .. Len(parts) : Accepted(call.kind, k, parts[k])
            /\ Len(parts) < PartsOf(call.kind)
        BY <3>5 DEF NetInv
      <4>2. CASE i = 0
        BY <3>4, <4>1, <4>2, PartsOfIs
      <4>3. CASE i # 0
        <5>1. i \in 1 .. Len(cs) /\ Accepts(call.kind, cs[i])
          BY <3>1, <3>2, <3>3, <4>3, FirstAccepted
        <5>2. PICK c : c = cs[i]
          OBVIOUS
        <5>3. PICK m : m = Len(parts) + 1
          OBVIOUS
        <5>4. Accepted(call.kind, m, c) /\ c \in Quad \union Octet \union Word
          BY <3>1, <3>2, <4>1, <5>1, <5>2, <5>3, PartIsAccepted
        <5>5. p = Append(parts, c)
          BY <3>4, <4>3, <5>2
        <5>6. /\ p \in Seq(Quad \union Octet \union Word) /\ Len(p) = m
              /\ p[m] = c /\ \A k \in 1 .. Len(parts) : p[k] = parts[k]
          BY ONLY <4>1, <5>3, <5>4, <5>5, AppendProperties
        <5>7. \A k \in 1 .. m : k \in 1 .. Len(parts) \/ k = m
          BY <4>1, <5>3
        <5>8. m <= PartsOf(call.kind)
          BY <4>1, <5>3, PartsOfIs
        <5>9. \A k \in 1 .. m : Accepted(call.kind, k, p[k])
          BY ONLY <4>1, <5>4, <5>6, <5>7
        <5> QED BY ONLY <5>6, <5>8, <5>9
      <4> QED BY <4>2, <4>3
    <3>8. Len(p) # PartsOf(call.kind) => Len(p) < PartsOf(call.kind)
      BY <3>7, PartsOfIs
    <3>9. Outcome(p) = Outcome(parts)'
      BY <3>5 DEF Outcome
    <3> QED BY <3>5, <3>6, <3>7, <3>8, <3>9 DEF NetInv
  <2> QED BY <2>1, <2>2, <2>3 DEF Next
<1> QED BY <1>1, <1>2, PTL DEF Spec

-------------------------------------------------------------------------------
(* The blocks of the IPv4 kinds.                                           *)

(* The first elements of a concatenation.                                  *)
Begins(r, s) == \A i \in 1 .. Len(s) : r[i] = s[i]

LEMMA StartOfConcat ==
  ASSUME NEW S, NEW s \in Seq(S), NEW t \in Seq(S), NEW r, r = s \o t
  PROVE  Begins(r, s)
<1>1. Len(s) \in Nat /\ Len(t) \in Nat
  BY LenProperties
<1>2. \A i \in 1 .. Len(s) + Len(t) : r[i] = IF i <= Len(s) THEN s[i] ELSE t[i - Len(s)]
  BY ConcatProperties
<1> QED BY <1>1, <1>2 DEF Begins

LEMMA NotInNone == ASSUME NEW r PROVE ~InAny(r, {})
BY DEF InAny

(* An address of a kind: in a block of the kind and in none it excludes.   *)
Documented(kind, r) == InAny(r, Blocks(kind)) /\ ~InAny(r, Excluded(kind))

(* A word has eight bytes.                                                 *)
LEMMA WordBytes ==
  ASSUME NEW x \in Word
  PROVE  /\ x[0] \in Byte /\ x[1] \in Byte /\ x[2] \in Byte /\ x[3] \in Byte
         /\ x[4] \in Byte /\ x[5] \in Byte /\ x[6] \in Byte /\ x[7] \in Byte
BY DEF Word

LEMMA PrivateIs ==
  ASSUME NEW x \in Word, NEW r, r = IPv4("IPv4Private", x)
  PROVE  Documented("IPv4Private", r)
<1> DEFINE head == r[1] = 10 \/ (r[1] = 172 /\ r[2] \div 16 = 1) \/ (r[1] = 192 /\ r[2] = 168)
<1>1. r[1] \in Byte /\ r[2] \in Byte /\ head
  <2>1. PICK t : t = <<x[2], x[3]>>
    OBVIOUS
  <2>2. PICK y : y = 16 + (x[1] % 16)
    OBVIOUS
  <2>3. PICK h : h \in {<<10, x[1]>>, <<172, y>>, <<192, 168>>} /\ r = h \o t
    <3>1. PICK third : third = Product([k \in 0 .. 7 |-> IF k < 4 THEN x[k + 4] ELSE 0], 3)[4]
      OBVIOUS
    <3>2. PICK g : g = CASE third = 0 -> <<10, x[1]>>
                         [] third = 1 -> <<172, y>>
                         [] OTHER -> <<192, 168>>
      OBVIOUS
    <3>3. r = g \o t
      BY <2>1, <2>2, <3>1, <3>2 DEF IPv4
    <3>4. g \in {<<10, x[1]>>, <<172, y>>, <<192, 168>>}
      BY <3>2
    <3> QED BY <3>3, <3>4
  <2>4. y \in Byte /\ y \div 16 = 1
    <3>1. PICK u : u = x[1]
      OBVIOUS
    <3>2. u \in Nat
      BY ONLY <3>1, x \in Word, WordBytes, ByteIs
    <3>3. PICK z : z = u % 16
      OBVIOUS
    <3>4. z \in 0 .. 15
      BY ONLY <3>2, <3>3
    <3>5. y = 16 + z
      BY ONLY <2>2, <3>1, <3>3
    <3>6. y \in 0 .. 255 /\ y \div 16 = 1
      BY ONLY <3>4, <3>5
    <3> QED BY ONLY <3>6 DEF Byte
  <2>5. 10 \in Byte /\ 172 \in Byte /\ 192 \in Byte /\ 168 \in Byte
    BY DEF Byte
  <2>6. t \in Seq(Byte)
    BY <2>1, WordBytes
  <2>7. /\ h \in Seq(Byte) /\ Len(h) = 2 /\ h[1] \in Byte /\ h[2] \in Byte
        /\ h[1] = 10 \/ (h[1] = 172 /\ h[2] \div 16 = 1) \/ (h[1] = 192 /\ h[2] = 168)
    <3>1. CASE h = <<10, x[1]>>
      BY <2>5, <3>1, WordBytes
    <3>2. CASE h = <<172, y>>
      BY <2>4, <2>5, <3>2
    <3>3. CASE h = <<192, 168>>
      BY <2>5, <3>3
    <3> QED BY <2>3, <3>1, <3>2, <3>3
  <2>8. r[1] = h[1] /\ r[2] = h[2]
    <3>1. Begins(r, h)
      BY ONLY <2>3, <2>6, <2>7, StartOfConcat
    <3> QED BY <2>7, <3>1 DEF Begins
  <2> QED BY <2>7, <2>8
<1>2. /\ 10 \in Byte /\ 172 \in Byte /\ 16 \in Byte /\ 192 \in Byte /\ 168 \in Byte
      /\ 8 \in 1 .. 8 /\ 4 \in 1 .. 8 /\ 12 = 8 + 4 /\ 16 = 8 + 8
  BY DEF Byte
<1>3. /\ \A u \in Byte : Top(u, 8) = u
      /\ \A u \in Byte : Top(u, 4) = u \div 16
  BY TopValues
<1>4. \A a \in Byte : In(r, <<<<a>>, 8>>) <=> r[1] = a
  <2>1. r[1] \in Byte
    BY <1>1
  <2> QED BY ONLY <2>1, InBytes
<1>5. \A a, b \in Byte : In(r, <<<<a, b>>, 12>>) <=> r[1] = a /\ Top(r[2], 4) = Top(b, 4)
  BY <1>1, <1>2, In2
<1>6. \A a, b \in Byte : In(r, <<<<a, b>>, 16>>) <=> r[1] = a /\ Top(r[2], 8) = Top(b, 8)
  BY <1>1, <1>2, In2
<1>7. Top(16, 4) = 1
  <2>1. Top(16, 4) = 16 \div 16
    BY <1>2, <1>3
  <2> QED BY <2>1
<1>8. In(r, <<<<10>>, 8>>) \/ In(r, <<<<172, 16>>, 12>>) \/ In(r, <<<<192, 168>>, 16>>)
  BY <1>1, <1>2, <1>3, <1>4, <1>5, <1>6, <1>7
<1>9. Blocks("IPv4Private") = {<<<<10>>, 8>>, <<<<172, 16>>, 12>>, <<<<192, 168>>, 16>>}
      /\ Excluded("IPv4Private") = {}
  BY DEF Blocks, Excluded
<1> QED BY <1>8, <1>9, NotInNone DEF Documented, InAny

LEMMA LinkLocalIs ==
  ASSUME NEW x \in Word, x[0] \notin {0, 255}, NEW r, r = IPv4("IPv4LinkLocal", x)
  PROVE  Documented("IPv4LinkLocal", r)
<1>1. r = <<169, 254, x[0], x[1]>>
  BY DEF IPv4
<1>2. r[1] = 169 /\ r[2] = 254 /\ r[3] = x[0]
  BY <1>1
<1>3. /\ 169 \in Byte /\ 254 \in Byte /\ 0 \in Byte /\ 255 \in Byte /\ r[3] \in Byte
      /\ 8 \in 1 .. 8 /\ 16 = 8 + 8 /\ 24 = 16 + 8
  BY <1>2, WordBytes DEF Byte
<1>4. \A u \in Byte : Top(u, 8) = u
  BY TopValues
<1>5. \A a, b \in Byte : In(r, <<<<a, b>>, 16>>) <=> r[1] = a /\ Top(r[2], 8) = Top(b, 8)
  BY <1>2, <1>3, In2
<1>6. \A a, b, c \in Byte :
        In(r, <<<<a, b, c>>, 24>>) <=> r[1] = a /\ r[2] = b /\ Top(r[3], 8) = Top(c, 8)
  BY <1>2, <1>3, In3
<1>7. In(r, <<<<169, 254>>, 16>>)
  BY <1>2, <1>3, <1>5
<1>8. ~In(r, <<<<169, 254, 0>>, 24>>) /\ ~In(r, <<<<169, 254, 255>>, 24>>)
  BY <1>2, <1>3, <1>4, <1>6
<1>9. /\ Blocks("IPv4LinkLocal") = {<<<<169, 254>>, 16>>}
      /\ Excluded("IPv4LinkLocal") = {<<<<169, 254, 0>>, 24>>, <<<<169, 254, 255>>, 24>>}
  BY DEF Blocks, Excluded
<1> QED BY <1>7, <1>8, <1>9 DEF Documented, InAny

LEMMA MulticastIs ==
  ASSUME NEW x \in Word, NEW r, r = IPv4("IPv4Multicast", x)
  PROVE  Documented("IPv4Multicast", r)
<1>1. r = <<224 + (x[0] % 16), x[1], x[2], x[3]>>
  BY DEF IPv4
<1>2. PICK u : u = x[0]
  OBVIOUS
<1>3. PICK z : z = u % 16
  OBVIOUS
<1>4. z \in 0 .. 15
  <2>1. u \in Nat
    BY ONLY <1>2, x \in Word, WordBytes, ByteIs
  <2> QED BY ONLY <1>3, <2>1
<1>5. r[1] = 224 + z
  BY <1>1, <1>2, <1>3
<1>6. r[1] \in Byte /\ r[1] \div 16 = 14
  <2>1. r[1] \in 0 .. 255 /\ r[1] \div 16 = 14
    BY ONLY <1>4, <1>5
  <2> QED BY <2>1 DEF Byte
<1>7. 224 \in Byte /\ 4 \in 1 .. 8
  BY DEF Byte
<1>8. \A a \in Byte : In(r, <<<<a>>, 4>>) <=> Top(r[1], 4) = Top(a, 4)
  BY <1>6, <1>7, In1
<1>9. Top(r[1], 4) = r[1] \div 16 /\ Top(224, 4) = 224 \div 16
  BY <1>6, <1>7, TopValues
<1>10. Blocks("IPv4Multicast") = {<<<<224>>, 4>>} /\ Excluded("IPv4Multicast") = {}
  BY DEF Blocks, Excluded
<1>11. In(r, <<<<224>>, 4>>)
  <2>1. 224 \div 16 = 14
    OBVIOUS
  <2> QED BY <1>6, <1>7, <1>8, <1>9, <2>1
<1> QED BY <1>10, <1>11, NotInNone DEF Documented, InAny

LEMMA LoopbackIs ==
  ASSUME NEW x \in Word, BigEndian(x, 2, 0) \notin {<<0, 0, 0>>, <<255, 255, 255>>},
         NEW r, r = IPv4("IPv4Loopback", x)
  PROVE  Documented("IPv4Loopback", r)
<1>1. PICK t : t = BigEndian(x, 2, 0)
  OBVIOUS
<1>2. PICK b : b = 3
  OBVIOUS
<1>3. t \in [1 .. b -> Byte]
  <2>1. x \in [0 .. 7 -> Byte] /\ 2 \in 0 .. 7 /\ 0 \in 0 .. 2 /\ b = 2 - 0 + 1
    BY <1>2 DEF Word
  <2> QED BY ONLY <1>1, <2>1, BigEndianIs
<1>4. PICK h : h = <<127>>
  OBVIOUS
<1>5. h \in [1 .. 1 -> Byte] /\ h[1] = 127
  BY <1>4 DEF Byte
<1>6. r = h \o t
  BY <1>1, <1>4 DEF IPv4
<1>7. PICK a : a = 1
  OBVIOUS
<1>8. Joined(r, h, t, a, b)
  <2>1. a \in Nat /\ b \in Nat /\ h \in [1 .. a -> Byte]
    BY <1>2, <1>5, <1>7
  <2> QED BY ONLY <1>3, <1>6, <2>1, JoinedIs
<1>9. /\ r[1] = 127 /\ r[1] \in Byte /\ r[2] \in Byte /\ r[3] \in Byte /\ r[4] \in Byte
      /\ r[2] = t[1] /\ r[3] = t[2] /\ r[4] = t[3]
  <2>1. r \in [1 .. 4 -> Byte] /\ r[1] = h[1] /\ r[1 + 1] = t[1] /\ r[1 + 2] = t[2] /\ r[1 + 3] = t[3]
    BY <1>2, <1>7, <1>8 DEF Joined
  <2> QED BY <1>5, <2>1
<1>10. 127 \in Byte /\ 0 \in Byte /\ 255 \in Byte /\ 8 \in 1 .. 8
  BY DEF Byte
<1>11. In(r, <<<<127>>, 8>>)
  <2>1. \A y \in Byte : In(r, <<<<y>>, 8>>) <=> r[1] = y
    <3>1. r[1] \in Byte
      BY <1>9
    <3> QED BY ONLY <3>1, InBytes
  <2> QED BY <1>9, <1>10, <2>1
<1>12. ASSUME NEW y \in {0, 255} PROVE ~In(r, <<<<127, y, y, y>>, 32>>)
  <2>1. PICK g : g = <<127, y, y, y>>
    OBVIOUS
  <2>2. g[1] = 127 /\ g[2] = y /\ g[3] = y /\ g[4] = y
    BY <2>1
  <2>3. \A j \in 1 .. 4 : j = 1 \/ j = 2 \/ j = 3 \/ j = 4
    OBVIOUS
  <2>4. BothBytes(r, g, 4)
    BY <1>9, <1>10, <2>2, <2>3 DEF BothBytes
  <2>5. 4 \in Nat \ {0} /\ 32 = 8 * 4
    OBVIOUS
  <2>6. In(r, <<g, 32>>) <=> \A j \in 1 .. 4 : r[j] = g[j]
    BY ONLY <2>4, <2>5, InWhole
  <2>7. ~(t[1] = y /\ t[2] = y /\ t[3] = y)
    <3>1. SUFFICES ASSUME t[1] = y, t[2] = y, t[3] = y PROVE FALSE
      OBVIOUS
    <3>2. PICK f : f = <<y, y, y>>
      OBVIOUS
    <3>3. f \in [1 .. 3 -> Byte] /\ f[1] = y /\ f[2] = y /\ f[3] = y
      BY <1>10, <3>2
    <3>4. \A j \in 1 .. 3 : j = 1 \/ j = 2 \/ j = 3
      OBVIOUS
    <3>5. \A j \in 1 .. 3 : f[j] = t[j]
      BY <3>1, <3>3, <3>4
    <3>6. t = f
      BY <1>2, <1>3, <3>3, <3>5
    <3> QED BY <1>1, <3>2, <3>6
  <2>8. ~(\A j \in 1 .. 4 : r[j] = g[j])
    <3>1. SUFFICES ASSUME \A j \in 1 .. 4 : r[j] = g[j] PROVE FALSE
      OBVIOUS
    <3>2. r[2] = g[2] /\ r[3] = g[3] /\ r[4] = g[4]
      BY <3>1
    <3> QED BY <1>9, <2>2, <2>7, <3>2
  <2> QED BY <2>1, <2>6, <2>8
<1>13. /\ Blocks("IPv4Loopback") = {<<<<127>>, 8>>}
       /\ Excluded("IPv4Loopback") = {<<<<127, 0, 0, 0>>, 32>>, <<<<127, 255, 255, 255>>, 32>>}
  BY DEF Blocks, Excluded
<1>14. ~In(r, <<<<127, 0, 0, 0>>, 32>>) /\ ~In(r, <<<<127, 255, 255, 255>>, 32>>)
  BY <1>12
<1> QED BY <1>11, <1>13, <1>14 DEF Documented, InAny

LEMMA CGNATIs ==
  ASSUME NEW x \in Word, NEW r, r = IPv4("IPv4CGNAT", x)
  PROVE  Documented("IPv4CGNAT", r)
<1>1. r = <<100, 64 + (x[0] % 64), x[1], x[2]>>
  BY DEF IPv4
<1>2. PICK u : u = x[0]
  OBVIOUS
<1>3. PICK z : z = u % 64
  OBVIOUS
<1>4. z \in 0 .. 63
  <2>1. u \in Nat
    BY ONLY <1>2, x \in Word, WordBytes, ByteIs
  <2> QED BY ONLY <1>3, <2>1
<1>5. r[1] = 100 /\ r[2] = 64 + z
  BY <1>1, <1>2, <1>3
<1>6. r[2] \in Byte /\ r[2] \div 64 = 1
  <2>1. r[2] \in 0 .. 255 /\ r[2] \div 64 = 1
    BY ONLY <1>4, <1>5
  <2> QED BY <2>1 DEF Byte
<1>7. 100 \in Byte /\ 64 \in Byte /\ 2 \in 1 .. 8 /\ 10 = 8 + 2 /\ 64 \div 64 = 1
  BY DEF Byte
<1>8. \A a, b \in Byte : In(r, <<<<a, b>>, 10>>) <=> r[1] = a /\ Top(r[2], 2) = Top(b, 2)
  BY <1>5, <1>6, <1>7, In2
<1>9. Top(r[2], 2) = r[2] \div 64 /\ Top(64, 2) = 64 \div 64
  BY <1>6, <1>7, TopValues
<1>10. In(r, <<<<100, 64>>, 10>>)
  BY <1>5, <1>6, <1>7, <1>8, <1>9
<1>11. Blocks("IPv4CGNAT") = {<<<<100, 64>>, 10>>} /\ Excluded("IPv4CGNAT") = {}
  BY DEF Blocks, Excluded
<1> QED BY <1>10, <1>11, NotInNone DEF Documented, InAny

LEMMA DocumentationIs ==
  ASSUME NEW x \in Word, NEW r, r = IPv4("IPv4Documentation", x)
  PROVE  Documented("IPv4Documentation", r)
<1>0. PICK w : w = BoundedValue(x, 768)
  OBVIOUS
<1>1. PICK v : v = w % 256
  OBVIOUS
<1>2. PICK t : t = <<v>>
  OBVIOUS
<1>3. PICK h : h \in {<<192, 0, 2>>, <<198, 51, 100>>, <<203, 0, 113>>} /\ r = h \o t
  <2>1. PICK g : g = CASE w \div 256 = 0 -> <<192, 0, 2>>
                       [] w \div 256 = 1 -> <<198, 51, 100>>
                       [] OTHER -> <<203, 0, 113>>
    BY ZenonT(40)
  <2>2. r = g \o t
    BY <1>0, <1>1, <1>2, <2>1 DEF IPv4
  <2>3. g \in {<<192, 0, 2>>, <<198, 51, 100>>, <<203, 0, 113>>}
    BY <2>1
  <2> QED BY <2>2, <2>3
<1>4. /\ 192 \in Byte /\ 0 \in Byte /\ 2 \in Byte /\ 198 \in Byte /\ 51 \in Byte
      /\ 100 \in Byte /\ 203 \in Byte /\ 113 \in Byte /\ 8 \in 1 .. 8 /\ 24 = 16 + 8
  BY DEF Byte
<1>5. PICK a, b, c \in Byte : h = <<a, b, c>>
  BY <1>3, <1>4
<1>6. PICK S : S = Byte \union {v}
  OBVIOUS
<1>7. h \in Seq(S) /\ t \in Seq(S) /\ Len(h) = 3 /\ h[1] = a /\ h[2] = b /\ h[3] = c
  BY <1>2, <1>5, <1>6
<1>8. r[1] = a /\ r[2] = b /\ r[3] = c
  <2>1. Begins(r, h)
    BY ONLY <1>3, <1>7, StartOfConcat
  <2> QED BY <1>7, <2>1 DEF Begins
<1>9. In(r, <<h, 24>>)
  <2>1. r[1] \in Byte /\ r[2] \in Byte /\ r[3] \in Byte
    BY <1>8
  <2>2. \A y1, y2, y3 \in Byte :
          In(r, <<<<y1, y2, y3>>, 24>>) <=> r[1] = y1 /\ r[2] = y2 /\ r[3] = y3
    BY ONLY <2>1, InBytes
  <2> QED BY <1>5, <1>8, <2>2
<1>10. /\ Blocks("IPv4Documentation") =
            {<<<<192, 0, 2>>, 24>>, <<<<198, 51, 100>>, 24>>, <<<<203, 0, 113>>, 24>>}
       /\ Excluded("IPv4Documentation") = {}
  BY DEF Blocks, Excluded
<1> QED BY <1>3, <1>9, <1>10, NotInNone DEF Documented, InAny

(* An IPv4 address of an accepted candidate.                               *)
LEMMA IPv4Documented ==
  ASSUME NEW kind \in IPv4Kinds, NEW c, Accepted(kind, 1, c), NEW r, r = IPv4(kind, c)
  PROVE  Documented(kind, r)
<1>1. kind # "IPv4Public" => c \in Word
  BY DEF Accepted, IPv4Kinds
<1>2. CASE kind = "IPv4Private"
  BY <1>1, <1>2, PrivateIs
<1>3. CASE kind = "IPv4LinkLocal"
  <2>1. c[0] \notin {0, 255}
    BY <1>3 DEF Accepted
  <2> QED BY <1>1, <1>3, <2>1, LinkLocalIs
<1>4. CASE kind = "IPv4Multicast"
  BY <1>1, <1>4, MulticastIs
<1>5. CASE kind = "IPv4Loopback"
  <2>1. BigEndian(c, 2, 0) \notin {<<0, 0, 0>>, <<255, 255, 255>>}
    BY <1>5 DEF Accepted
  <2> QED BY <1>1, <1>5, <2>1, LoopbackIs
<1>6. CASE kind = "IPv4CGNAT"
  BY <1>1, <1>6, CGNATIs
<1>7. CASE kind = "IPv4Documentation"
  BY <1>1, <1>7, DocumentationIs
<1>8. CASE kind = "IPv4Any"
  <2>1. Blocks(kind) = {<<<<0>>, 0>>} /\ Excluded(kind) = {}
    BY <1>8 DEF Blocks, Excluded
  <2> QED BY <2>1, InAll, NotInNone DEF Documented, InAny
<1>9. CASE kind = "IPv4Public"
  <2>1. Blocks(kind) = {<<<<0>>, 0>>} /\ Excluded(kind) = ReservedIPv4
    BY <1>9 DEF Blocks, Excluded
  <2>2. r = c /\ c \in Quad /\ IsPublicIPv4(c)
    BY <1>9 DEF Accepted, IPv4
  <2>3. ~InAny(r, ReservedIPv4)
    <3>1. c[1] \in Byte /\ c[2] \in Byte /\ c[3] \in Byte
      BY <2>2 DEF Quad
    <3> QED BY <2>2, <3>1, PublicIPv4Is
  <2>4. InAny(r, {<<<<0>>, 0>>})
    BY InAll DEF InAny
  <2> QED BY <2>1, <2>3, <2>4 DEF Documented
<1> QED BY <1>2, <1>3, <1>4, <1>5, <1>6, <1>7, <1>8, <1>9 DEF IPv4Kinds

-------------------------------------------------------------------------------
(* The blocks of the IPv6 kinds.                                           *)

MulticastKinds == IPv6Kinds \ (EUI64Kinds \union {"IPv6Any"})

(* How the first eight bytes of an IPv6 address of a kind begin.           *)
Leads(kind, s) ==
  /\ \A i \in 1 .. 8 : s[i] \in Byte
  /\ kind \in {"IPv6Global", "IPv6Public"} => s[1] \div 32 = 1
  /\ kind = "IPv6Public" => ~Special6(s)
  /\ kind = "IPv6LinkLocal" => s[1] = 254 /\ s[2] = 128 /\ \A i \in 3 .. 8 : s[i] = 0
  /\ kind = "IPv6SiteLocal" => s[1] = 254 /\ s[2] \div 64 = 3
  /\ kind = "IPv6UniqueLocal" => s[1] = 253
  /\ kind = "IPv6Documentation" => s[1] = 32 /\ s[2] = 1 /\ s[3] = 13 /\ s[4] = 184
  /\ kind \in MulticastKinds => s[1] = 255 /\ s[2] = 16 + MulticastScope(kind)

LEMMA ScopeIs == \A kind : MulticastScope(kind) \in {1, 2, 3, 4, 5, 8, 14}
BY DEF MulticastScope

(* What begins so is documented.                                           *)
LEMMA IPv6Documented ==
  ASSUME NEW kind \in IPv6Kinds, NEW s, Leads(kind, s)
  PROVE  Documented(kind, s)
<1>1. /\ s[1] \in Byte /\ s[2] \in Byte /\ s[3] \in Byte /\ s[4] \in Byte
      /\ \A i \in 1 .. 8 : s[i] \in Byte
  BY DEF Leads
<1>2. \A y \in {0, 1, 13, 32, 128, 184, 192, 253, 254, 255} : y \in Byte
  BY DEF Byte
<1>e. Excluded(kind) = IF kind = "IPv6Public" THEN SpecialIPv6 ELSE {}
  BY DEF Excluded, IPv6Kinds, EUI64Kinds
<1>x. ~InAny(s, Excluded(kind))
  <2>1. CASE kind = "IPv6Public"
    <3>1. ~Special6(s)
      BY <2>1 DEF Leads
    <3> QED BY <1>1, <1>e, <2>1, <3>1, SpecialIPv6Is
  <2>2. CASE kind # "IPv6Public"
    BY <1>e, <2>2, NotInNone
  <2> QED BY <2>1, <2>2
<1>3. CASE kind = "IPv6Any"
  <2>1. Blocks(kind) = {<<<<0>>, 0>>}
    BY <1>3 DEF Blocks
  <2> QED BY <1>x, <2>1, InAll DEF Documented, InAny
<1>4. CASE kind \in {"IPv6Global", "IPv6Public"}
  <2>1. Blocks(kind) = {<<<<32>>, 3>>}
    BY <1>4 DEF Blocks
  <2>2. 3 \in 1 .. 8 /\ 32 \in Byte /\ 32 \div 32 = 1
    BY <1>2
  <2>3. \A a \in Byte : In(s, <<<<a>>, 3>>) <=> Top(s[1], 3) = Top(a, 3)
    BY <1>1, <2>2, In1
  <2>4. Top(s[1], 3) = s[1] \div 32 /\ Top(32, 3) = 32 \div 32
    BY <1>1, <2>2, TopValues
  <2>5. s[1] \div 32 = 1
    BY <1>4 DEF Leads
  <2>6. In(s, <<<<32>>, 3>>)
    BY <2>2, <2>3, <2>4, <2>5
  <2> QED BY <1>x, <2>1, <2>6 DEF Documented, InAny
<1>5. CASE kind = "IPv6LinkLocal"
  <2>1. PICK h : h = <<254, 128, 0, 0, 0, 0, 0, 0>>
    OBVIOUS
  <2>2. Blocks(kind) = {<<h, 64>>}
    BY <1>5, <2>1 DEF Blocks
  <2>3. h[1] = 254 /\ h[2] = 128 /\ \A i \in 3 .. 8 : h[i] = 0
    <3>1. /\ h[1] = 254 /\ h[2] = 128 /\ h[3] = 0 /\ h[4] = 0
          /\ h[5] = 0 /\ h[6] = 0 /\ h[7] = 0 /\ h[8] = 0
      BY <2>1
    <3>2. \A i \in 3 .. 8 : i = 3 \/ i = 4 \/ i = 5 \/ i = 6 \/ i = 7 \/ i = 8
      OBVIOUS
    <3> QED BY <3>1, <3>2
  <2>4. \A i \in 1 .. 8 : i = 1 \/ i = 2 \/ i \in 3 .. 8
    OBVIOUS
  <2>5. BothBytes(s, h, 8)
    BY <1>1, <1>2, <2>3, <2>4 DEF BothBytes
  <2>6. 8 \in Nat \ {0} /\ 64 = 8 * 8
    OBVIOUS
  <2>7. In(s, <<h, 64>>) <=> \A j \in 1 .. 8 : s[j] = h[j]
    BY ONLY <2>5, <2>6, InWhole
  <2>8. s[1] = 254 /\ s[2] = 128 /\ \A i \in 3 .. 8 : s[i] = 0
    BY <1>5 DEF Leads
  <2>9. \A j \in 1 .. 8 : s[j] = h[j]
    BY <2>3, <2>4, <2>8
  <2> QED BY <1>x, <2>2, <2>7, <2>9 DEF Documented, InAny
<1>6. CASE kind = "IPv6SiteLocal"
  <2>1. Blocks(kind) = {<<<<254, 192>>, 10>>}
    BY <1>6 DEF Blocks
  <2>2. 2 \in 1 .. 8 /\ 10 = 8 + 2 /\ 192 \div 64 = 3
    OBVIOUS
  <2>3. \A a, b \in Byte : In(s, <<<<a, b>>, 10>>) <=> s[1] = a /\ Top(s[2], 2) = Top(b, 2)
    BY <1>1, <2>2, In2
  <2>4. Top(s[2], 2) = s[2] \div 64 /\ Top(192, 2) = 192 \div 64
    BY <1>1, <1>2, TopValues
  <2>5. s[1] = 254 /\ s[2] \div 64 = 3
    BY <1>6 DEF Leads
  <2>6. In(s, <<<<254, 192>>, 10>>)
    BY <1>2, <2>2, <2>3, <2>4, <2>5
  <2> QED BY <1>x, <2>1, <2>6 DEF Documented, InAny
<1>7. CASE kind = "IPv6UniqueLocal"
  <2>1. Blocks(kind) = {<<<<253>>, 8>>}
    BY <1>7 DEF Blocks
  <2>2. s[1] = 253 /\ 253 \in Byte /\ s[1] \in Byte
    BY <1>1, <1>2, <1>7 DEF Leads
  <2>3. In(s, <<<<253>>, 8>>)
    BY ONLY <2>2, InBytes
  <2> QED BY <1>x, <2>1, <2>3 DEF Documented, InAny
<1>8. CASE kind = "IPv6Documentation"
  <2>1. PICK h : h = <<32, 1, 13, 184>>
    OBVIOUS
  <2>2. Blocks(kind) = {<<h, 32>>}
    BY <1>8, <2>1 DEF Blocks
  <2>3. h[1] = 32 /\ h[2] = 1 /\ h[3] = 13 /\ h[4] = 184
    BY <2>1
  <2>4. \A i \in 1 .. 4 : i = 1 \/ i = 2 \/ i = 3 \/ i = 4
    OBVIOUS
  <2>5. BothBytes(s, h, 4)
    BY <1>1, <1>2, <2>3, <2>4 DEF BothBytes
  <2>6. 4 \in Nat \ {0} /\ 32 = 8 * 4
    OBVIOUS
  <2>7. In(s, <<h, 32>>) <=> \A j \in 1 .. 4 : s[j] = h[j]
    BY ONLY <2>5, <2>6, InWhole
  <2>8. s[1] = 32 /\ s[2] = 1 /\ s[3] = 13 /\ s[4] = 184
    BY <1>8 DEF Leads
  <2>9. \A j \in 1 .. 4 : s[j] = h[j]
    BY <2>3, <2>4, <2>8
  <2> QED BY <1>x, <2>2, <2>7, <2>9 DEF Documented, InAny
<1>9. CASE kind \in MulticastKinds
  <2>1. PICK y : y = 16 + MulticastScope(kind)
    OBVIOUS
  <2>2. Blocks(kind) = {<<<<255, y>>, 16>>}
    BY <1>9, <2>1 DEF Blocks, MulticastKinds, IPv6Kinds, EUI64Kinds
  <2>3. s[1] = 255 /\ s[2] = y
    BY <1>9, <2>1 DEF Leads
  <2>4. \A a, b \in Byte : In(s, <<<<a, b>>, 16>>) <=> s[1] = a /\ s[2] = b
    <3>1. s[1] \in Byte /\ s[2] \in Byte
      BY <1>1
    <3> QED BY ONLY <3>1, InBytes
  <2>5. In(s, <<<<255, y>>, 16>>)
    BY <1>1, <1>2, <2>3, <2>4
  <2> QED BY <1>x, <2>2, <2>5 DEF Documented, InAny
<1> QED BY <1>3, <1>4, <1>5, <1>6, <1>7, <1>8, <1>9 DEF IPv6Kinds, EUI64Kinds, MulticastKinds

(* r has sixteen bytes and begins with the h ones of head.                 *)
Headed(r, head, h) ==
  /\ r \in [1 .. 16 -> Byte]
  /\ \A i \in 1 .. 8 : r[i] \in Byte
  /\ \A i \in 1 .. h : r[i] = head[i]

(* Some bytes, then those of random.                                       *)
LEMMA HeadedIs ==
  ASSUME NEW random \in [1 .. 16 -> Byte], NEW h \in 1 .. 4, NEW head \in [1 .. h -> Byte],
         NEW r, r = head \o SubSeq(random, Len(head) + 1, 16)
  PROVE  Headed(r, head, h)
<1>1. PICK n : n = 16
  OBVIOUS
<1>2. h \in 0 .. n /\ n \in Nat /\ h \in Nat /\ random \in [1 .. n -> Byte]
  BY <1>1, SMTT(30)
<1>3. h = Len(head)
  BY <1>2, SeqIs
<1>4. PICK t : t = SubSeq(random, h + 1, n)
  OBVIOUS
<1>5. Rest(t, random, h, n)
  BY ONLY <1>2, <1>4, RestIs
<1>6. PICK m : m = n - h
  OBVIOUS
<1>7. t \in [1 .. m -> Byte] /\ m \in Nat /\ h + m = n
  BY <1>1, <1>2, <1>5, <1>6 DEF Rest
<1>8. r = head \o t
  BY <1>1, <1>3, <1>4
<1>9. head \in [1 .. h -> Byte]
  OBVIOUS
<1>10. Joined(r, head, t, h, m)
  BY ONLY <1>2, <1>7, <1>8, <1>9, JoinedIs
<1>11. r \in [1 .. 16 -> Byte] /\ \A i \in 1 .. h : r[i] = head[i]
  BY <1>1, <1>7, <1>10 DEF Joined
<1>12. \A i \in 1 .. 8 : i \in 1 .. 16
  OBVIOUS
<1> QED BY ONLY <1>11, <1>12 DEF Headed

(* The parts of an address.                                                *)
PartsOK(kind, p) == \A i \in 1 .. PartsOf(kind) : Accepted(kind, i, p[i])

(* The sixteen random bytes of two words.                                  *)
LEMMA RandomIs ==
  ASSUME NEW x \in Word, NEW y \in Word, NEW r, r = LittleEndian(x, 8) \o LittleEndian(y, 8)
  PROVE  r \in [1 .. 16 -> Byte]
<1>1. PICK s : s = LittleEndian(x, 8)
  OBVIOUS
<1>2. PICK t : t = LittleEndian(y, 8)
  OBVIOUS
<1>3. PICK e : e = 8
  OBVIOUS
<1>4. s \in [1 .. e -> Byte] /\ t \in [1 .. e -> Byte] /\ e \in Nat
  <2>1. s \in [1 .. 8 -> Byte]
    BY <1>1, LittleEndianIs DEF Word
  <2>2. t \in [1 .. 8 -> Byte]
    BY <1>2, LittleEndianIs DEF Word
  <2> QED BY <1>3, <2>1, <2>2
<1>5. r = s \o t
  BY <1>1, <1>2
<1>6. Joined(r, s, t, e, e)
  BY ONLY <1>4, <1>5, JoinedIs
<1>7. r \in [1 .. e + e -> Byte]
  BY ONLY <1>6 DEF Joined
<1>8. e + e = 16
  BY ONLY <1>3
<1> QED BY ONLY <1>7, <1>8

(* r begins with the eight bytes of s and ends with those of t.            *)
Halves(r, s, t) ==
  /\ r \in [1 .. 16 -> Byte]
  /\ \A i \in 1 .. 8 : r[i] = s[i]
  /\ \A i \in 1 .. 8 : r[8 + i] = t[i]

LEMMA TwoOctets ==
  ASSUME NEW s \in Octet, NEW t \in Octet, NEW r, r = s \o t
  PROVE  Halves(r, s, t)
<1>1. PICK e : e = 8
  OBVIOUS
<1>2. s \in [1 .. e -> Byte] /\ t \in [1 .. e -> Byte] /\ e \in Nat
  BY <1>1 DEF Octet
<1>3. r = s \o t
  OBVIOUS
<1>4. Joined(r, s, t, e, e)
  BY ONLY <1>2, <1>3, JoinedIs
<1>5. /\ r \in [1 .. e + e -> Byte]
      /\ \A i \in 1 .. e : r[i] = s[i]
      /\ \A i \in 1 .. e : r[e + i] = t[i]
  BY ONLY <1>4 DEF Joined
<1>6. e + e = 16 /\ 1 .. e = 1 .. 8
  BY ONLY <1>1
<1> QED BY ONLY <1>1, <1>5, <1>6 DEF Halves

(* The second half again.                                                  *)
LEMMA LastOctet ==
  ASSUME NEW s \in Octet, NEW t \in Octet, NEW r, Halves(r, s, t)
  PROVE  SubSeq(r, 9, 16) = t
<1>1. PICK e : e = 8
  OBVIOUS
<1>2. PICK n : n = 16
  OBVIOUS
<1>3. PICK u : u = SubSeq(r, e + 1, n)
  OBVIOUS
<1>4. r \in [1 .. n -> Byte]
  BY <1>2 DEF Halves
<1>5. n \in Nat /\ e \in 0 .. n
  BY ONLY <1>1, <1>2
<1>6. Rest(u, r, e, n)
  BY ONLY <1>3, <1>4, <1>5, RestIs
<1>7. u \in [1 .. n - e -> Byte] /\ \A i \in 1 .. n - e : u[i] = r[e + i]
  BY ONLY <1>6 DEF Rest
<1>8. 1 .. n - e = 1 .. 8 /\ e + 1 = 9
  BY ONLY <1>1, <1>2
<1>9. u \in [1 .. 8 -> Byte] /\ \A i \in 1 .. 8 : u[i] = r[8 + i]
  BY ONLY <1>1, <1>7, <1>8
<1>10. t \in [1 .. 8 -> Byte] /\ \A i \in 1 .. 8 : r[8 + i] = t[i]
  BY DEF Octet, Halves
<1>11. u = t
  BY ONLY <1>9, <1>10
<1> QED BY ONLY <1>2, <1>3, <1>8, <1>11

(* An IPv6 address of accepted parts.                                      *)
LEMMA IPv6Leads ==
  ASSUME NEW kind \in IPv6Kinds, NEW p, PartsOK(kind, p), NEW r, r = IPv6(kind, p)
  PROVE  /\ r \in [1 .. 16 -> Byte] /\ Leads(kind, r)
         /\ kind = "IPv6Public" => ~IsAnycastIID(SubSeq(r, 9, 16))
<1>1. Accepted(kind, 1, p[1])
  <2>1. 1 \in 1 .. PartsOf(kind)
    BY PartsOfIs
  <2> QED BY <2>1 DEF PartsOK
<1>2. kind # "IPv6LinkLocal" => Accepted(kind, 2, p[2])
  <2>1. kind # "IPv6LinkLocal" => PartsOf(kind) = 2
    BY DEF PartsOf
  <2>2. kind # "IPv6LinkLocal" => 2 \in 1 .. PartsOf(kind)
    BY <2>1
  <2> QED BY <2>2 DEF PartsOK
<1>3. \A i \in 1 .. 8 : i \in 1 .. 16
  OBVIOUS
<1>4. PICK random : random = LittleEndian(p[1], 8) \o LittleEndian(p[2], 8)
  OBVIOUS
<1>5. kind \notin {"IPv6Public", "IPv6LinkLocal"} => random \in [1 .. 16 -> Byte]
  <2>1. SUFFICES ASSUME kind \notin {"IPv6Public", "IPv6LinkLocal"} PROVE random \in [1 .. 16 -> Byte]
    OBVIOUS
  <2>2. p[1] \in Word /\ p[2] \in Word
    BY <1>1, <1>2, <2>1 DEF Accepted, IPv6Kinds, EUI64Kinds
  <2> QED BY ONLY <1>4, <2>2, RandomIs
<1>6. /\ 253 \in Byte /\ 254 \in Byte /\ 255 \in Byte /\ 128 \in Byte /\ 0 \in Byte
      /\ 32 \in Byte /\ 1 \in Byte /\ 13 \in Byte /\ 184 \in Byte
  BY DEF Byte
<1>7. CASE kind = "IPv6Public"
  <2>1. p[1] \in Octet /\ p[2] \in Octet /\ r = p[1] \o p[2]
    BY <1>1, <1>2, <1>7, ZenonT(40) DEF Accepted, IPv6
  <2>2. Halves(r, p[1], p[2])
    BY ONLY <2>1, TwoOctets
  <2>h. /\ r \in [1 .. 16 -> Byte] /\ \A i \in 1 .. 8 : r[i] = p[1][i]
        /\ SubSeq(r, 9, 16) = p[2]
    <3>1. SubSeq(r, 9, 16) = p[2]
      BY ONLY <2>1, <2>2, LastOctet
    <3> QED BY <2>2, <3>1 DEF Halves
  <2>3. p[1][1] \div 32 = 1 /\ IsPublicIPv6(p[1]) /\ ~IsAnycastIID(p[2])
    BY <1>1, <1>2, <1>7 DEF Accepted
  <2>4. ~Special6(p[1])
    BY <2>1, <2>3, PublicIPv6Is
  <2>5. /\ r[1] = p[1][1] /\ r[2] = p[1][2] /\ r[3] = p[1][3]
        /\ r[4] = p[1][4] /\ r[5] = p[1][5] /\ r[6] = p[1][6]
    BY ONLY <2>h
  <2>6. ~Special6(r)
    BY ONLY <2>4, <2>5 DEF Special6
  <2> QED BY <1>3, <1>7, <2>h, <2>3, <2>5, <2>6 DEF Leads, MulticastKinds, EUI64Kinds
<1>8. CASE kind = "IPv6LinkLocal"
  <2>1. PICK h : h = <<254, 128, 0, 0, 0, 0, 0, 0>>
    OBVIOUS
  <2>2. h \in Octet /\ h[1] = 254 /\ h[2] = 128 /\ \A i \in 3 .. 8 : h[i] = 0
    <3>1. h \in [1 .. 8 -> Byte]
      BY <1>6, <2>1
    <3>2. /\ h[1] = 254 /\ h[2] = 128 /\ h[3] = 0 /\ h[4] = 0
          /\ h[5] = 0 /\ h[6] = 0 /\ h[7] = 0 /\ h[8] = 0
      BY <2>1
    <3>3. \A i \in 3 .. 8 : i = 3 \/ i = 4 \/ i = 5 \/ i = 6 \/ i = 7 \/ i = 8
      OBVIOUS
    <3> QED BY <3>1, <3>2, <3>3 DEF Octet
  <2>3. PICK t : t = LittleEndian(p[1], 8)
    OBVIOUS
  <2>4. t \in Octet
    <3>1. p[1] \in [0 .. 7 -> Byte]
      BY <1>1, <1>8 DEF Accepted, Word
    <3> QED BY <2>3, <3>1, LittleEndianIs DEF Octet
  <2>5. r = h \o t
    BY <1>8, <2>1, <2>3 DEF IPv6
  <2>6. r \in [1 .. 16 -> Byte] /\ \A i \in 1 .. 8 : r[i] = h[i]
    <3>1. h \in Octet
      BY ONLY <2>2
    <3>2. Halves(r, h, t)
      BY ONLY <2>4, <2>5, <3>1, TwoOctets
    <3> QED BY ONLY <3>2 DEF Halves
  <2>7. 1 \in 1 .. 8 /\ 2 \in 1 .. 8 /\ \A i \in 3 .. 8 : i \in 1 .. 8
    OBVIOUS
  <2> QED BY <1>3, <1>8, <2>2, <2>6, <2>7 DEF Leads, MulticastKinds, EUI64Kinds
<1>9. CASE kind = "IPv6Any"
  BY <1>3, <1>4, <1>5, <1>9 DEF IPv6, Leads, MulticastKinds
<1>10. CASE kind = "IPv6Global"
  <2>1. r = Global(random) /\ random \in [1 .. 16 -> Byte]
    BY <1>4, <1>5, <1>10 DEF IPv6
  <2>2. PICK n : n = 16
    OBVIOUS
  <2>3. n \in Nat \ {0} /\ random \in [1 .. n -> Byte] /\ r = Global(random)
    BY <2>1, <2>2
  <2>4. r \in [1 .. n -> Byte] /\ r[1] \div 32 = 1
    BY ONLY <2>3, GlobalIs
  <2> QED BY <1>3, <1>10, <2>2, <2>4 DEF Leads, MulticastKinds, EUI64Kinds
<1>12. CASE kind = "IPv6SiteLocal"
  <2>1. PICK y : y = 192 + (random[2] % 64)
    OBVIOUS
  <2>2. y \in Byte /\ y \div 64 = 3
    <3>1. PICK u : u = random[2]
      OBVIOUS
    <3>2. u \in Byte
      <4>1. 2 \in 1 .. 16
        OBVIOUS
      <4> QED BY <1>5, <1>12, <3>1, <4>1
    <3>3. u \in Nat
      BY ONLY <3>2, ByteIs
    <3>4. PICK z : z = u % 64
      OBVIOUS
    <3>5. z \in 0 .. 63
      BY ONLY <3>3, <3>4
    <3>6. y = 192 + z
      BY ONLY <2>1, <3>1, <3>4
    <3>7. y \in 0 .. 255 /\ y \div 64 = 3
      BY ONLY <3>5, <3>6
    <3> QED BY ONLY <3>7 DEF Byte
  <2>3. PICK head : head = <<254, y>>
    OBVIOUS
  <2>4. head \in [1 .. 2 -> Byte] /\ head[1] = 254 /\ head[2] = y
    BY <1>6, <2>2, <2>3
  <2>5. r = head \o SubSeq(random, Len(head) + 1, 16)
    BY <1>4, <1>12, <2>1, <2>3, ZenonT(40) DEF IPv6
  <2>6. /\ r \in [1 .. 16 -> Byte] /\ \A i \in 1 .. 8 : r[i] \in Byte
        /\ \A i \in 1 .. 2 : r[i] = head[i]
    <3>1. PICK h : h = 2
      OBVIOUS
    <3>2. h \in 1 .. 4 /\ head \in [1 .. h -> Byte] /\ random \in [1 .. 16 -> Byte]
      BY <1>5, <1>12, <2>4, <3>1
    <3>3. Headed(r, head, h)
      BY ONLY <2>5, <3>2, HeadedIs
    <3> QED BY ONLY <3>1, <3>3 DEF Headed
  <2>7. r[1] = 254 /\ r[2] = y
    BY <2>4, <2>6
  <2> QED BY <1>12, <2>2, <2>6, <2>7 DEF Leads, MulticastKinds, EUI64Kinds
<1>13. CASE kind = "IPv6UniqueLocal"
  <2>1. PICK head : head = <<253>>
    OBVIOUS
  <2>2. head \in [1 .. 1 -> Byte] /\ head[1] = 253
    BY <1>6, <2>1
  <2>3. r = head \o SubSeq(random, Len(head) + 1, 16)
    BY <1>4, <1>13, <2>1 DEF IPv6
  <2>4. /\ r \in [1 .. 16 -> Byte] /\ \A i \in 1 .. 8 : r[i] \in Byte
        /\ \A i \in 1 .. 1 : r[i] = head[i]
    <3>1. PICK h : h = 1
      OBVIOUS
    <3>2. h \in 1 .. 4 /\ head \in [1 .. h -> Byte] /\ random \in [1 .. 16 -> Byte]
      BY <1>5, <1>13, <2>2, <3>1
    <3>3. Headed(r, head, h)
      BY ONLY <2>3, <3>2, HeadedIs
    <3> QED BY ONLY <3>1, <3>3 DEF Headed
  <2> QED BY <1>13, <2>2, <2>4 DEF Leads, MulticastKinds, EUI64Kinds
<1>14. CASE kind = "IPv6Documentation"
  <2>1. PICK head : head = <<32, 1, 13, 184>>
    OBVIOUS
  <2>2. /\ head \in [1 .. 4 -> Byte]
        /\ head[1] = 32 /\ head[2] = 1 /\ head[3] = 13 /\ head[4] = 184
    BY <1>6, <2>1
  <2>3. r = head \o SubSeq(random, Len(head) + 1, 16)
    BY <1>4, <1>14, <2>1 DEF IPv6
  <2>4. /\ r \in [1 .. 16 -> Byte] /\ \A i \in 1 .. 8 : r[i] \in Byte
        /\ \A i \in 1 .. 4 : r[i] = head[i]
    <3>1. PICK h : h = 4
      OBVIOUS
    <3>2. h \in 1 .. 4 /\ head \in [1 .. h -> Byte] /\ random \in [1 .. 16 -> Byte]
      BY <1>5, <1>14, <2>2, <3>1
    <3>3. Headed(r, head, h)
      BY ONLY <2>3, <3>2, HeadedIs
    <3> QED BY ONLY <3>1, <3>3 DEF Headed
  <2>5. r[1] = 32 /\ r[2] = 1 /\ r[3] = 13 /\ r[4] = 184
    BY <2>2, <2>4
  <2> QED BY <1>14, <2>4, <2>5 DEF Leads, MulticastKinds, EUI64Kinds
<1>15. CASE kind \in MulticastKinds
  <2>1. PICK y : y = 16 + MulticastScope(kind)
    OBVIOUS
  <2>2. y \in Byte
    <3>1. y \in 0 .. 255
      BY <2>1, ScopeIs
    <3> QED BY <3>1 DEF Byte
  <2>3. PICK head : head = <<255, y>>
    OBVIOUS
  <2>4. head \in [1 .. 2 -> Byte] /\ head[1] = 255 /\ head[2] = y
    BY <1>6, <2>2, <2>3
  <2>5. r = head \o SubSeq(random, Len(head) + 1, 16)
    BY <1>4, <1>15, <2>1, <2>3 DEF IPv6, MulticastKinds, IPv6Kinds, EUI64Kinds
  <2>6. kind \notin EUI64Kinds \union {"IPv6Any"}
    BY <1>15 DEF MulticastKinds
  <2>7. /\ r \in [1 .. 16 -> Byte] /\ \A i \in 1 .. 8 : r[i] \in Byte
        /\ \A i \in 1 .. 2 : r[i] = head[i]
    <3>1. PICK h : h = 2
      OBVIOUS
    <3>r. random \in [1 .. 16 -> Byte]
      BY <1>5, <2>6 DEF EUI64Kinds
    <3>2. h \in 1 .. 4 /\ head \in [1 .. h -> Byte] /\ random \in [1 .. 16 -> Byte]
      BY <2>4, <3>1, <3>r
    <3>3. Headed(r, head, h)
      BY ONLY <2>5, <3>2, HeadedIs
    <3> QED BY ONLY <3>1, <3>3 DEF Headed
  <2>8. r[1] = 255 /\ r[2] = y
    BY <2>4, <2>7
  <2> QED BY <2>1, <2>6, <2>7, <2>8 DEF Leads, EUI64Kinds
<1> QED BY <1>7, <1>8, <1>9, <1>10, <1>12, <1>13, <1>14, <1>15
        DEF MulticastKinds, IPv6Kinds, EUI64Kinds

-------------------------------------------------------------------------------
(* The interface identifier of a MAC.                                      *)

(* w is m with the n bytes of s from b on.                                 *)
Puts(w, m, b, s, n) ==
  /\ w \in [DOMAIN m -> Byte]
  /\ \A i \in 0 .. n - 1 : w[b + i] = s[i + 1]
  /\ \A a \in DOMAIN m : a \notin b .. b + n - 1 => w[a] = m[a]

LEMMA PutsIs ==
  ASSUME NEW m, m \in [DOMAIN m -> Byte], DOMAIN m \subseteq Int,
         NEW n \in Nat, NEW s, s \in [1 .. n -> Byte],
         NEW b \in Int, b .. b + n - 1 \subseteq DOMAIN m,
         NEW w, w = Write(m, b, s)
  PROVE  Puts(w, m, b, s, n)
<1>1. w = [a \in DOMAIN m |-> IF a - b + 1 \in 1 .. n THEN s[a - b + 1] ELSE m[a]]
  <2>1. DOMAIN s = 1 .. n
    OBVIOUS
  <2> QED BY <2>1 DEF Write
<1>2. \A a \in DOMAIN m : w[a] = IF a - b + 1 \in 1 .. n THEN s[a - b + 1] ELSE m[a]
  BY <1>1
<1>3. w \in [DOMAIN m -> Byte]
  <2>1. \A i \in 1 .. n : s[i] \in Byte
    OBVIOUS
  <2>2. \A a \in DOMAIN m : m[a] \in Byte
    OBVIOUS
  <2> QED BY <1>1, <2>1, <2>2
<1>4. ASSUME NEW i \in 0 .. n - 1 PROVE w[b + i] = s[i + 1]
  <2>1. b + i \in b .. b + n - 1
    OBVIOUS
  <2>2. b + i \in DOMAIN m
    BY <2>1
  <2>3. (b + i) - b + 1 = i + 1 /\ i + 1 \in 1 .. n
    OBVIOUS
  <2> QED BY ONLY <1>2, <2>2, <2>3
<1>5. ASSUME NEW a \in DOMAIN m, a \notin b .. b + n - 1 PROVE w[a] = m[a]
  <2>1. a \in Int
    OBVIOUS
  <2>2. a - b + 1 \notin 1 .. n
    BY <1>5, <2>1
  <2> QED BY <1>2, <2>2
<1> QED BY <1>3, <1>4, <1>5 DEF Puts

(* s is the n bytes of m from at on.                                       *)
Takes(s, m, at, n) ==
  /\ s \in [1 .. n -> Byte]
  /\ \A i \in 0 .. n - 1 : s[i + 1] = m[at + i]

LEMMA TakesIs ==
  ASSUME NEW m, NEW n \in Nat, NEW at \in Int, \A i \in 0 .. n - 1 : m[at + i] \in Byte,
         NEW s, s = Slice(m, at, n)
  PROVE  Takes(s, m, at, n)
<1>1. s = [i \in 1 .. n |-> m[at + i - 1]]
  BY DEF Slice
<1>2. \A i \in 1 .. n : i - 1 \in 0 .. n - 1 /\ at + i - 1 = at + (i - 1)
  OBVIOUS
<1>3. s \in [1 .. n -> Byte]
  BY <1>1, <1>2
<1>4. \A i \in 0 .. n - 1 : i + 1 \in 1 .. n /\ at + (i + 1) - 1 = at + i
  OBVIOUS
<1>5. \A i \in 0 .. n - 1 : s[i + 1] = m[at + i]
  BY ONLY <1>1, <1>4
<1> QED BY <1>3, <1>5 DEF Takes

(* The i-th byte of the EUI-64 of the n bytes of m from at on.             *)
EUIByte(m, at, n, i) ==
  CASE n = 8 \/ i < 3 -> m[at + i]
    [] n = 6 /\ i = 3 -> 255
    [] n = 6 /\ i = 4 -> 254
    [] OTHER -> m[at + i - 2]

(* w holds that EUI-64 at 8, if it was apart, and below 8 what m does.     *)
Holds8(w, m, at, n) ==
  /\ w \in [DOMAIN m -> Byte]
  /\ \A a \in 0 .. 7 : w[a] = m[a]
  /\ n = 6 => w[11] = 255 /\ w[12] = 254
  /\ at >= 16 \/ at + n <= 0 => \A i \in 0 .. 7 : w[8 + i] = EUIByte(m, at, n, i)

(* It does after a MAC of eight bytes is copied ...                        *)
LEMMA Copied ==
  ASSUME NEW m, m \in [DOMAIN m -> Byte], DOMAIN m \subseteq Int, 0 .. 15 \subseteq DOMAIN m,
         NEW at \in Int, NEW n, n = 8, at .. at + n - 1 \subseteq DOMAIN m,
         NEW w, w = Encapsulate(m, 8, at, n)
  PROVE  Holds8(w, m, at, n)
<1>1. PICK s : s = Slice(m, at, n)
  OBVIOUS
<1>2. n \in Nat /\ \A i \in 0 .. n - 1 : m[at + i] \in Byte
  <2>1. \A i \in 0 .. n - 1 : at + i \in at .. at + n - 1
    OBVIOUS
  <2> QED BY <2>1
<1>3. at \in Int
  OBVIOUS
<1>4. Takes(s, m, at, n)
  BY ONLY <1>1, <1>2, <1>3, TakesIs
<1>5. PICK b : b = 8
  OBVIOUS
<1>6. /\ m \in [DOMAIN m -> Byte] /\ DOMAIN m \subseteq Int
      /\ s \in [1 .. n -> Byte] /\ b \in Int /\ w = Write(m, b, s)
  BY <1>1, <1>4, <1>5 DEF Takes, Encapsulate
<1>7. b .. b + n - 1 \subseteq DOMAIN m
  <2>1. \A i \in b .. b + n - 1 : i \in 0 .. 15
    BY <1>5
  <2> QED BY <2>1
<1>8. Puts(w, m, b, s, n)
  BY ONLY <1>2, <1>6, <1>7, PutsIs
<1>9. \A a \in 0 .. 7 : w[a] = m[a]
  <2>1. \A a \in 0 .. 7 : a \in 0 .. 15 /\ a \notin b .. b + n - 1
    BY <1>5
  <2>2. \A a \in 0 .. 7 : a \in DOMAIN m /\ a \notin b .. b + n - 1
    BY <2>1
  <2> QED BY ONLY <1>8, <2>2 DEF Puts
<1>10. ASSUME NEW i \in 0 .. 7 PROVE w[8 + i] = EUIByte(m, at, n, i)
  <2>1. i \in 0 .. n - 1
    OBVIOUS
  <2>2. w[b + i] = s[i + 1] /\ s[i + 1] = m[at + i]
    BY ONLY <1>4, <1>8, <2>1 DEF Puts, Takes
  <2> QED BY <1>5, <2>2 DEF EUIByte
<1>11. w \in [DOMAIN m -> Byte] /\ n # 6
  BY <1>8 DEF Puts
<1> QED BY ONLY <1>9, <1>10, <1>11 DEF Holds8

(* ... and after the two halves of one of six bytes and the filler.        *)
LEMMA Filled ==
  ASSUME NEW m, m \in [DOMAIN m -> Byte], DOMAIN m \subseteq Int, 0 .. 15 \subseteq DOMAIN m,
         NEW at \in Int, NEW n, n = 6, at .. at + n - 1 \subseteq DOMAIN m,
         NEW w, w = Encapsulate(m, 8, at, n)
  PROVE  Holds8(w, m, at, n)
<1>0. PICK d : d = DOMAIN m
  OBVIOUS
<1>d. /\ d \subseteq Int /\ m \in [d -> Byte] /\ at \in Int
      /\ \A a \in 0 .. 15 : a \in d
      /\ \A i \in 0 .. 5 : at + i \in d
  <2>1. \A i \in 0 .. 5 : at + i \in at .. at + n - 1
    OBVIOUS
  <2> QED BY <1>0, <2>1
<1>h. PICK h : h = 3
  OBVIOUS
<1>1. PICK s1 : s1 = Slice(m, at, h)
  OBVIOUS
<1>2. Takes(s1, m, at, h)
  <2>1. h \in Nat /\ \A i \in 0 .. h - 1 : i \in 0 .. 5
    BY <1>h
  <2>2. \A i \in 0 .. h - 1 : m[at + i] \in Byte
    BY <1>d, <2>1
  <2> QED BY ONLY <1>1, <1>d, <2>1, <2>2, TakesIs
<1>3. PICK b1 : b1 = 8
  OBVIOUS
<1>4. PICK m1 : m1 = Write(m, b1, s1)
  OBVIOUS
<1>5. Puts(m1, m, b1, s1, h)
  <2>1. b1 \in Int /\ h \in Nat /\ \A a \in b1 .. b1 + h - 1 : a \in 0 .. 15
    BY <1>h, <1>3
  <2>2. b1 .. b1 + h - 1 \subseteq DOMAIN m
    BY <1>0, <1>d, <2>1
  <2>3. s1 \in [1 .. h -> Byte] /\ m \in [DOMAIN m -> Byte] /\ DOMAIN m \subseteq Int
    BY <1>2 DEF Takes
  <2> QED BY ONLY <1>4, <2>1, <2>2, <2>3, PutsIs
<1>6. PICK f : f = <<255, 254>>
  OBVIOUS
<1>7. PICK k : k = 2
  OBVIOUS
<1>8. f \in [1 .. k -> Byte] /\ f[1] = 255 /\ f[2] = 254
  BY <1>6, <1>7 DEF Byte
<1>9. PICK b2 : b2 = 11
  OBVIOUS
<1>10. PICK m2 : m2 = Write(m1, b2, f)
  OBVIOUS
<1>11. DOMAIN m1 = d /\ m1 \in [DOMAIN m1 -> Byte] /\ DOMAIN m1 \subseteq Int
  BY <1>0, <1>5, <1>d DEF Puts
<1>12. Puts(m2, m1, b2, f, k)
  <2>1. b2 \in Int /\ k \in Nat /\ \A a \in b2 .. b2 + k - 1 : a \in 0 .. 15
    BY <1>7, <1>9
  <2>2. b2 .. b2 + k - 1 \subseteq DOMAIN m1
    BY <1>11, <1>d, <2>1
  <2>3. f \in [1 .. k -> Byte]
    BY <1>8
  <2> QED BY ONLY <1>10, <1>11, <2>1, <2>2, <2>3, PutsIs
<1>13. DOMAIN m2 = d /\ m2 \in [DOMAIN m2 -> Byte] /\ DOMAIN m2 \subseteq Int
  BY <1>11, <1>12 DEF Puts
<1>14. PICK a3 : a3 = at + 3
  OBVIOUS
<1>15. PICK s2 : s2 = Slice(m2, a3, h)
  OBVIOUS
<1>16. Takes(s2, m2, a3, h)
  <2>1. h \in Nat /\ a3 \in Int /\ \A i \in 0 .. h - 1 : 3 + i \in 0 .. 5 /\ a3 + i = at + (3 + i)
    BY <1>h, <1>14
  <2>2. \A i \in 0 .. h - 1 : m2[a3 + i] \in Byte
    BY <1>13, <1>d, <2>1
  <2> QED BY ONLY <1>15, <2>1, <2>2, TakesIs
<1>17. PICK b3 : b3 = 13
  OBVIOUS
<1>18. w = Write(m2, b3, s2)
  <2>1. 8 + 3 = 11 /\ 8 + 5 = 13 /\ n # 8
    OBVIOUS
  <2> QED BY <1>h, <1>1, <1>3, <1>4, <1>6, <1>9, <1>10, <1>14, <1>15, <1>17, <2>1 DEF Encapsulate
<1>19. Puts(w, m2, b3, s2, h)
  <2>1. b3 \in Int /\ h \in Nat /\ \A a \in b3 .. b3 + h - 1 : a \in 0 .. 15
    BY <1>h, <1>17
  <2>2. b3 .. b3 + h - 1 \subseteq DOMAIN m2
    BY <1>13, <1>d, <2>1
  <2>3. s2 \in [1 .. h -> Byte]
    BY <1>16 DEF Takes
  <2> QED BY ONLY <1>13, <1>18, <2>1, <2>2, <2>3, PutsIs
<1>20. /\ \A a \in d : a \notin 8 .. 10 => m1[a] = m[a]
       /\ \A a \in d : a \notin 11 .. 12 => m2[a] = m1[a]
       /\ \A a \in d : a \notin 13 .. 15 => w[a] = m2[a]
  <2>1. /\ b1 .. b1 + h - 1 = 8 .. 10 /\ b2 .. b2 + k - 1 = 11 .. 12
        /\ b3 .. b3 + h - 1 = 13 .. 15
    BY ONLY <1>h, <1>3, <1>7, <1>9, <1>17
  <2>2. /\ \A a \in DOMAIN m : a \notin b1 .. b1 + h - 1 => m1[a] = m[a]
        /\ \A a \in DOMAIN m1 : a \notin b2 .. b2 + k - 1 => m2[a] = m1[a]
        /\ \A a \in DOMAIN m2 : a \notin b3 .. b3 + h - 1 => w[a] = m2[a]
    BY ONLY <1>5, <1>12, <1>19 DEF Puts
  <2> QED BY ONLY <1>0, <1>11, <1>13, <2>1, <2>2
<1>21. \A i \in 0 .. 2 : m1[8 + i] = m[at + i] /\ w[13 + i] = m2[a3 + i]
  <2>1. \A i \in 0 .. 2 : i \in 0 .. h - 1
    BY ONLY <1>h
  <2>2. \A i \in 0 .. h - 1 : m1[b1 + i] = s1[i + 1] /\ w[b3 + i] = s2[i + 1]
    BY ONLY <1>5, <1>19 DEF Puts
  <2>3. \A i \in 0 .. h - 1 : s1[i + 1] = m[at + i] /\ s2[i + 1] = m2[a3 + i]
    BY ONLY <1>2, <1>16 DEF Takes
  <2> QED BY ONLY <1>3, <1>17, <2>1, <2>2, <2>3
<1>22. m2[11] = 255 /\ m2[12] = 254
  <2>1. 0 \in 0 .. k - 1 /\ 1 \in 0 .. k - 1
    BY ONLY <1>7
  <2>2. m2[b2 + 0] = f[0 + 1] /\ m2[b2 + 1] = f[1 + 1]
    BY ONLY <1>12, <2>1 DEF Puts
  <2>3. b2 + 0 = 11 /\ b2 + 1 = 12 /\ 0 + 1 = 1 /\ 1 + 1 = 2
    BY ONLY <1>9
  <2> QED BY ONLY <1>8, <2>2, <2>3
<1>23. w[11] = 255 /\ w[12] = 254
  <2>1. 11 \in d /\ 12 \in d /\ 11 \notin 13 .. 15 /\ 12 \notin 13 .. 15
    BY <1>d
  <2> QED BY ONLY <1>20, <1>22, <2>1
<1>24. \A a \in 0 .. 7 : w[a] = m[a]
  <2>1. \A a \in 0 .. 7 : a \in 0 .. 15 /\ a \notin 8 .. 10 /\ a \notin 11 .. 12 /\ a \notin 13 .. 15
    OBVIOUS
  <2>2. \A a \in 0 .. 7 : a \in d
    BY ONLY <1>d, <2>1
  <2> QED BY ONLY <1>20, <2>1, <2>2
<1>25. \A i \in 0 .. 2 : w[8 + i] = m[at + i]
  <2>1. \A i \in 0 .. 2 : /\ 8 + i \in 0 .. 15
                          /\ 8 + i \notin 11 .. 12 /\ 8 + i \notin 13 .. 15
    OBVIOUS
  <2>2. \A i \in 0 .. 2 : 8 + i \in d
    BY ONLY <1>d, <2>1
  <2> QED BY ONLY <1>20, <1>21, <2>1, <2>2
<1>26. ASSUME at >= 16 \/ at + n <= 0, NEW i \in 0 .. 2 PROVE w[13 + i] = m[at + 3 + i]
  <2>1. PICK a : a = at + 3 + i
    OBVIOUS
  <2>2. a3 + i = a /\ a \notin 8 .. 10 /\ a \notin 11 .. 12
    BY <1>14, <1>26, <2>1
  <2>3. a \in d
    <3>1. 3 + i \in 0 .. 5 /\ a = at + (3 + i)
      BY <2>1
    <3> QED BY ONLY <1>d, <3>1
  <2>4. m2[a] = m[a]
    BY ONLY <1>20, <2>2, <2>3
  <2> QED BY ONLY <1>21, <2>1, <2>2, <2>4, i \in 0 .. 2
<1>27. ASSUME at >= 16 \/ at + n <= 0, NEW i \in 0 .. 7 PROVE w[8 + i] = EUIByte(m, at, n, i)
  <2>1. CASE i \in 0 .. 2
    BY <1>25, <2>1 DEF EUIByte
  <2>2. CASE i = 3
    BY <1>23, <2>2 DEF EUIByte
  <2>3. CASE i = 4
    BY <1>23, <2>3 DEF EUIByte
  <2>4. CASE i \in 5 .. 7
    <3>1. PICK j : j = i - 5
      OBVIOUS
    <3>2. j \in 0 .. 2 /\ 8 + i = 13 + j /\ at + 3 + j = at + i - 2 /\ i \notin {3, 4} /\ ~(i < 3)
      BY <2>4, <3>1
    <3>3. w[13 + j] = m[at + 3 + j]
      BY <1>26, <1>27, <3>2
    <3>4. EUIByte(m, at, n, i) = m[at + i - 2]
      BY <3>2 DEF EUIByte
    <3> QED BY ONLY <3>2, <3>3, <3>4
  <2> QED BY <2>1, <2>2, <2>3, <2>4
<1>28. w \in [DOMAIN m -> Byte]
  BY <1>0, <1>13, <1>19 DEF Puts
<1> QED BY ONLY <1>23, <1>24, <1>27, <1>28 DEF Holds8

(* Inverting a bit of a byte gives a byte with the others.                 *)
LEMMA FlipIs ==
  ASSUME NEW u \in Byte, NEW v, v = FlipLocal(u)
  PROVE  v \in Byte /\ \A i \in 0 .. 7 : BitOf(v, i) = BitOf(u, i) <=> i # 6
<1>1. u \in 0 .. 255
  BY DEF Byte
<1>2. PICK q \in 0 .. 63, b \in {0, 1}, c \in {0, 1} : u = 4 * q + 2 * b + c
  <2>1. /\ u \div 4 \in 0 .. 63 /\ (u \div 2) % 2 \in {0, 1} /\ u % 2 \in {0, 1}
        /\ u = 4 * (u \div 4) + 2 * ((u \div 2) % 2) + (u % 2)
    BY ONLY <1>1
  <2> QED BY <2>1
<1>3. v = 4 * q + 2 * (1 - b) + c
  <2>1. (u \div 2) % 2 = b
    BY <1>2
  <2>2. v = IF b = 1 THEN u - 2 ELSE u + 2
    BY <2>1 DEF FlipLocal
  <2> QED BY <1>2, <2>2
<1>4. v \in 0 .. 255
  BY <1>3
<1>5. /\ u \div 1 = u /\ v \div 1 = v
      /\ u \div 2 = 2 * q + b /\ v \div 2 = 2 * q + (1 - b)
      /\ u \div 4 = q /\ v \div 4 = q
      /\ u \div 8 = q \div 2 /\ v \div 8 = q \div 2
      /\ u \div 16 = q \div 4 /\ v \div 16 = q \div 4
      /\ u \div 32 = q \div 8 /\ v \div 32 = q \div 8
      /\ u \div 64 = q \div 16 /\ v \div 64 = q \div 16
      /\ u \div 128 = q \div 32 /\ v \div 128 = q \div 32
  BY ONLY <1>2, <1>3, q \in 0 .. 63, b \in {0, 1}, c \in {0, 1}
<1>6. u % 2 = c /\ v % 2 = c /\ (2 * q + b) % 2 = b /\ (2 * q + (1 - b)) % 2 = 1 - b
  BY ONLY <1>2, <1>3, q \in 0 .. 63, b \in {0, 1}, c \in {0, 1}
<1>7. ASSUME NEW i \in 0 .. 7 PROVE BitOf(v, i) = BitOf(u, i) <=> i # 6
  <2>0. CASE i = 0
    BY <1>5, <2>0 DEF BitOf
  <2>1. CASE i = 1
    BY <1>5, <2>1 DEF BitOf
  <2>2. CASE i = 2
    BY <1>5, <2>2 DEF BitOf
  <2>3. CASE i = 3
    BY <1>5, <2>3 DEF BitOf
  <2>4. CASE i = 4
    BY <1>5, <2>4 DEF BitOf
  <2>5. CASE i = 5
    BY <1>5, <2>5 DEF BitOf
  <2>6. CASE i = 6
    <3>1. 2 ^ (7 - i) = 2
      BY <2>6
    <3>2. BitOf(u, i) = b /\ BitOf(v, i) = 1 - b
      BY <1>5, <1>6, <3>1 DEF BitOf
    <3> QED BY <2>6, <3>2
  <2>7. CASE i = 7
    <3>1. 2 ^ (7 - i) = 1
      BY <2>7
    <3>2. BitOf(u, i) = c /\ BitOf(v, i) = c
      BY <1>5, <1>6, <3>1 DEF BitOf
    <3> QED BY <2>7, <3>2
  <2> QED BY <2>0, <2>1, <2>2, <2>3, <2>4, <2>5, <2>6, <2>7
<1> QED BY <1>4, <1>7 DEF Byte

(* The address keeps its first half; its second is the EUI-64 of the MAC   *)
(* with one bit inverted, if the MAC lies apart of it.                     *)
Identified(r, ip, at, n) ==
  /\ r \in [1 .. 16 -> Byte]
  /\ \A i \in 1 .. 8 : r[i] = ip[i]
  /\ n = 6 => r[12] = 255 /\ r[13] = 254
  /\ at >= 16 \/ at + n <= 0 =>
       /\ r[9] = FlipLocal(EUIByte(Memory, at, n, 0))
       /\ \A i \in 1 .. 7 : r[9 + i] = EUIByte(Memory, at, n, i)

LEMMA WithEUI64Is ==
  ASSUME NEW ip, ip \in [1 .. 16 -> Byte], NEW mac \in MACs, mac.len \in {6, 8},
         NEW at, at = mac.at, NEW n, n = mac.len, NEW r, r = WithEUI64(ip, mac)
  PROVE  Identified(r, ip, at, n)
<1>1. /\ DOMAIN Memory \subseteq Int /\ Memory \in [DOMAIN Memory -> Byte]
      /\ 0 .. 15 \subseteq DOMAIN Memory
      /\ at .. at + n - 1 \subseteq DOMAIN Memory /\ at \in Int /\ n \in {6, 8}
  BY NetworkAssumption
<1>2. PICK z : z = 0
  OBVIOUS
<1>3. PICK l : l = 16
  OBVIOUS
<1>4. PICK m : m = Write(Memory, z, ip)
  OBVIOUS
<1>5. Puts(m, Memory, z, ip, l)
  <2>1. l \in Nat /\ z \in Int /\ z .. z + l - 1 = 0 .. 15 /\ ip \in [1 .. l -> Byte]
    BY <1>2, <1>3
  <2>2. z .. z + l - 1 \subseteq DOMAIN Memory
    BY <1>1, <2>1
  <2> QED BY ONLY <1>1, <1>4, <2>1, <2>2, PutsIs
<1>6. DOMAIN m = DOMAIN Memory
  BY <1>5 DEF Puts
<1>7. /\ m \in [DOMAIN m -> Byte] /\ DOMAIN m \subseteq Int /\ 0 .. 15 \subseteq DOMAIN m
      /\ at .. at + n - 1 \subseteq DOMAIN m /\ at \in Int
  BY <1>1, <1>5, <1>6 DEF Puts
<1>8. PICK e : e = Encapsulate(m, 8, at, n)
  OBVIOUS
<1>9. Holds8(e, m, at, n)
  <2>1. CASE n = 8
    BY ONLY <1>7, <1>8, <2>1, Copied
  <2>2. CASE n = 6
    BY ONLY <1>7, <1>8, <2>2, Filled
  <2> QED BY <1>1, <2>1, <2>2
<1>10. PICK w : w = [e EXCEPT ![8] = FlipLocal(@)]
  OBVIOUS
<1>11. DOMAIN e = DOMAIN Memory /\ e \in [DOMAIN e -> Byte] /\ \A a \in 0 .. 15 : a \in DOMAIN e
  BY <1>1, <1>6, <1>9 DEF Holds8
<1>12. e[8] \in Byte /\ FlipLocal(e[8]) \in Byte
  <2>1. 8 \in 0 .. 15
    OBVIOUS
  <2>2. e[8] \in Byte
    BY ONLY <1>11, <2>1
  <2> QED BY <2>2, FlipIs
<1>13. /\ w[8] = FlipLocal(e[8])
       /\ \A a \in 0 .. 15 : a # 8 => w[a] = e[a]
       /\ \A a \in 0 .. 15 : w[a] \in Byte
  <2>1. /\ w[8] = FlipLocal(e[8])
        /\ \A a \in 0 .. 15 : a # 8 => w[a] = e[a]
    BY <1>10, <1>11
  <2> QED BY ONLY <1>11, <1>12, <2>1
<1>14. r = Slice(w, z, l)
  BY <1>2, <1>3, <1>4, <1>8, <1>10 DEF WithEUI64, PutModifiedEUI64
<1>15. Takes(r, w, z, l)
  <2>1. l \in Nat /\ z \in Int /\ \A i \in 0 .. l - 1 : z + i \in 0 .. 15
    BY <1>2, <1>3
  <2>2. \A i \in 0 .. l - 1 : w[z + i] \in Byte
    BY ONLY <1>13, <2>1
  <2> QED BY ONLY <1>14, <2>1, <2>2, TakesIs
<1>16. r \in [1 .. 16 -> Byte] /\ \A a \in 0 .. 15 : r[a + 1] = w[a]
  <2>1. l - 1 = 15 /\ \A a \in 0 .. 15 : z + a = a
    BY <1>2, <1>3
  <2> QED BY ONLY <1>3, <1>15, <2>1 DEF Takes
<1>17. \A a \in 0 .. 15 : m[a] = ip[a + 1]
  <2>1. l - 1 = 15 /\ \A a \in 0 .. 15 : z + a = a
    BY <1>2, <1>3
  <2> QED BY ONLY <1>5, <2>1 DEF Puts
<1>18. ASSUME NEW i \in 1 .. 8 PROVE r[i] = ip[i]
  <2>1. PICK a : a = i - 1
    OBVIOUS
  <2>2. a \in 0 .. 15 /\ a \in 0 .. 7 /\ a # 8 /\ a + 1 = i
    BY <2>1
  <2>3. e[a] = m[a]
    BY ONLY <1>9, <2>2 DEF Holds8
  <2>4. r[a + 1] = w[a] /\ w[a] = e[a] /\ m[a] = ip[a + 1]
    BY ONLY <1>13, <1>16, <1>17, <2>2
  <2> QED BY ONLY <2>2, <2>3, <2>4
<1>19. ASSUME NEW i \in 1 .. 7 PROVE r[9 + i] = e[8 + i]
  <2>1. 8 + i \in 0 .. 15 /\ 8 + i # 8 /\ (8 + i) + 1 = 9 + i
    OBVIOUS
  <2> QED BY ONLY <1>13, <1>16, <2>1
<1>20. r[9] = FlipLocal(e[8])
  <2>1. 8 \in 0 .. 15 /\ 8 + 1 = 9
    OBVIOUS
  <2> QED BY ONLY <1>13, <1>16, <2>1
<1>21. n = 6 => r[12] = 255 /\ r[13] = 254
  <2>1. 3 \in 1 .. 7 /\ 4 \in 1 .. 7 /\ 9 + 3 = 12 /\ 9 + 4 = 13 /\ 8 + 3 = 11 /\ 8 + 4 = 12
    OBVIOUS
  <2>2. r[12] = e[11] /\ r[13] = e[12]
    <3>1. r[9 + 3] = e[8 + 3] /\ r[9 + 4] = e[8 + 4]
      BY <1>19, <2>1
    <3> QED BY ONLY <2>1, <3>1
  <2> QED BY <1>9, <2>2 DEF Holds8
<1>22. ASSUME at >= 16 \/ at + n <= 0
       PROVE  /\ r[9] = FlipLocal(EUIByte(Memory, at, n, 0))
              /\ \A i \in 1 .. 7 : r[9 + i] = EUIByte(Memory, at, n, i)
  <2>1. \A j \in 0 .. n - 1 : m[at + j] = Memory[at + j]
    <3>1. SUFFICES ASSUME NEW j \in 0 .. n - 1 PROVE m[at + j] = Memory[at + j]
      OBVIOUS
    <3>2. at + j \in at .. at + n - 1
      BY <1>1
    <3>3. at + j \in DOMAIN Memory
      BY <1>1, <3>2
    <3>4. at + j \notin z .. z + l - 1
      BY <1>1, <1>2, <1>3, <1>22
    <3> QED BY ONLY <1>5, <3>3, <3>4 DEF Puts
  <2>2. \A i \in 0 .. 7 : EUIByte(m, at, n, i) = EUIByte(Memory, at, n, i)
    <3>1. SUFFICES ASSUME NEW i \in 0 .. 7
                   PROVE  EUIByte(m, at, n, i) = EUIByte(Memory, at, n, i)
      OBVIOUS
    <3>2. CASE n = 8 \/ i < 3
      <4>1. i \in 0 .. n - 1
        BY <1>1, <3>2
      <4> QED BY <2>1, <3>2, <4>1 DEF EUIByte
    <3>3. CASE ~(n = 8 \/ i < 3) /\ i \in {3, 4}
      BY <1>1, <3>3 DEF EUIByte
    <3>4. CASE ~(n = 8 \/ i < 3) /\ i \notin {3, 4}
      <4>1. PICK j : j = i - 2
        OBVIOUS
      <4>2. j \in 0 .. n - 1 /\ at + i - 2 = at + j
        BY <1>1, <3>4, <4>1
      <4>3. m[at + j] = Memory[at + j]
        BY ONLY <2>1, <4>2
      <4>4. EUIByte(m, at, n, i) = m[at + i - 2] /\ EUIByte(Memory, at, n, i) = Memory[at + i - 2]
        BY <3>4 DEF EUIByte
      <4> QED BY ONLY <4>2, <4>3, <4>4
    <3> QED BY <3>2, <3>3, <3>4
  <2>3. \A i \in 0 .. 7 : e[8 + i] = EUIByte(m, at, n, i)
    BY ONLY <1>9, <1>22 DEF Holds8
  <2>4. e[8] = EUIByte(Memory, at, n, 0)
    <3>1. 0 \in 0 .. 7 /\ 8 + 0 = 8
      OBVIOUS
    <3> QED BY ONLY <2>2, <2>3, <3>1
  <2>5. \A i \in 1 .. 7 : i \in 0 .. 7
    OBVIOUS
  <2>6. \A i \in 1 .. 7 : r[9 + i] = EUIByte(Memory, at, n, i)
    BY ONLY <1>19, <2>2, <2>3, <2>5
  <2> QED BY <1>20, <2>4, <2>6
<1> QED BY ONLY <1>16, <1>18, <1>21, <1>22 DEF Identified

(* What begins like an address of a kind, in its first half.               *)
LEMMA LeadsAlike ==
  ASSUME NEW kind, NEW s, NEW r, Leads(kind, s), \A i \in 1 .. 8 : r[i] = s[i]
  PROVE  Leads(kind, r)
<1>1. /\ r[1] = s[1] /\ r[2] = s[2] /\ r[3] = s[3] /\ r[4] = s[4]
      /\ r[5] = s[5] /\ r[6] = s[6]
  OBVIOUS
<1>2. \A i \in 3 .. 8 : i \in 1 .. 8
  OBVIOUS
<1>3. Special6(r) <=> Special6(s)
  BY ONLY <1>1 DEF Special6
<1> QED BY <1>1, <1>2, <1>3 DEF Leads

(* With the filler in it an identifier is not an anycast one.              *)
LEMMA FillerIsNoAnycast ==
  ASSUME NEW r, r \in [1 .. 16 -> Byte], r[12] = 255, r[13] = 254
  PROVE  ~IsAnycastIID(SubSeq(r, 9, 16))
<1>1. PICK e : e = 8
  OBVIOUS
<1>2. PICK n : n = 16
  OBVIOUS
<1>3. PICK u : u = SubSeq(r, e + 1, n)
  OBVIOUS
<1>4. n \in Nat /\ e \in 0 .. n /\ r \in [1 .. n -> Byte]
  BY <1>1, <1>2
<1>5. Rest(u, r, e, n)
  BY ONLY <1>3, <1>4, RestIs
<1>6. \A i \in 1 .. n - e : u[i] = r[e + i]
  BY ONLY <1>5 DEF Rest
<1>7. 4 \in 1 .. n - e /\ 5 \in 1 .. n - e /\ e + 4 = 12 /\ e + 5 = 13 /\ e + 1 = 9
  BY ONLY <1>1, <1>2
<1>8. u[4] = 255 /\ u[5] = 254
  BY ONLY <1>6, <1>7, r[12] = 255, r[13] = 254
<1>9. 4 \in 1 .. 8 /\ 5 \in 2 .. 7
  OBVIOUS
<1>10. ~IsAnycastIID(u)
  BY ONLY <1>8, <1>9 DEF IsAnycastIID
<1> QED BY <1>2, <1>3, <1>7, <1>10

(* The parts of a finished call, and what became of them.                  *)
LEMMA DoneFacts ==
  ASSUME NetInv, pc = "done"
  PROVE  PartsOK(call.kind, parts) /\ result = Outcome(parts)
BY DEF NetInv, PartsOK

(* An address lies in a documented block of its kind (ip.go:11-67) and in  *)
(* no block excluded from it - for IPv4Public those of RFC 6890 and        *)
(* multicast, for IPv6Public those ip.go lists -, and the identifier of an *)
(* IPv6Public address is no anycast one: whatever the provider yields and  *)
(* wherever the MAC lies.                                                  *)
THEOREM InDocumentedBlocksHolds == Spec => []InDocumentedBlocks
<1>1. NetInv => InDocumentedBlocks
  <2> SUFFICES ASSUME NetInv, pc = "done", call.api # "Value"
               PROVE  /\ Documented(call.kind, result)
                      /\ call.kind = "IPv6Public" /\ call.mac.len # 8 =>
                           ~IsAnycastIID(SubSeq(result, 9, 16))
    BY DEF InDocumentedBlocks, Documented
  <2>0. call \in CallSet
    BY DEF NetInv
  <2>1. /\ call.api \in {"IP", "IPv6EUI64"}
        /\ call.kind \in IPv4Kinds \union IPv6Kinds
        /\ call.api = "IPv6EUI64" =>
             call.mac \in MACs /\ call.kind \in EUI64Kinds /\ call.mac.len \in {6, 8}
    BY <2>0, CallFacts DEF NetInv
  <2>2. PartsOK(call.kind, parts) /\ result = Outcome(parts)
    BY DoneFacts
  <2>3. CASE call.kind \in IPv4Kinds
    <3>1. call.kind \notin IPv6Kinds /\ call.kind # "IPv6Public" /\ call.api = "IP"
      BY <2>1, <2>3 DEF IPv4Kinds, IPv6Kinds, EUI64Kinds
    <3>2. result = IPv4(call.kind, parts[1])
      BY <2>2, <3>1 DEF Outcome
    <3>3. Accepted(call.kind, 1, parts[1])
      <4>1. 1 \in 1 .. PartsOf(call.kind)
        BY PartsOfIs
      <4> QED BY <2>2, <4>1 DEF PartsOK
    <3>4. Documented(call.kind, result)
      BY ONLY <2>3, <3>2, <3>3, IPv4Documented
    <3> QED BY <3>1, <3>4
  <2>4. CASE call.kind \in IPv6Kinds
    <3>1. PICK kind : kind = call.kind
      OBVIOUS
    <3>2. PICK p : p = parts
      OBVIOUS
    <3>3. PICK ip : ip = IPv6(kind, p)
      OBVIOUS
    <3>4. kind \in IPv6Kinds /\ PartsOK(kind, p)
      BY <2>2, <2>4, <3>1, <3>2
    <3>5. /\ ip \in [1 .. 16 -> Byte] /\ Leads(kind, ip)
          /\ kind = "IPv6Public" => ~IsAnycastIID(SubSeq(ip, 9, 16))
      BY ONLY <3>3, <3>4, IPv6Leads
    <3>6. CASE call.api = "IP"
      <4>1. result = ip
        BY <2>2, <2>4, <3>1, <3>2, <3>3, <3>6 DEF Outcome
      <4>2. Documented(kind, ip)
        BY ONLY <3>4, <3>5, IPv6Documented
      <4> QED BY <3>1, <3>5, <4>1, <4>2
    <3>7. CASE call.api = "IPv6EUI64"
      <4>1. PICK mac : mac = call.mac
        OBVIOUS
      <4>2. PICK at : at = mac.at
        OBVIOUS
      <4>3. PICK n : n = mac.len
        OBVIOUS
      <4>4. PICK r : r = WithEUI64(ip, mac)
        OBVIOUS
      <4>5. result = r
        BY <2>2, <3>1, <3>2, <3>3, <3>7, <4>1, <4>4 DEF Outcome
      <4>6. mac \in MACs /\ mac.len \in {6, 8}
        BY <2>1, <3>7, <4>1
      <4>7. Identified(r, ip, at, n)
        <5>1. ip \in [1 .. 16 -> Byte]
          BY <3>5
        <5> QED BY ONLY <4>2, <4>3, <4>4, <4>6, <5>1, WithEUI64Is
      <4>8. Leads(kind, r)
        <5>1. \A i \in 1 .. 8 : r[i] = ip[i]
          BY ONLY <4>7 DEF Identified
        <5>2. Leads(kind, ip)
          BY <3>5
        <5> QED BY ONLY <5>1, <5>2, LeadsAlike
      <4>9. Documented(kind, r)
        BY ONLY <3>4, <4>8, IPv6Documented
      <4>10. n # 8 => ~IsAnycastIID(SubSeq(r, 9, 16))
        <5>1. SUFFICES ASSUME n # 8 PROVE ~IsAnycastIID(SubSeq(r, 9, 16))
          OBVIOUS
        <5>2. n = 6
          BY <4>3, <4>6, <5>1
        <5>3. r \in [1 .. 16 -> Byte] /\ r[12] = 255 /\ r[13] = 254
          BY ONLY <4>7, <5>2 DEF Identified
        <5> QED BY ONLY <5>3, FillerIsNoAnycast
      <4> QED BY <3>1, <4>1, <4>3, <4>5, <4>9, <4>10
    <3> QED BY <2>1, <3>6, <3>7
  <2> QED BY <2>1, <2>3, <2>4
<1> QED BY <1>1, NetInvInductive, PTL

(* The bytes of the EUI-64 as the property puts it together.               *)
LEMMA EUIIs ==
  ASSUME NEW mac \in MACs, mac.len \in {6, 8},
         NEW at, at = mac.at, NEW n, n = mac.len,
         NEW s, s = Slice(Memory, at, n),
         NEW t, t = IF n = 8 THEN s
                    ELSE SubSeq(s, 1, 3) \o <<255, 254>> \o SubSeq(s, 4, 6)
  PROVE  \A i \in 0 .. 7 : t[i + 1] = EUIByte(Memory, at, n, i) /\ t[i + 1] \in Byte
<1>1. /\ DOMAIN Memory \subseteq Int /\ Memory \in [DOMAIN Memory -> Byte]
      /\ at .. at + n - 1 \subseteq DOMAIN Memory /\ at \in Int /\ n \in {6, 8}
  BY NetworkAssumption
<1>2. Takes(s, Memory, at, n)
  <2>1. n \in Nat /\ at \in Int
    BY <1>1
  <2>2. \A i \in 0 .. n - 1 : Memory[at + i] \in Byte
    <3>1. \A i \in 0 .. n - 1 : at + i \in at .. at + n - 1
      BY <1>1
    <3> QED BY <1>1, <3>1
  <2>3. s = Slice(Memory, at, n)
    OBVIOUS
  <2> QED BY ONLY <2>1, <2>2, <2>3, TakesIs
<1>3. s \in [1 .. n -> Byte] /\ \A i \in 0 .. n - 1 : s[i + 1] = Memory[at + i]
  BY ONLY <1>2 DEF Takes
<1>4. CASE n = 8
  <2>1. SUFFICES ASSUME NEW i \in 0 .. 7
                 PROVE  t[i + 1] = EUIByte(Memory, at, n, i) /\ t[i + 1] \in Byte
    OBVIOUS
  <2>2. i \in 0 .. n - 1 /\ i + 1 \in 1 .. n
    BY <1>4
  <2>3. t = s
    BY <1>4
  <2>4. t[i + 1] = Memory[at + i] /\ t[i + 1] \in Byte
    BY ONLY <1>3, <2>2, <2>3
  <2> QED BY <1>4, <2>4 DEF EUIByte
<1>5. CASE n = 6
  <2>1. PICK h : h = 3
    OBVIOUS
  <2>2. PICK a : a = SubSeq(s, 1, h)
    OBVIOUS
  <2>3. Start(a, s, h)
    <3>1. n \in Nat /\ h \in 0 .. n /\ s \in [1 .. n -> Byte]
      BY <1>3, <1>5, <2>1
    <3> QED BY ONLY <2>2, <3>1, StartIs
  <2>4. PICK c : c = SubSeq(s, h + 1, n)
    OBVIOUS
  <2>5. Rest(c, s, h, n)
    <3>1. n \in Nat /\ h \in 0 .. n /\ s \in [1 .. n -> Byte]
      BY <1>3, <1>5, <2>1
    <3> QED BY ONLY <2>4, <3>1, RestIs
  <2>6. PICK k : k = 2
    OBVIOUS
  <2>7. PICK f : f = <<255, 254>>
    OBVIOUS
  <2>8. f \in [1 .. k -> Byte] /\ f[1] = 255 /\ f[2] = 254
    BY <2>6, <2>7 DEF Byte
  <2>9. PICK b : b = a \o f
    OBVIOUS
  <2>10. a \in [1 .. h -> Byte] /\ \A i \in 1 .. h : a[i] = s[i]
    BY ONLY <2>3 DEF Start
  <2>11. Joined(b, a, f, h, k)
    <3>1. h \in Nat /\ k \in Nat /\ a \in [1 .. h -> Byte] /\ f \in [1 .. k -> Byte]
      BY <2>1, <2>6, <2>8, <2>10
    <3> QED BY ONLY <2>9, <3>1, JoinedIs
  <2>12. n - h = h /\ h + k \in Nat /\ h \in Nat
    BY <1>5, <2>1, <2>6
  <2>13. c \in [1 .. h -> Byte] /\ \A i \in 1 .. h : c[i] = s[h + i]
    BY ONLY <2>5, <2>12 DEF Rest
  <2>14. PICK g : g = h + k
    OBVIOUS
  <2>15. b \in [1 .. g -> Byte]
    BY ONLY <2>11, <2>14 DEF Joined
  <2>16. t = b \o c
    <3>1. t = SubSeq(s, 1, 3) \o <<255, 254>> \o SubSeq(s, 4, 6)
      BY <1>5
    <3>2. h + 1 = 4
      BY <2>1
    <3> QED BY ONLY <1>5, <2>1, <2>2, <2>4, <2>7, <2>9, <3>1, <3>2
  <2>17. Joined(t, b, c, g, h)
    <3>1. g \in Nat /\ h \in Nat /\ b \in [1 .. g -> Byte] /\ c \in [1 .. h -> Byte]
      BY ONLY <2>12, <2>13, <2>14, <2>15
    <3> QED BY ONLY <2>16, <3>1, JoinedIs
  <2>18. /\ \A i \in 1 .. h : b[i] = a[i]
         /\ \A i \in 1 .. k : b[h + i] = f[i]
         /\ \A i \in 1 .. g : t[i] = b[i]
         /\ \A i \in 1 .. h : t[g + i] = c[i]
         /\ t \in [1 .. g + h -> Byte]
    BY ONLY <2>11, <2>17 DEF Joined
  <2>19. ASSUME NEW i \in 0 .. 7 PROVE t[i + 1] = EUIByte(Memory, at, n, i)
    <3>1. CASE i < 3
      <4>1. i + 1 \in 1 .. h /\ i + 1 \in 1 .. g /\ i \in 0 .. n - 1
        BY <1>5, <2>1, <2>6, <2>14, <3>1
      <4>2. t[i + 1] = Memory[at + i]
        BY ONLY <1>3, <2>10, <2>18, <4>1
      <4> QED BY <3>1, <4>2 DEF EUIByte
    <3>2. CASE i = 3
      <4>1. 1 \in 1 .. k /\ h + 1 = i + 1 /\ i + 1 \in 1 .. g
        BY <2>1, <2>6, <2>14, <3>2
      <4>2. t[i + 1] = f[1]
        BY ONLY <2>18, <4>1
      <4>3. EUIByte(Memory, at, n, i) = 255
        BY <1>5, <3>2 DEF EUIByte
      <4> QED BY <2>8, <4>2, <4>3
    <3>3. CASE i = 4
      <4>1. 2 \in 1 .. k /\ h + 2 = i + 1 /\ i + 1 \in 1 .. g
        BY <2>1, <2>6, <2>14, <3>3
      <4>2. t[i + 1] = f[2]
        BY ONLY <2>18, <4>1
      <4>3. EUIByte(Memory, at, n, i) = 254
        BY <1>5, <3>3 DEF EUIByte
      <4> QED BY <2>8, <4>2, <4>3
    <3>4. CASE i \in 5 .. 7
      <4>1. PICK j : j = i - 4
        OBVIOUS
      <4>2. j \in 1 .. h /\ g + j = i + 1
        BY <2>1, <2>6, <2>14, <3>4, <4>1
      <4>3. t[i + 1] = s[h + j]
        BY ONLY <2>13, <2>18, <4>2
      <4>4. PICK l : l = i - 2
        OBVIOUS
      <4>5. l \in 0 .. n - 1 /\ h + j = l + 1 /\ at + i - 2 = at + l
        BY <1>1, <1>5, <2>1, <3>4, <4>1, <4>4
      <4>6. s[h + j] = Memory[at + i - 2]
        BY ONLY <1>3, <4>5
      <4>7. EUIByte(Memory, at, n, i) = Memory[at + i - 2]
        BY <1>5, <3>4 DEF EUIByte
      <4> QED BY ONLY <4>3, <4>6, <4>7
    <3> QED BY <3>1, <3>2, <3>3, <3>4
  <2>20. \A i \in 0 .. 7 : i + 1 \in 1 .. g + h
    BY <2>1, <2>6, <2>14
  <2>21. \A i \in 0 .. 7 : t[i + 1] \in Byte
    BY ONLY <2>18, <2>20
  <2> QED BY <2>19, <2>21
<1> QED BY <1>1, <1>4, <1>5

(* The identifier IPv6EUI64 puts in an address is "the RFC 4291 modified   *)
(* EUI-64 of mac" (netaddr.go), of the MAC as it was before the call,      *)
(* whenever it does not lie in dst.                                        *)
THEOREM InterfaceIDOfMACHolds == Spec => []InterfaceIDOfMAC
<1>1. NetInv => InterfaceIDOfMAC
  <2> SUFFICES ASSUME NetInv, pc = "done", call.api = "IPv6EUI64", Apart(call.mac)
               PROVE  InterfaceIDOfMAC
    BY DEF InterfaceIDOfMAC
  <2>0. call \in CallSet
    BY DEF NetInv
  <2>1. call.mac \in MACs /\ call.kind \in IPv6Kinds /\ call.mac.len \in {6, 8}
    <3>1. call.kind \in EUI64Kinds
      BY DEF NetInv
    <3> QED BY <2>0, <3>1, CallFacts DEF NetInv, IPv6Kinds
  <2>2. PartsOK(call.kind, parts) /\ result = Outcome(parts)
    BY DoneFacts
  <2>3. PICK kind : kind = call.kind
    OBVIOUS
  <2>4. PICK p : p = parts
    OBVIOUS
  <2>5. PICK ip : ip = IPv6(kind, p)
    OBVIOUS
  <2>6. ip \in [1 .. 16 -> Byte]
    <3>1. kind \in IPv6Kinds /\ PartsOK(kind, p)
      BY <2>1, <2>2, <2>3, <2>4
    <3>2. /\ ip \in [1 .. 16 -> Byte] /\ Leads(kind, ip)
          /\ kind = "IPv6Public" => ~IsAnycastIID(SubSeq(ip, 9, 16))
      BY ONLY <2>5, <3>1, IPv6Leads
    <3> QED BY <3>2
  <2>7. PICK mac : mac = call.mac
    OBVIOUS
  <2>8. PICK at : at = mac.at
    OBVIOUS
  <2>9. PICK n : n = mac.len
    OBVIOUS
  <2>10. PICK r : r = WithEUI64(ip, mac)
    OBVIOUS
  <2>11. result = r
    BY <2>2, <2>3, <2>4, <2>5, <2>7, <2>10 DEF Outcome
  <2>12. mac \in MACs /\ mac.len \in {6, 8}
    BY <2>1, <2>7
  <2>13. Identified(r, ip, at, n)
    BY ONLY <2>6, <2>8, <2>9, <2>10, <2>12, WithEUI64Is
  <2>14. at >= 16 \/ at + n <= 0
    BY <2>7, <2>8, <2>9 DEF Apart
  <2>15. /\ r[9] = FlipLocal(EUIByte(Memory, at, n, 0))
         /\ \A i \in 1 .. 7 : r[9 + i] = EUIByte(Memory, at, n, i)
    BY ONLY <2>13, <2>14 DEF Identified
  <2>16. PICK s : s = Slice(Memory, at, n)
    OBVIOUS
  <2>17. PICK t : t = IF n = 8 THEN s
                      ELSE SubSeq(s, 1, 3) \o <<255, 254>> \o SubSeq(s, 4, 6)
    OBVIOUS
  <2>18. \A i \in 0 .. 7 : t[i + 1] = EUIByte(Memory, at, n, i) /\ t[i + 1] \in Byte
    BY ONLY <2>8, <2>9, <2>12, <2>16, <2>17, EUIIs
  <2>19. ASSUME NEW i \in 2 .. 8 PROVE result[8 + i] = t[i]
    <3>1. PICK j : j = i - 1
      OBVIOUS
    <3>2. j \in 1 .. 7 /\ j \in 0 .. 7 /\ 9 + j = 8 + i /\ j + 1 = i
      BY <3>1
    <3>3. r[9 + j] = EUIByte(Memory, at, n, j) /\ t[j + 1] = EUIByte(Memory, at, n, j)
      BY ONLY <2>15, <2>18, <3>2
    <3> QED BY ONLY <2>11, <3>2, <3>3
  <2>20. r[9] = FlipLocal(t[1]) /\ t[1] \in Byte
    <3>1. 0 \in 0 .. 7 /\ 0 + 1 = 1
      OBVIOUS
    <3> QED BY ONLY <2>15, <2>18, <3>1
  <2>21. ASSUME NEW i \in 0 .. 7 PROVE (Bit(<<result[9]>>, i) = Bit(<<t[1]>>, i)) <=> i # 6
    <3>1. PICK u : u = t[1]
      OBVIOUS
    <3>2. PICK v : v = r[9]
      OBVIOUS
    <3>3. BitOf(v, i) = BitOf(u, i) <=> i # 6
      BY <2>20, <3>1, <3>2, FlipIs
    <3>4. \A y : Bit(<<y>>, i) = BitOf(y, i)
      <4>1. SUFFICES ASSUME NEW y PROVE Bit(<<y>>, i) = BitOf(y, i)
        OBVIOUS
      <4>2. PICK z : z = <<y>>
        OBVIOUS
      <4>3. 8 * 0 + i = i /\ 0 + 1 = 1 /\ 0 \in Nat
        OBVIOUS
      <4>4. Bit(z, 8 * 0 + i) = BitOf(z[0 + 1], i)
        BY <4>3, BitIs
      <4>5. z[1] = y
        BY ONLY <4>2
      <4> QED BY ONLY <4>2, <4>3, <4>4, <4>5
    <3> QED BY ONLY <2>11, <3>1, <3>2, <3>3, <3>4
  <2>22. t = LET m == Slice(Memory, call.mac.at, call.mac.len)
             IN  IF call.mac.len = 8 THEN m
                 ELSE SubSeq(m, 1, 3) \o <<255, 254>> \o SubSeq(m, 4, 6)
    BY ONLY <2>7, <2>8, <2>9, <2>16, <2>17
  <2> HIDE <2>17
  <2> QED BY <2>19, <2>21, <2>22, ZenonT(200) DEF InterfaceIDOfMAC
<1> QED BY <1>1, NetInvInductive, PTL

-------------------------------------------------------------------------------
(* The ranges of the bounded kinds.                                        *)

(* The low half of a number that has no other.                             *)
LEMMA LowHalf == ASSUME NEW w \in Nat, w < 65536 PROVE Pair(w)[2] = w
<1>1. w % 65536 = w
  OBVIOUS
<1>2. PICK a : a = w \div 65536
  OBVIOUS
<1>3. PICK b : b = w % 65536
  OBVIOUS
<1>4. Pair(w) = <<a, b>>
  BY <1>2, <1>3 DEF Pair
<1>5. Pair(w)[2] = b
  BY ONLY <1>4
<1> QED BY ONLY <1>1, <1>3, <1>5

(* The n numbers from c on have no high half.                              *)
Small(n, c) == n + c <= 65536

(* The n numbers from c on.                                                *)
Counted(values, c, n) == values = c .. c + n - 1 /\ Cardinality(values) = n

LEMMA ShiftedIs ==
  ASSUME NEW kind, NEW n \in Nat \ {0}, NEW c \in Nat, Small(n, c),
         \A v \in 0 .. n - 1 : FromBounded(kind, v) = Pair(v + c)
  PROVE  Counted({FromBounded(kind, v)[2] : v \in 0 .. n - 1}, c, n)
<1>1. \A v \in 0 .. n - 1 : FromBounded(kind, v)[2] = v + c
  <2>1. \A v \in 0 .. n - 1 : v + c \in Nat /\ v + c < 65536
    BY SMT DEF Small
  <2> QED BY <2>1, LowHalf
<1>2. PICK values : values = {FromBounded(kind, v)[2] : v \in 0 .. n - 1}
  BY ONLY TRUE
<1>3. \A y : y \in values <=> \E v \in 0 .. n - 1 : y = v + c
  BY <1>1, <1>2
<1>4. ASSUME NEW y PROVE y \in values <=> y \in c .. c + n - 1
  <2>1. y \in values => y \in c .. c + n - 1
    BY <1>3
  <2>2. ASSUME y \in c .. c + n - 1 PROVE y \in values
    <3>1. y - c \in 0 .. n - 1 /\ y = (y - c) + c
      BY <2>2
    <3> QED BY ONLY <1>3, <3>1
  <2> QED BY <2>1, <2>2
<1>5. values = c .. c + n - 1
  BY ONLY <1>4
<1>6. PICK d : d = c + n - 1
  OBVIOUS
<1>7. Cardinality(c .. d) = IF c > d THEN 0 ELSE d - c + 1
  <2>1. c \in Int /\ d \in Int
    BY <1>6
  <2> QED BY ONLY <2>1, FS_Interval
<1>8. Cardinality(values) = n
  BY <1>5, <1>6, <1>7
<1> QED BY ONLY <1>2, <1>5, <1>8 DEF Counted

(* The n numbers that follow 0, gap left out.                              *)
Skips(kind, n, gap) ==
  \A v \in 0 .. n - 1 :
    /\ v + 1 >= gap => FromBounded(kind, v)[2] = v + 2
    /\ v + 1 < gap => FromBounded(kind, v)[2] = v + 1

LEMMA SkippedIs ==
  ASSUME NEW kind, NEW n \in Nat, NEW gap \in 1 .. n + 1, Skips(kind, n, gap)
  PROVE  Cardinality((1 .. n + 1) \ {gap}) = n
         /\ {FromBounded(kind, v)[2] : v \in 0 .. n - 1} = (1 .. n + 1) \ {gap}
<1>1. ASSUME NEW v \in 0 .. n - 1 PROVE FromBounded(kind, v)[2] \in (1 .. n + 1) \ {gap}
  <2>1. PICK y : y = FromBounded(kind, v)[2]
    OBVIOUS
  <2>2. (v + 1 >= gap /\ y = v + 2) \/ (v + 1 < gap /\ y = v + 1)
    BY <2>1 DEF Skips
  <2>3. y \in (1 .. n + 1) \ {gap}
    BY ONLY <2>2, n \in Nat, gap \in 1 .. n + 1, v \in 0 .. n - 1
  <2> QED BY ONLY <2>1, <2>3
<1>2. ASSUME NEW y \in (1 .. n + 1) \ {gap} PROVE \E v \in 0 .. n - 1 : y = FromBounded(kind, v)[2]
  <2>1. CASE y > gap
    <3>1. y - 2 \in 0 .. n - 1 /\ (y - 2) + 1 >= gap /\ (y - 2) + 2 = y
      BY <2>1
    <3>2. FromBounded(kind, y - 2)[2] = (y - 2) + 2
      BY <3>1 DEF Skips
    <3> QED BY <3>1, <3>2
  <2>2. CASE ~(y > gap)
    <3>1. y - 1 \in 0 .. n - 1 /\ (y - 1) + 1 < gap /\ (y - 1) + 1 = y
      BY <2>2
    <3>2. FromBounded(kind, y - 1)[2] = (y - 1) + 1
      BY <3>1 DEF Skips
    <3> QED BY <3>1, <3>2
  <2> QED BY <2>1, <2>2
<1>3. {FromBounded(kind, v)[2] : v \in 0 .. n - 1} = (1 .. n + 1) \ {gap}
  BY ONLY <1>1, <1>2
<1>4. PICK last : last = n + 1
  OBVIOUS
<1>5. 1 \in Int /\ last \in Int /\ gap \in 1 .. last /\ ~(1 > last) /\ last - 1 + 1 = n + 1
  BY <1>4
<1>6. IsFiniteSet(1 .. last) /\ Cardinality(1 .. last) = n + 1
  BY ONLY <1>5, FS_Interval
<1>7. Cardinality((1 .. last) \ {gap}) = Cardinality(1 .. last) - 1
  BY ONLY <1>5, <1>6, FS_RemoveElement
<1>8. (n + 1) - 1 = n
  OBVIOUS
<1>9. Cardinality((1 .. n + 1) \ {gap}) = n
  BY ONLY <1>4, <1>6, <1>7, <1>8
<1> QED BY ONLY <1>3, <1>9

Bounded16 == {"PrivilegedPort", "RegisteredPort", "VLANIDUnreserved", "ASNPublic16",
              "ASNPrivate16"}

(* What is to be shown of these.                                           *)
LEMMA RangeOf ==
  ASSUME call.kind \in Bounded16, NEW n, n = Bound(call.kind),
         {FromBounded(call.kind, v)[2] : v \in 0 .. n - 1} = Range16(call.kind),
         Cardinality(Range16(call.kind)) = n
  PROVE  RangeExact
<1>1. call.kind \notin {"MPLSLabelUnreserved", "ASNPrivate32"}
  BY DEF Bounded16
<1> QED BY <1>1 DEF RangeExact

(* Four of the kinds only shift the value.                                 *)
Shifts(kind, n, c) ==
  /\ Small(n, c) /\ n = Bound(kind) /\ Range16(kind) = c .. c + n - 1
  /\ \A v \in 0 .. n - 1 : FromBounded(kind, v) = Pair(v + c)

LEMMA ShiftedKinds ==
  ASSUME NEW kind \in Bounded16 \ {"ASNPublic16"}
  PROVE  \E c \in Nat, n \in Nat \ {0} : Shifts(kind, n, c)
<1>1. CASE kind = "PrivilegedPort"
  <2>1. PICK c \in Nat : c = 1
    BY SMT
  <2>2. PICK n \in Nat \ {0} : n = 1023
    BY SMT
  <2>3. n = Bound(kind) /\ Range16(kind) = c .. 1023
    BY <1>1, <2>1, <2>2, SMT DEF Bound, Range16
  <2>4. Small(n, c) /\ c + n - 1 = 1023
    BY ONLY <2>1, <2>2, SMT DEF Small
  <2>5. \A v \in 0 .. n - 1 : FromBounded(kind, v) = Pair(v + c)
    BY <1>1, <2>1, SMT DEF FromBounded
  <2>6. Range16(kind) = c .. c + n - 1
    BY ONLY <2>3, <2>4, SMT
  <2>7. n = Bound(kind) /\ Small(n, c)
    BY ONLY <2>3, <2>4, SMT
  <2>8. Shifts(kind, n, c)
    BY ONLY <2>5, <2>6, <2>7, Zenon DEF Shifts
  <2> QED BY ONLY <2>8, c \in Nat, n \in Nat \ {0}, Zenon
<1>2. CASE kind = "RegisteredPort"
  <2>1. PICK c \in Nat : c = 1024
    BY SMT
  <2>2. PICK n \in Nat \ {0} : n = 48128
    BY SMT
  <2>3. n = Bound(kind) /\ Range16(kind) = c .. 49151
    BY <1>2, <2>1, <2>2, SMT DEF Bound, Range16
  <2>4. Small(n, c) /\ c + n - 1 = 49151
    BY ONLY <2>1, <2>2, SMT DEF Small
  <2>5. \A v \in 0 .. n - 1 : FromBounded(kind, v) = Pair(v + c)
    BY <1>2, <2>1, SMT DEF FromBounded
  <2>6. Range16(kind) = c .. c + n - 1
    BY ONLY <2>3, <2>4, SMT
  <2>7. n = Bound(kind) /\ Small(n, c)
    BY ONLY <2>3, <2>4, SMT
  <2>8. Shifts(kind, n, c)
    BY ONLY <2>5, <2>6, <2>7, Zenon DEF Shifts
  <2> QED BY ONLY <2>8, c \in Nat, n \in Nat \ {0}, Zenon
<1>3. CASE kind = "VLANIDUnreserved"
  <2>1. PICK c \in Nat : c = 1
    BY SMT
  <2>2. PICK n \in Nat \ {0} : n = 4094
    BY SMT
  <2>3. n = Bound(kind) /\ Range16(kind) = c .. 4094
    BY <1>3, <2>1, <2>2, SMT DEF Bound, Range16
  <2>4. Small(n, c) /\ c + n - 1 = 4094
    BY ONLY <2>1, <2>2, SMT DEF Small
  <2>5. \A v \in 0 .. n - 1 : FromBounded(kind, v) = Pair(v + c)
    BY <1>3, <2>1, SMT DEF FromBounded
  <2>6. Range16(kind) = c .. c + n - 1
    BY ONLY <2>3, <2>4, SMT
  <2>7. n = Bound(kind) /\ Small(n, c)
    BY ONLY <2>3, <2>4, SMT
  <2>8. Shifts(kind, n, c)
    BY ONLY <2>5, <2>6, <2>7, Zenon DEF Shifts
  <2> QED BY ONLY <2>8, c \in Nat, n \in Nat \ {0}, Zenon
<1>4. CASE kind = "ASNPrivate16"
  <2>1. PICK c \in Nat : c = 64512
    BY SMT
  <2>2. PICK n \in Nat \ {0} : n = 1023
    BY SMT
  <2>3. n = Bound(kind) /\ Range16(kind) = c .. 65534
    BY <1>4, <2>1, <2>2, SMT DEF Bound, Range16
  <2>4. Small(n, c) /\ c + n - 1 = 65534
    BY ONLY <2>1, <2>2, SMT DEF Small
  <2>5. \A v \in 0 .. n - 1 : FromBounded(kind, v) = Pair(v + c)
    BY <1>4, <2>1, SMT DEF FromBounded
  <2>6. Range16(kind) = c .. c + n - 1
    BY ONLY <2>3, <2>4, SMT
  <2>7. n = Bound(kind) /\ Small(n, c)
    BY ONLY <2>3, <2>4, SMT
  <2>8. Shifts(kind, n, c)
    BY ONLY <2>5, <2>6, <2>7, Zenon DEF Shifts
  <2> QED BY ONLY <2>8, c \in Nat, n \in Nat \ {0}, Zenon
<1> QED BY <1>1, <1>2, <1>3, <1>4 DEF Bounded16

(* The fifth skips a reserved number.                                      *)
Public16 == 64494
Gap == 23456

LEMMA SkipsGap == Skips("ASNPublic16", Public16, Gap)
<1>1. SUFFICES ASSUME NEW v \in 0 .. Public16 - 1
               PROVE  /\ v + 1 >= Gap => FromBounded("ASNPublic16", v)[2] = v + 2
                      /\ v + 1 < Gap => FromBounded("ASNPublic16", v)[2] = v + 1
  BY Zenon DEF Skips
<1>2. v + 2 \in Nat /\ v + 1 \in Nat /\ v + 2 < 65536 /\ v + 1 < 65536
  <2>1. PICK n : n = Public16
    BY SMTT(30)
  <2>2. Public16 \in Nat /\ Public16 <= 64494
    BY SMT DEF Public16
  <2>3. n \in Nat /\ n <= 64494 /\ v \in 0 .. n - 1
    BY <2>1, <2>2
  <2> QED BY <2>3, SMT
<1>3. Pair(v + 2)[2] = v + 2 /\ Pair(v + 1)[2] = v + 1
  BY <1>2, LowHalf, SMT
<1>4. v + 1 >= Gap => FromBounded("ASNPublic16", v) = Pair(v + 2)
  BY SMT DEF FromBounded, Gap
<1>5. v + 1 < Gap => FromBounded("ASNPublic16", v) = Pair(v + 1)
  BY SMT DEF FromBounded, Gap
<1> QED BY ONLY <1>3, <1>4, <1>5, Zenon

LEMMA Range16Is ==
  /\ Public16 \in Nat /\ Gap \in 1 .. Public16 + 1 /\ Bound("ASNPublic16") = Public16
  /\ Range16("ASNPublic16") = (1 .. Public16 + 1) \ {Gap}
<1>1. PICK last : last = 64495
  OBVIOUS
<1>2. Range16("ASNPublic16") = (1 .. last) \ {Gap}
  BY <1>1, SMT DEF Range16, Gap
<1>3. Public16 + 1 = last
  BY ONLY <1>1, SMT DEF Public16
<1>4. Range16("ASNPublic16") = (1 .. Public16 + 1) \ {Gap}
  BY ONLY <1>2, <1>3, Zenon
<1>5. Public16 \in Nat /\ Gap \in 1 .. Public16 + 1 /\ Bound("ASNPublic16") = Public16
  BY SMT DEF Public16, Gap, Bound
<1> QED BY ONLY <1>4, <1>5, Zenon

(* The values of boundedFrom give exactly the documented range of a kind   *)
(* (value.go:6-47), each number from one value only; of MPLS labels and    *)
(* private 32-bit AS numbers the first and the last value are compared.    *)
THEOREM RangeExactHolds == Spec => []RangeExact
<1>1. NetInv => RangeExact
  <2> SUFFICES ASSUME NetInv, pc = "draw", call.api = "Value", Bound(call.kind) # 0
               PROVE  RangeExact
    BY Zenon DEF RangeExact
  <2>1. call.kind \in NumberKinds
    BY CallFacts DEF NetInv
  <2>2. call.kind \in Bounded16 \union {"MPLSLabelUnreserved", "ASNPrivate32"}
    BY <2>1, SMT DEF Bound, NumberKinds, Bounded16
  <2>3. CASE call.kind \in {"MPLSLabelUnreserved", "ASNPrivate32"}
    <3>1. <<FromBounded(call.kind, 0), FromBounded(call.kind, Bound(call.kind) - 1)>>
            = Ends32(call.kind)
      <4>1. CASE call.kind = "MPLSLabelUnreserved"
        <5>1. Bound(call.kind) - 1 = 1048559
          BY <4>1, SMT DEF Bound
        <5>2. FromBounded(call.kind, 0) = Pair(16) /\ FromBounded(call.kind, 1048559) = Pair(1048575)
          BY <4>1, SMT DEF FromBounded
        <5>3. Ends32(call.kind) = <<Pair(16), Pair(1048575)>>
          BY <4>1, SMT DEF Ends32
        <5> QED BY ONLY <5>1, <5>2, <5>3, SMT
      <4>2. CASE call.kind = "ASNPrivate32"
        <5>1. Bound(call.kind) - 1 = 94967294
          BY <4>2, SMT DEF Bound
        <5>2. /\ FromBounded(call.kind, 0) = <<64086, 59904>>
              /\ FromBounded(call.kind, 94967294) = <<65535, 65534>>
          BY <4>2, SMT DEF FromBounded
        <5>3. Ends32(call.kind) = <<<<64086, 59904>>, <<65535, 65534>>>>
          BY <4>2, SMT DEF Ends32
        <5> QED BY ONLY <5>1, <5>2, <5>3, SMT
      <4> QED BY <2>3, <4>1, <4>2, Zenon
    <3> QED BY <2>3, <3>1, Zenon DEF RangeExact
  <2>5. CASE call.kind \in Bounded16 \ {"ASNPublic16"}
    <3>1. PICK kind : kind = call.kind
      OBVIOUS
    <3>2. PICK c \in Nat, n \in Nat \ {0} : Shifts(kind, n, c)
      BY <2>5, <3>1, ShiftedKinds
    <3>3. /\ Small(n, c) /\ n = Bound(kind) /\ Range16(kind) = c .. c + n - 1
          /\ \A v \in 0 .. n - 1 : FromBounded(kind, v) = Pair(v + c)
      BY ONLY <3>2 DEF Shifts
    <3>4. Counted({FromBounded(kind, v)[2] : v \in 0 .. n - 1}, c, n)
      BY ONLY <3>3, c \in Nat, n \in Nat \ {0}, ShiftedIs
    <3>5. /\ {FromBounded(kind, v)[2] : v \in 0 .. n - 1} = Range16(kind)
          /\ Cardinality(Range16(kind)) = n
      BY ONLY <3>3, <3>4 DEF Counted
    <3>6. call.kind \in Bounded16 /\ n = Bound(kind)
      BY <2>5, <3>3
    <3> QED BY ONLY <3>1, <3>5, <3>6, RangeOf
  <2>6. CASE call.kind = "ASNPublic16"
    <3>1. PICK kind : kind = call.kind
      OBVIOUS
    <3>2. PICK n : n = Public16
      OBVIOUS
    <3>3. /\ n \in Nat /\ Gap \in 1 .. n + 1 /\ n = Bound(kind)
          /\ Range16(kind) = (1 .. n + 1) \ {Gap} /\ Skips(kind, n, Gap)
      BY <2>6, <3>1, <3>2, SkipsGap, Range16Is, Zenon
    <3>4. Cardinality((1 .. n + 1) \ {Gap}) = n
          /\ {FromBounded(kind, v)[2] : v \in 0 .. n - 1} = (1 .. n + 1) \ {Gap}
      BY ONLY <3>3, SkippedIs
    <3>5. /\ {FromBounded(kind, v)[2] : v \in 0 .. n - 1} = Range16(kind)
          /\ Cardinality(Range16(kind)) = n /\ n = Bound(kind)
      BY ONLY <3>3, <3>4
    <3>6. call.kind \in Bounded16
      BY <2>6 DEF Bounded16
    <3> QED BY ONLY <3>1, <3>5, <3>6, RangeOf
  <2> QED BY <2>2, <2>3, <2>5, <2>6, Zenon
<1> QED BY <1>1, NetInvInductive, PTL

-------------------------------------------------------------------------------
(* The first usable candidate.                                             *)

PublicKinds == {"IPv4Public", "ASNPublic"}

(* Tried and Usable, of a kind.                                            *)
TriedOf(kind, words) ==
  CASE words = <<>> -> <<>>
    [] kind = "ASNPublic" ->
         [i \in 1 .. 2 * Len(words) |-> Half(words[(i + 1) \div 2], i % 2 = 0)]
    [] OTHER ->
         [i \in 1 .. Len(words) + 1 |-> Half(words[IF i = 1 THEN 1 ELSE i - 1], i = 2)]

UsableOf(kind, c) ==
  IF kind = "IPv4Public" THEN ~InAny(c, ReservedIPv4) ELSE ~ReservedASN(PairOf(c))

(* The place of the first usable one of s, of the candidates of words.     *)
FirstIn(kind, s) == SelectInSeq(s, LAMBDA c : UsableOf(kind, c))
First(kind, words) == FirstIn(kind, TriedOf(kind, words))

(* The result is the first usable candidate, of the last word.             *)
IsFirst(kind, words, r) ==
  /\ First(kind, words) # 0
  /\ r = IF kind = "IPv4Public" THEN TriedOf(kind, words)[First(kind, words)]
         ELSE PairOf(TriedOf(kind, words)[First(kind, words)])
  /\ First(kind, Front(words)) = 0

NoneUsable(kind, s) == \A j \in 1 .. Len(s) : ~UsableOf(kind, s[j])

FirstInv ==
  call.kind \in PublicKinds =>
    IF pc = "done" THEN IsFirst(call.kind, drawn, result)
    ELSE NoneUsable(call.kind, TriedOf(call.kind, drawn))

(* None usable: no place; else the place of the first.                     *)
LEMMA FirstOfNone ==
  ASSUME NEW kind, NEW s, NoneUsable(kind, s)
  PROVE  FirstIn(kind, s) = 0
<1> DEFINE U(j) == UsableOf(kind, s[j])
<1>1. PICK I : I = {j \in 1 .. Len(s) : U(j)}
  OBVIOUS
<1>2. FirstIn(kind, s) = IF I # {} THEN Min(I) ELSE 0
  BY <1>1 DEF SelectInSeq, FirstIn
<1>3. I = {}
  BY <1>1 DEF NoneUsable
<1> QED BY <1>2, <1>3

LEMMA FirstOfSome ==
  ASSUME NEW kind, NEW s, NEW k \in 1 .. Len(s), Len(s) \in Nat,
         UsableOf(kind, s[k]), \A j \in 1 .. k - 1 : ~UsableOf(kind, s[j])
  PROVE  FirstIn(kind, s) = k
<1> DEFINE U(j) == UsableOf(kind, s[j])
<1>1. PICK I : I = {j \in 1 .. Len(s) : U(j)}
  OBVIOUS
<1>2. FirstIn(kind, s) = IF I # {} THEN Min(I) ELSE 0
  BY <1>1 DEF SelectInSeq, FirstIn
<1> HIDE DEF U
<1>3. U(k) /\ \A j \in 1 .. k - 1 : ~U(j)
  BY DEF U
<1>4. k \in I /\ I \subseteq Int
  BY <1>1, <1>3
<1>5. \A y \in I : k <= y
  <2>1. SUFFICES ASSUME NEW y \in I PROVE k <= y
    OBVIOUS
  <2>2. y \in 1 .. Len(s) /\ U(y)
    BY <1>1
  <2>3. y \notin 1 .. k - 1
    BY <1>3, <2>2
  <2> QED BY <2>2, <2>3
<1>6. Min(I) = k
  BY ONLY <1>4, <1>5, MinIs
<1> QED BY <1>2, <1>4, <1>6

(* What is usable is accepted.                                             *)
LEMMA UsableIsAccepted ==
  ASSUME NEW kind \in PublicKinds, NEW c \in Quad
  PROVE  Accepts(kind, c) <=> UsableOf(kind, c)
<1>1. c[1] \in Byte /\ c[2] \in Byte /\ c[3] \in Byte /\ c[4] \in Byte
  BY DEF Quad
<1>2. CASE kind = "IPv4Public"
  <2>1. Accepts(kind, c) <=> IsPublicIPv4(c)
    <3>1. Bound(kind) = 0
      BY Unbounded DEF PublicKinds
    <3>2. Accepts(kind, c) = IsPublicIPv4(c)
      BY <1>2, <3>1 DEF Accepts
    <3> QED BY <3>2
  <2>2. IsPublicIPv4(c) <=> ~InAny(c, ReservedIPv4)
    BY <1>1, PublicIPv4Is
  <2> QED BY <1>2, <2>1, <2>2 DEF UsableOf
<1>3. CASE kind = "ASNPublic"
  <2>1. Accepts(kind, c) <=> IsPublicASN(PairOf(c))
    <3>1. Bound(kind) = 0
      BY Unbounded DEF PublicKinds
    <3>2. Accepts(kind, c) = IsPublicASN(PairOf(c))
      BY <1>3, <3>1 DEF Accepts
    <3> QED BY <3>2
  <2>2. PICK a : a = 256 * c[1] + c[2]
    OBVIOUS
  <2>3. PICK b : b = 256 * c[3] + c[4]
    OBVIOUS
  <2>4. PICK p : p = PairOf(c)
    OBVIOUS
  <2>5. p = <<a, b>>
    BY <2>2, <2>3, <2>4 DEF PairOf
  <2>6. a \in Nat /\ b \in Nat /\ a < 65536 /\ b < 65536
    <3>1. PICK u1, u2, u3, u4 : u1 = c[1] /\ u2 = c[2] /\ u3 = c[3] /\ u4 = c[4]
      OBVIOUS
    <3>2. u1 \in Byte /\ u2 \in Byte /\ u3 \in Byte /\ u4 \in Byte
      BY ONLY <1>1, <3>1
    <3>3. a = 256 * u1 + u2 /\ b = 256 * u3 + u4
      BY ONLY <2>2, <2>3, <3>1
    <3> QED BY ONLY <3>2, <3>3, SMT DEF Byte
  <2>7. IsPublicASN(p) <=> ~ReservedASN(p)
    BY ONLY <2>5, <2>6, PublicASNIs
  <2> QED BY <1>3, <2>1, <2>4, <2>7, Zenon DEF UsableOf
<1> QED BY <1>2, <1>3 DEF PublicKinds

(* One more word: t is s, then its candidates cs.                          *)
Extended(t, s, cs) ==
  /\ Len(s) \in Nat /\ Len(cs) \in {1, 2} /\ Len(t) = Len(s) + Len(cs)
  /\ \A j \in 1 .. Len(s) : t[j] = s[j]
  /\ \A j \in 1 .. Len(cs) : t[Len(s) + j] = cs[j] /\ cs[j] \in Quad

LEMMA QuadSeq ==
  ASSUME NEW n \in Nat, NEW s, s \in [1 .. n -> Quad]
  PROVE  n = Len(s)
<1>1. s \in Seq(Quad)
  OBVIOUS
<1>2. Len(s) \in Nat /\ DOMAIN s = 1 .. Len(s)
  BY <1>1, LenProperties
<1>3. DOMAIN s = 1 .. n
  OBVIOUS
<1>4. PICK k : k = Len(s)
  OBVIOUS
<1>5. k \in Nat /\ 1 .. k = 1 .. n
  BY <1>2, <1>3, <1>4
<1>6. k = n
  BY ONLY <1>5, n \in Nat
<1> QED BY <1>4, <1>6

LEMMA TriedMore ==
  ASSUME NEW kind \in PublicKinds, NEW words \in Seq(Word), words = drawn, NEW x \in Word,
         NEW w, w = Append(words, x), NEW s, s = TriedOf(kind, words),
         NEW t, t = TriedOf(kind, w), NEW cs, cs = Candidates(kind, x)
  PROVE  Extended(t, s, cs)
<1>1. PICK n : n = Len(words)
  OBVIOUS
<1>2. /\ n \in Nat /\ Len(w) = n + 1 /\ w # <<>>
      /\ \A j \in 1 .. n : w[j] = words[j] /\ words[j] \in Word
      /\ w[n + 1] = x
      /\ words = <<>> <=> n = 0
  <2>1. /\ w \in Seq(Word) /\ Len(w) = n + 1 /\ w[n + 1] = x
        /\ \A j \in 1 .. n : w[j] = words[j]
    BY <1>1, AppendProperties
  <2>2. n \in Nat /\ \A j \in 1 .. n : words[j] \in Word
    BY <1>1
  <2>3. words = <<>> <=> n = 0
    BY <1>1, EmptySeq
  <2>4. w # <<>>
    BY <2>1, <2>2, EmptySeq
  <2> QED BY <2>1, <2>2, <2>3, <2>4
<1>3. PICK lo : lo = Half(x, FALSE)
  OBVIOUS
<1>4. PICK hi : hi = Half(x, TRUE)
  OBVIOUS
<1>5. lo \in Quad /\ hi \in Quad
  BY <1>3, <1>4, HalfIs
<1>6. CASE kind = "ASNPublic"
  <2>1. cs = <<lo, hi>>
    BY <1>3, <1>4, <1>6 DEF Candidates
  <2>2. Len(cs) = 2 /\ cs[1] = lo /\ cs[2] = hi
    BY <2>1
  <2>3. PICK k : k = 2 * n
    OBVIOUS
  <2>4. k \in Nat /\ k + 2 \in Nat /\ 2 * (n + 1) = k + 2
    BY <1>2, <2>3
  <2>5. t = [i \in 1 .. k + 2 |-> Half(w[(i + 1) \div 2], i % 2 = 0)]
    BY <1>2, <1>6, <2>4 DEF TriedOf
  <2>6. \A i \in 1 .. k : (i + 1) \div 2 \in 1 .. n
    BY <1>2, <2>3
  <2>7. \A i \in 1 .. k : t[i] = Half(words[(i + 1) \div 2], i % 2 = 0) /\ t[i] \in Quad
    <3>1. SUFFICES ASSUME NEW i \in 1 .. k
                   PROVE  t[i] = Half(words[(i + 1) \div 2], i % 2 = 0) /\ t[i] \in Quad
      OBVIOUS
    <3>2. i \in 1 .. k + 2
      BY <2>4
    <3>3. t[i] = Half(w[(i + 1) \div 2], i % 2 = 0)
      BY <2>5, <3>2
    <3>4. PICK j : j = (i + 1) \div 2
      OBVIOUS
    <3>5. w[j] = words[j] /\ words[j] \in Word
      BY <1>2, <2>6, <3>4
    <3>6. PICK high \in BOOLEAN : high = (i % 2 = 0)
      OBVIOUS
    <3>7. Half(words[j], high) \in Quad
      BY ONLY <3>5, high \in BOOLEAN, HalfIs
    <3> QED BY ONLY <3>3, <3>4, <3>5, <3>6, <3>7
  <2>8. t[k + 1] = lo /\ t[k + 2] = hi
    <3>1. k + 1 \in 1 .. k + 2 /\ k + 2 \in 1 .. k + 2
      BY <2>4
    <3>2. /\ (k + 1 + 1) \div 2 = n + 1 /\ (k + 2 + 1) \div 2 = n + 1
          /\ (k + 1) % 2 # 0 /\ (k + 2) % 2 = 0
      BY <1>2, <2>3
    <3>3. /\ t[k + 1] = Half(w[n + 1], (k + 1) % 2 = 0)
          /\ t[k + 2] = Half(w[n + 1], (k + 2) % 2 = 0)
      BY <2>5, <3>1, <3>2
    <3> QED BY ONLY <1>2, <1>3, <1>4, <3>2, <3>3 DEF Half
  <2>9. t \in [1 .. k + 2 -> Quad]
    <3>1. \A i \in 1 .. k + 2 : i \in 1 .. k \/ i = k + 1 \/ i = k + 2
      BY <2>4
    <3>2. \A i \in 1 .. k + 2 : t[i] \in Quad
      BY ONLY <1>5, <2>7, <2>8, <3>1
    <3> QED BY <2>5, <3>2
  <2>10. Len(t) = k + 2
    BY <2>4, <2>9, QuadSeq
  <2>11. Len(s) = k /\ \A j \in 1 .. k : t[j] = s[j]
    <3>1. CASE n = 0
      <4>1. s = <<>> /\ k = 0
        BY <1>2, <2>3, <3>1 DEF TriedOf
      <4> QED BY <4>1
    <3>2. CASE n # 0
      <4>1. s = [i \in 1 .. k |-> Half(words[(i + 1) \div 2], i % 2 = 0)]
        BY <1>1, <1>2, <1>6, <2>3, <3>2 DEF TriedOf
      <4>2. \A j \in 1 .. k : t[j] = s[j]
        BY <2>7, <4>1
      <4>3. s \in [1 .. k -> Quad]
        BY <2>7, <4>1, <4>2
      <4>4. Len(s) = k
        BY <2>4, <4>3, QuadSeq
      <4> QED BY <4>2, <4>4
    <3> QED BY <3>1, <3>2
  <2>12. \A j \in 1 .. 2 : t[k + j] = cs[j] /\ cs[j] \in Quad
    BY <1>5, <2>2, <2>8
  <2> QED BY ONLY <2>2, <2>4, <2>10, <2>11, <2>12 DEF Extended
<1>7. CASE kind = "IPv4Public"
  <2>1. t = [i \in 1 .. n + 2 |-> Half(w[IF i = 1 THEN 1 ELSE i - 1], i = 2)]
    <3>1. (n + 1) + 1 = n + 2
      BY <1>2
    <3> QED BY <1>2, <1>7, <3>1 DEF TriedOf
  <2>2. PICK at : at = [i \in 1 .. n + 2 |-> IF i = 1 THEN 1 ELSE i - 1]
    OBVIOUS
  <2>3. \A i \in 1 .. n + 2 : at[i] \in 1 .. n + 1 /\ t[i] = Half(w[at[i]], i = 2)
    BY <1>2, <2>1, <2>2
  <2>4. t \in [1 .. n + 2 -> Quad]
    <3>1. ASSUME NEW i \in 1 .. n + 2 PROVE t[i] \in Quad
      <4>1. PICK j : j = at[i]
        OBVIOUS
      <4>2. j \in 1 .. n + 1 /\ t[i] = Half(w[j], i = 2)
        BY <2>3, <4>1
      <4>3. w[j] \in Word
        <5>1. j \in 1 .. n \/ j = n + 1
          BY <1>2, <4>2
        <5> QED BY ONLY <1>2, <5>1, x \in Word
      <4>4. PICK high \in BOOLEAN : high = (i = 2)
        OBVIOUS
      <4>5. Half(w[j], high) \in Quad
        BY ONLY <4>3, high \in BOOLEAN, HalfIs
      <4> QED BY ONLY <4>2, <4>4, <4>5
    <3> QED BY <2>1, <3>1
  <2>5. Len(t) = n + 2
    <3>1. n + 2 \in Nat
      BY <1>2
    <3> QED BY <2>4, <3>1, QuadSeq
  <2>6. CASE n = 0
    <3>1. s = <<>> /\ cs = <<lo, hi>>
      BY <1>2, <1>3, <1>4, <1>7, <2>6 DEF TriedOf, Candidates
    <3>2. Len(s) = 0 /\ Len(cs) = 2 /\ cs[1] = lo /\ cs[2] = hi
      BY <3>1
    <3>3. t[1] = Half(w[1], FALSE) /\ t[2] = Half(w[1], TRUE)
      <4>1. 1 \in 1 .. n + 2 /\ 2 \in 1 .. n + 2 /\ 2 - 1 = 1 /\ 1 # 2
        BY <2>6
      <4>2. at[1] = 1 /\ at[2] = 1
        BY <2>2, <4>1
      <4>3. t[1] = Half(w[1], 1 = 2) /\ t[2] = Half(w[1], 2 = 2)
        BY <2>3, <4>1, <4>2
      <4> QED BY <4>3 DEF Half
    <3>4. w[1] = x
      BY <1>2, <2>6
    <3>5. t[0 + 1] = cs[1] /\ t[0 + 2] = cs[2]
      <4>1. 0 + 1 = 1 /\ 0 + 2 = 2
        OBVIOUS
      <4> QED BY ONLY <1>3, <1>4, <3>2, <3>3, <3>4, <4>1
    <3>6. \A j \in 1 .. 2 : t[0 + j] = cs[j] /\ cs[j] \in Quad
      BY <1>5, <3>2, <3>5
    <3>7. Len(t) = 0 + 2 /\ 0 \in Nat /\ \A j \in 1 .. 0 : FALSE
      BY <2>5, <2>6
    <3> QED BY ONLY <3>2, <3>6, <3>7 DEF Extended
  <2>7. CASE n # 0
    <3>1. words # <<>> /\ cs = <<lo>>
      BY <1>2, <1>3, <1>7, <2>7 DEF Candidates
    <3>2. Len(cs) = 1 /\ cs[1] = lo
      BY <3>1
    <3>3. s = [i \in 1 .. n + 1 |-> Half(words[IF i = 1 THEN 1 ELSE i - 1], i = 2)]
      BY <1>1, <1>7, <3>1 DEF TriedOf
    <3>4. ASSUME NEW i \in 1 .. n + 1 PROVE t[i] = s[i]
      <4>1. i \in 1 .. n + 2 /\ (IF i = 1 THEN 1 ELSE i - 1) \in 1 .. n
        BY <1>2, <2>7
      <4>2. PICK j : j = IF i = 1 THEN 1 ELSE i - 1
        OBVIOUS
      <4>3. w[j] = words[j]
        BY <1>2, <4>1, <4>2
      <4>4. at[i] = j
        BY <2>2, <4>1, <4>2
      <4>5. t[i] = Half(w[j], i = 2)
        BY <2>3, <4>1, <4>4
      <4>6. s[i] = Half(words[j], i = 2)
        BY <3>3, <4>2
      <4> QED BY ONLY <4>3, <4>5, <4>6
    <3>5. s \in [1 .. n + 1 -> Quad]
      <4>1. \A i \in 1 .. n + 1 : i \in 1 .. n + 2
        BY <1>2
      <4>2. \A i \in 1 .. n + 1 : s[i] \in Quad
        BY <2>4, <3>4, <4>1
      <4> QED BY <3>3, <4>2
    <3>6. Len(s) = n + 1 /\ n + 1 \in Nat
      <4>1. n + 1 \in Nat
        BY <1>2
      <4> QED BY <3>5, <4>1, QuadSeq
    <3>7. t[n + 2] = lo
      <4>1. /\ n + 2 \in 1 .. n + 2 /\ n + 2 # 1 /\ n + 2 # 2 /\ (n + 2) - 1 = n + 1
        BY <1>2, <2>7
      <4>2. at[n + 2] = n + 1
        BY <2>2, <4>1
      <4>3. t[n + 2] = Half(w[n + 1], n + 2 = 2)
        BY <2>3, <4>1, <4>2
      <4> QED BY ONLY <1>2, <1>3, <4>1, <4>3 DEF Half
    <3>8. \A j \in 1 .. 1 : t[(n + 1) + j] = cs[j] /\ cs[j] \in Quad
      <4>1. \A j \in 1 .. 1 : j = 1
        OBVIOUS
      <4>2. (n + 1) + 1 = n + 2
        BY <1>2
      <4> QED BY ONLY <1>5, <3>2, <3>7, <4>1, <4>2
    <3>9. Len(t) = (n + 1) + 1
      BY <1>2, <2>5
    <3> QED BY ONLY <3>2, <3>4, <3>6, <3>8, <3>9 DEF Extended
  <2> QED BY <2>6, <2>7
<1> QED BY <1>6, <1>7 DEF PublicKinds

(* The word before the last one.                                           *)
LEMMA FrontOfAppend ==
  ASSUME NEW S, NEW s \in Seq(S), NEW x \in S, NEW w, w = Append(s, x)
  PROVE  Front(w) = s
<1>1. PICK n : n = Len(s)
  OBVIOUS
<1>2. n \in Nat /\ Len(w) = n + 1 /\ \A j \in 1 .. n : w[j] = s[j]
  BY <1>1, AppendProperties
<1>3. Front(w) = SubSeq(w, 1, n)
  BY <1>2 DEF Front
<1>4. SubSeq(w, 1, n) = [j \in 1 .. n |-> w[j]]
  BY <1>2
<1>5. s = [j \in 1 .. n |-> s[j]]
  BY <1>1
<1>6. [j \in 1 .. n |-> w[j]] = [j \in 1 .. n |-> s[j]]
  BY <1>2
<1> QED BY <1>3, <1>4, <1>5, <1>6

(* A draw of a public kind: nothing usable is skipped, and a usable one    *)
(* is the result.                                                          *)
LEMMA DrawFirst ==
  ASSUME NetInv, FirstInv, NEW x \in Words[call.kind], Draw(x), call.kind \in PublicKinds
  PROVE  FirstInv'
<1>1. PICK kind : kind = call.kind
  OBVIOUS
<1>2. kind \in PublicKinds /\ kind \in AllKinds /\ x \in Word /\ call' = call
  BY <1>1, CallFacts DEF NetInv, PublicKinds, Draw
<1>3. PICK cs : cs = Candidates(kind, x)
  OBVIOUS
<1>4. PICK i : i = SelectInSeq(cs, LAMBDA c : Accepts(kind, c))
  OBVIOUS
<1>5. PICK p : p = IF i = 0 THEN parts ELSE Append(parts, cs[i])
  OBVIOUS
<1>6. /\ pc = "draw" /\ drawn' = Append(drawn, x)
      /\ Len(p) = PartsOf(kind) => pc' = "done" /\ result' = Outcome(p)
      /\ Len(p) # PartsOf(kind) => pc' = pc
  BY <1>1, <1>3, <1>4, <1>5 DEF Draw
<1>7. PartsOf(kind) = 1
  BY <1>2 DEF PartsOf, PublicKinds, IPv6Kinds, EUI64Kinds
<1>8. parts = <<>>
  <2>1. Len(parts) < 1 /\ parts \in Seq(Quad \union Octet \union Word)
    BY <1>1, <1>6, <1>7 DEF NetInv
  <2>2. Len(parts) = 0
    BY <2>1
  <2> QED BY <2>1, <2>2, EmptySeq
<1>9. drawn \in Seq(Word)
  BY <1>1, CallFacts DEF NetInv
<1>10. PICK w : w = Append(drawn, x)
  OBVIOUS
<1>11. PICK s : s = TriedOf(kind, drawn)
  OBVIOUS
<1>12. PICK t : t = TriedOf(kind, w)
  OBVIOUS
<1>13. Extended(t, s, cs)
  BY ONLY <1>2, <1>3, <1>9, <1>10, <1>11, <1>12, TriedMore
<1>14. PICK n : n = Len(s)
  OBVIOUS
<1>15. /\ n \in Nat /\ Len(cs) \in {1, 2} /\ Len(t) = n + Len(cs)
       /\ \A j \in 1 .. n : t[j] = s[j]
       /\ \A j \in 1 .. Len(cs) : t[n + j] = cs[j] /\ cs[j] \in Quad
  BY <1>13, <1>14 DEF Extended
<1>16. \A j \in 1 .. Len(cs) : Accepts(kind, cs[j]) <=> UsableOf(kind, cs[j])
  BY <1>2, <1>15, UsableIsAccepted
<1>17. NoneUsable(kind, s)
  BY <1>1, <1>6, <1>11, <1>2 DEF FirstInv
<1>18. \A j \in 1 .. n : ~UsableOf(kind, t[j])
  BY ONLY <1>14, <1>15, <1>17 DEF NoneUsable
<1>19. CASE i = 0
  <2>1. \A j \in 1 .. Len(cs) : ~UsableOf(kind, cs[j])
    <3>1. \A j \in 1 .. Len(cs) : ~Accepts(kind, cs[j])
      <4>1. \/ i = 0 /\ \A j \in 1 .. Len(cs) : ~Accepts(kind, cs[j])
            \/ i \in 1 .. Len(cs)
        BY ONLY <1>2, <1>3, <1>4, FirstAccepted
      <4>2. 0 \notin 1 .. Len(cs)
        OBVIOUS
      <4> QED BY ONLY <1>19, <4>1, <4>2
    <3> QED BY ONLY <1>16, <3>1
  <2>2. ASSUME NEW k \in 1 .. Len(t) PROVE ~UsableOf(kind, t[k])
    <3>1. CASE k \in 1 .. n
      BY <1>18, <3>1
    <3>2. CASE k \notin 1 .. n
      <4>1. PICK j : j = k - n
        OBVIOUS
      <4>2. j \in 1 .. Len(cs) /\ k = n + j
        BY <1>15, <3>2, <4>1
      <4>3. t[k] = cs[j]
        BY ONLY <1>15, <4>2
      <4> QED BY ONLY <2>1, <4>2, <4>3
    <3> QED BY <3>1, <3>2
  <2>3. NoneUsable(kind, t)
    BY ONLY <2>2 DEF NoneUsable
  <2>4. pc' = "draw"
    BY <1>5, <1>6, <1>7, <1>8, <1>19
  <2>5. NoneUsable(kind, TriedOf(kind, drawn'))
    BY ONLY <1>6, <1>10, <1>12, <2>3
  <2> QED BY ONLY <1>1, <1>2, <2>4, <2>5 DEF FirstInv
<1>20. CASE i # 0
  <2>1. /\ i \in 1 .. Len(cs) /\ Accepts(kind, cs[i])
        /\ \A j \in 1 .. i - 1 : ~Accepts(kind, cs[j])
    BY <1>2, <1>3, <1>4, <1>20, FirstAccepted
  <2>2. PICK k : k = n + i
    OBVIOUS
  <2>3. k \in 1 .. Len(t) /\ Len(t) \in Nat /\ t[k] = cs[i] /\ k # 0
    BY <1>15, <2>1, <2>2
  <2>4. UsableOf(kind, t[k])
    BY ONLY <1>16, <2>1, <2>3
  <2>5. ASSUME NEW m \in 1 .. k - 1 PROVE ~UsableOf(kind, t[m])
    <3>1. CASE m \in 1 .. n
      BY <1>18, <3>1
    <3>2. CASE m \notin 1 .. n
      <4>1. PICK j : j = m - n
        OBVIOUS
      <4>2. j \in 1 .. i - 1 /\ j \in 1 .. Len(cs) /\ m = n + j
        BY <1>15, <2>1, <2>2, <3>2, <4>1
      <4>3. t[m] = cs[j]
        BY ONLY <1>15, <4>2
      <4> QED BY ONLY <1>16, <2>1, <4>2, <4>3
    <3> QED BY <3>1, <3>2
  <2>6. First(kind, w) = k
    <3>1. FirstIn(kind, t) = k
      BY <2>3, <2>4, <2>5, FirstOfSome
    <3> QED BY <1>12, <3>1 DEF First
  <2>7. First(kind, drawn) = 0
    <3>1. FirstIn(kind, s) = 0
      BY <1>17, FirstOfNone
    <3> QED BY <1>11, <3>1 DEF First
  <2>8. Front(w) = drawn
    BY <1>2, <1>9, <1>10, FrontOfAppend
  <2>9. PICK c : c = cs[i]
    OBVIOUS
  <2>10. p = <<c>>
    <3>1. p = Append(<<>>, c)
      BY <1>5, <1>8, <1>20, <2>9
    <3> QED BY <3>1
  <2>11. Len(p) = 1 /\ p[1] = c
    BY <2>10
  <2>12. pc' = "done" /\ result' = Outcome(p)
    BY <1>6, <1>7, <2>11
  <2>13. result' = IF kind = "IPv4Public" THEN c ELSE PairOf(c)
    <3>1. /\ call.api \in {"IP", "Value", "IPv6EUI64"}
          /\ call.api = "Value" => kind \in NumberKinds
          /\ call.api # "Value" => kind \in IPv4Kinds \union IPv6Kinds
          /\ call.api = "IPv6EUI64" => kind \in EUI64Kinds
      BY <1>1, <1>6, CallFacts DEF NetInv
    <3>2. CASE kind = "IPv4Public"
      <4>1. call.api = "IP" /\ kind \notin IPv6Kinds
        BY <3>1, <3>2 DEF NumberKinds, EUI64Kinds, IPv6Kinds
      <4>2. Outcome(p) = IPv4(kind, c)
        BY <1>1, <2>11, <4>1 DEF Outcome
      <4>3. IPv4(kind, c) = c
        BY <3>2 DEF IPv4
      <4> QED BY <2>12, <3>2, <4>2, <4>3
    <3>3. CASE kind = "ASNPublic"
      <4>1. call.api = "Value"
        BY <3>1, <3>3 DEF IPv4Kinds, EUI64Kinds, IPv6Kinds
      <4>2. Outcome(p) = Value(kind, c)
        BY <1>1, <2>11, <4>1 DEF Outcome
      <4>3. Bound(kind) = 0
        BY <3>3, Unbounded
      <4>4. Value(kind, c) = PairOf(c)
        BY <3>3, <4>3 DEF Value
      <4> QED BY <2>12, <3>3, <4>2, <4>4
    <3> QED BY <1>2, <3>2, <3>3 DEF PublicKinds
  <2>14. TriedOf(kind, w)[k] = c
    BY ONLY <1>12, <2>3, <2>9
  <2>15. IsFirst(kind, w, result')
    BY ONLY <2>3, <2>6, <2>7, <2>8, <2>13, <2>14 DEF IsFirst
  <2>16. IsFirst(kind, drawn', result')
    BY ONLY <1>6, <1>10, <2>15
  <2> QED BY ONLY <1>1, <1>2, <2>12, <2>16 DEF FirstInv
<1> QED BY <1>19, <1>20

(* A public IPv4 address or AS number is the first candidate of the words  *)
(* drawn that is outside of ReservedIPv4 or of the reserved AS numbers,    *)
(* and the words before the last had none: the table of first octets, the  *)
(* slow path and the retry loops pass over nothing else.                   *)
THEOREM FirstUsableHolds == Spec => []FirstUsable
<1>1. Init => FirstInv
  <2>1. \A kind : TriedOf(kind, <<>>) = <<>>
    BY DEF TriedOf
  <2>2. \A kind : NoneUsable(kind, <<>>)
    BY DEF NoneUsable
  <2>3. Init => pc # "done" /\ drawn = <<>>
    BY DEF Init
  <2> QED BY <2>1, <2>2, <2>3 DEF FirstInv
<1>2. NetInv /\ FirstInv /\ [Next]_vars => FirstInv'
  <2> SUFFICES ASSUME NetInv, FirstInv, [Next]_vars PROVE FirstInv'
    OBVIOUS
  <2>1. CASE UNCHANGED vars
    BY <2>1 DEF FirstInv, vars
  <2>2. CASE Finished
    BY <2>2 DEF FirstInv, vars, Finished
  <2>3. ASSUME NEW x \in Words[call.kind], Draw(x) PROVE FirstInv'
    <3>1. CASE call.kind \in PublicKinds
      BY <2>3, <3>1, DrawFirst
    <3>2. CASE call.kind \notin PublicKinds
      BY <2>3, <3>2 DEF FirstInv, Draw
    <3> QED BY <3>1, <3>2
  <2> QED BY <2>1, <2>2, <2>3 DEF Next
<1>3. FirstInv => FirstUsable
  <2> SUFFICES ASSUME FirstInv, call.kind \in PublicKinds
               PROVE  FirstUsable
    BY DEF FirstUsable, PublicKinds
  <2>1. PICK kind : kind = call.kind
    OBVIOUS
  <2>2. \A words : Tried(words) = TriedOf(kind, words)
    BY <2>1 DEF Tried, TriedOf
  <2>3. \A s : SelectInSeq(s, Usable) = FirstIn(kind, s)
    BY <2>1 DEF FirstIn, SelectInSeq, Usable, UsableOf
  <2>4. \A words : SelectInSeq(Tried(words), Usable) = First(kind, words)
    BY <2>2, <2>3 DEF First
  <2>5. CASE pc = "done"
    <3>1. IsFirst(kind, drawn, result)
      BY <2>1, <2>5 DEF FirstInv
    <3> QED BY <2>1, <2>2, <2>4, <2>5, <3>1 DEF FirstUsable, IsFirst
  <2>6. CASE pc # "done"
    <3>1. NoneUsable(kind, TriedOf(kind, drawn))
      BY <2>1, <2>6 DEF FirstInv
    <3>2. First(kind, drawn) = 0
      BY <3>1, FirstOfNone DEF First
    <3> QED BY <2>1, <2>2, <2>4, <2>6, <3>2 DEF FirstUsable
  <2> QED BY <2>5, <2>6
<1> QED BY <1>1, <1>2, <1>3, NetInvInductive, PTL DEF Spec

================================================================================
