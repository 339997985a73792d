----------------------------- MODULE TelecomProofs -----------------------------
(***************************************************************************)
(* Proofs about Telecom, for all options, words and tables: an identifier  *)
(* has the documented layout or the options are refused, and one with a    *)
(* check digit passes the check.                                           *)
(*                                                                         *)
(* IInv says, for every kind of identifier, which digits lie behind dst    *)
(* after each of its parts and which parts are still to come.  What the    *)
(* parts append rests on lemmas about the operators of Octets (a chosen    *)
(* value is below its bound, digits are digits) and about the sum of the   *)
(* check.  Those are defined by recursion; Reached is the induction that   *)
(* the lemmas about them use.                                              *)
(***************************************************************************)
EXTENDS Telecom, WellFoundedInduction, NaturalsInduction, SequenceTheorems, TLAPS

-------------------------------------------------------------------------------
(* Induction, and functions defined by recursion.                          *)

(* A set with 0 and with every successor has all natural numbers.          *)
LEMMA Reached ==
  ASSUME NEW S, 0 \in S, \A k \in Nat : k \in S => k + 1 \in S
  PROVE  \A k \in Nat : k \in S
<1>1. PICK T : T = Nat \ S
  OBVIOUS
<1>2. SUFFICES ASSUME T # {} PROVE FALSE
  BY <1>1
<1>3. PICK R : R = OpToRel(<, Nat)
  OBVIOUS
<1>4. IsWellFoundedOn(R, Nat)
  BY <1>3, NatLessThanWellFounded
<1>5. \E x \in T : \A y \in T : <<y, x>> \notin R
  BY <1>1, <1>2, <1>4, WFMin
<1>6. PICK x \in T : \A y \in T : <<y, x>> \notin R
  BY <1>5
<1>7. x \in Nat /\ x # 0 /\ x - 1 \in Nat
  BY <1>1
<1>8. <<x - 1, x>> \in R
  BY <1>3, <1>7 DEF OpToRel
<1>9. x - 1 \in S
  BY <1>1, <1>6, <1>7, <1>8
<1>10. (x - 1) + 1 = x
  BY <1>7
<1> QED BY <1>1, <1>7, <1>9, <1>10

(* f begins with a and goes on with g, up to m.                            *)
Recursive(f, a, g, m, V) ==
  f \in [0 .. m -> V] /\ f[0] = a /\ \A k \in 1 .. m : f[k] = g[<<k, f[k - 1]>>]

(* A function may be defined by recursion.                                 *)
LEMMA Recursion ==
  ASSUME NEW V, NEW a \in V, NEW m \in Nat, NEW g,
         \A k \in 1 .. m, v \in V : g[<<k, v>>] \in V
  PROVE  \E f : Recursive(f, a, g, m, V)
<1>1. PICK S : S = {n \in Nat : n <= m => \E f : Recursive(f, a, g, n, V)}
  OBVIOUS
<1>2. 0 \in S
  <2>1. PICK f : f = [k \in 0 .. 0 |-> a]
    OBVIOUS
  <2>2. Recursive(f, a, g, 0, V)
    BY <2>1 DEF Recursive
  <2> QED BY <1>1, <2>2
<1>3. ASSUME NEW n \in Nat, n \in S PROVE n + 1 \in S
  <2>1. SUFFICES ASSUME n + 1 <= m PROVE \E f : Recursive(f, a, g, n + 1, V)
    BY <1>1
  <2>2. PICK f : Recursive(f, a, g, n, V)
    BY <1>1, <1>3, <2>1
  <2>3. /\ f \in [0 .. n -> V] /\ f[0] = a
        /\ \A k \in 1 .. n : f[k] = g[<<k, f[k - 1]>>]
    BY <2>2 DEF Recursive
  <2>4. PICK v : v = g[<<n + 1, f[n]>>]
    OBVIOUS
  <2>5. v \in V
    BY <2>1, <2>3, <2>4
  <2>6. PICK h : h = [k \in 0 .. n + 1 |-> IF k = n + 1 THEN v ELSE f[k]]
    OBVIOUS
  <2>7. h[n + 1] = v /\ \A k \in 0 .. n : h[k] = f[k]
    BY <2>6
  <2>8. h \in [0 .. n + 1 -> V]
    <3>1. \A k \in 0 .. n + 1 : k = n + 1 \/ k \in 0 .. n
      OBVIOUS
    <3> QED BY <2>3, <2>5, <2>6, <2>7, <3>1
  <2>9. ASSUME NEW k \in 1 .. n + 1 PROVE h[k] = g[<<k, h[k - 1]>>]
    <3>1. CASE k = n + 1
      <4>1. k - 1 = n /\ n \in 0 .. n
        BY <3>1
      <4> QED BY <2>4, <2>7, <3>1, <4>1
    <3>2. CASE k # n + 1
      <4>1. k \in 1 .. n /\ k \in 0 .. n /\ k - 1 \in 0 .. n
        BY <3>2
      <4> QED BY <2>3, <2>7, <4>1
    <3> QED BY <3>1, <3>2
  <2>10. h[0] = a
    BY <2>3, <2>7
  <2>11. Recursive(h, a, g, n + 1, V)
    BY <2>8, <2>9, <2>10 DEF Recursive
  <2> QED BY <2>11
<1>4. m \in S
  BY <1>2, <1>3, Reached
<1> QED BY <1>1, <1>4

-------------------------------------------------------------------------------
(* The product of a word and a number: the chosen value is below it.       *)

(* A product with a byte.                                                  *)
LEMMA ByteTimes ==
  ASSUME NEW a \in Byte, NEW b \in Nat
  PROVE  a * b \in Nat /\ a * b <= 255 * b
<1>1. a \in Nat /\ a <= 255
  BY SMT DEF Byte
<1> QED BY <1>1, SMT

(* The columns of a product, and their sums with the carries.              *)
Carried(sum, col) ==
  /\ sum \in [0 .. 11 -> Nat]
  /\ sum[0] = col[0]
  /\ \A k \in 1 .. 11 : sum[k] = col[k] + (sum[k - 1] \div 256)

LEMMA CarriedIs ==
  ASSUME NEW col \in [0 .. 11 -> Nat]
  PROVE  \E sum : Carried(sum, col)
<1>1. PICK g : g = [kv \in (1 .. 11) \X Nat |-> col[kv[1]] + (kv[2] \div 256)]
  OBVIOUS
<1>2. \A k \in 1 .. 11, v \in Nat : g[<<k, v>>] = col[k] + (v \div 256)
  BY <1>1
<1>3. \A k \in 1 .. 11, v \in Nat : g[<<k, v>>] \in Nat
  <2>1. \A k \in 1 .. 11 : col[k] \in Nat
    OBVIOUS
  <2>2. \A v \in Nat : v \div 256 \in Nat
    OBVIOUS
  <2> QED BY <1>2, <2>1, <2>2
<1>4. col[0] \in Nat
  OBVIOUS
<1>5. PICK f : Recursive(f, col[0], g, 11, Nat)
  BY <1>3, <1>4, Recursion
<1>6. f \in [0 .. 11 -> Nat] /\ f[0] = col[0] /\ \A k \in 1 .. 11 : f[k] = g[<<k, f[k - 1]>>]
  BY <1>5 DEF Recursive
<1>7. ASSUME NEW k \in 1 .. 11 PROVE f[k] = col[k] + (f[k - 1] \div 256)
  <2>1. k - 1 \in 0 .. 11
    OBVIOUS
  <2>2. f[k - 1] \in Nat
    BY <1>6, <2>1
  <2> QED BY <1>2, <1>6, <2>2
<1>8. Carried(f, col)
  BY <1>6, <1>7 DEF Carried
<1> QED BY <1>8

(* The carry of a column that is not larger than its bytes allow.          *)
LEMMA CarryStep ==
  ASSUME NEW s \in Nat \ {0}, NEW c \in Nat, NEW r \in Nat, c <= 255 * s, r <= s - 1
  PROVE  (c + r) \div 256 <= s - 1
<1>1. PICK q \in Nat : q = c + r
  OBVIOUS
<1>2. q < 256 * s
  BY <1>1, SMT
<1>3. q \div 256 < s
  BY ONLY <1>2, q \in Nat, s \in Nat, SMT
<1>4. q \div 256 \in Nat
  BY SMT
<1> QED BY <1>1, <1>3, <1>4

LEMMA CarryIsSmall ==
  ASSUME NEW col \in [0 .. 11 -> Nat], NEW sum, Carried(sum, col), NEW s \in Nat \ {0},
         \A k \in 0 .. 7 : col[k] <= 255 * s
  PROVE  sum[7] \div 256 <= s - 1
<1>1. PICK S : S = {k \in Nat : k <= 7 => sum[k] \div 256 <= s - 1}
  OBVIOUS
<1>2. sum[0] = col[0] /\ \A k \in 1 .. 11 : sum[k] = col[k] + (sum[k - 1] \div 256)
  BY DEF Carried
<1>3. 0 \in S
  <2>1. PICK c \in Nat : c = col[0]
    OBVIOUS
  <2>2. c <= 255 * s
    BY <2>1
  <2>3. (c + 0) \div 256 <= s - 1
    BY <2>2, CarryStep
  <2>4. sum[0] \div 256 <= s - 1
    BY <1>2, <2>1, <2>3
  <2> QED BY <1>1, <2>4
<1>4. ASSUME NEW k \in Nat, k \in S PROVE k + 1 \in S
  <2>1. SUFFICES ASSUME k + 1 <= 7 PROVE sum[k + 1] \div 256 <= s - 1
    BY <1>1
  <2>2. k + 1 \in 1 .. 11 /\ (k + 1) - 1 = k /\ k + 1 \in 0 .. 7 /\ k \in 0 .. 11
    BY <2>1
  <2>3. PICK c : c = col[k + 1]
    OBVIOUS
  <2>4. c \in Nat /\ c <= 255 * s
    BY <2>2, <2>3
  <2>5. PICK q : q = sum[k]
    OBVIOUS
  <2>6. q \in Nat
    BY <2>2, <2>5 DEF Carried
  <2>7. PICK r : r = q \div 256
    OBVIOUS
  <2>8. r \in Nat
    BY <2>6, <2>7
  <2>9. r <= s - 1
    BY <1>1, <1>4, <2>1, <2>5, <2>7
  <2>10. sum[k + 1] = c + r
    BY ONLY <1>2, <2>2, <2>3, <2>5, <2>7
  <2>11. (c + r) \div 256 <= s - 1
    BY ONLY <2>4, <2>8, <2>9, CarryStep, s \in Nat \ {0}
  <2> QED BY ONLY <2>10, <2>11
<1>5. 7 \in S
  <2>1. 7 \in Nat
    OBVIOUS
  <2> QED BY <1>3, <1>4, <2>1, Reached
<1> QED BY <1>1, <1>5

(* The four highest bytes of the sums, as a number.                        *)
Joined(a, b, c, d) == a + 256 * b + (256 * 256) * c + (256 * 256 * 256) * d

LEMMA HighBytes ==
  ASSUME NEW col \in [0 .. 11 -> Nat], NEW sum, Carried(sum, col), NEW r \in Nat,
         r = sum[7] \div 256
  PROVE  Joined(sum[8] % 256, sum[9] % 256, sum[10] % 256, sum[11] % 256)
           <= r + Joined(col[8], col[9], col[10], col[11])
<1>1. /\ sum[8] = col[8] + r
      /\ sum[9] = col[9] + (sum[8] \div 256)
      /\ sum[10] = col[10] + (sum[9] \div 256)
      /\ sum[11] = col[11] + (sum[10] \div 256)
  <2>1. /\ 8 \in 1 .. 11 /\ 9 \in 1 .. 11 /\ 10 \in 1 .. 11 /\ 11 \in 1 .. 11
        /\ 8 - 1 = 7 /\ 9 - 1 = 8 /\ 10 - 1 = 9 /\ 11 - 1 = 10
    OBVIOUS
  <2>2. \A k \in 1 .. 11 : sum[k] = col[k] + (sum[k - 1] \div 256)
    BY DEF Carried
  <2> QED BY ONLY <2>1, <2>2, r = sum[7] \div 256
<1>2. /\ sum[8] \in Nat /\ sum[9] \in Nat /\ sum[10] \in Nat /\ sum[11] \in Nat
      /\ col[8] \in Nat /\ col[9] \in Nat /\ col[10] \in Nat /\ col[11] \in Nat
  BY DEF Carried
<1>3. PICK a, b, c, d \in Nat : a = sum[8] /\ b = sum[9] /\ c = sum[10] /\ d = sum[11]
  BY <1>2
<1>4. PICK p, q, u, v \in Nat : p = col[8] /\ q = col[9] /\ u = col[10] /\ v = col[11]
  BY <1>2
<1>5. a = p + r /\ b = q + (a \div 256) /\ c = u + (b \div 256) /\ d = v + (c \div 256)
  BY <1>1, <1>3, <1>4
<1>6. Joined(a % 256, b % 256, c % 256, d % 256) <= r + Joined(p, q, u, v)
  BY ONLY <1>5, r \in Nat, a \in Nat, b \in Nat, c \in Nat, d \in Nat,
          p \in Nat, q \in Nat, u \in Nat, v \in Nat, SMT DEF Joined
<1> QED BY ONLY <1>3, <1>4, <1>6

(* The bytes of n, the products of a column, and the column.               *)
Shifts == <<1, 256, 256 * 256, 256 * 256 * 256>>
ByteOf(n, j) == (n \div Shifts[j + 1]) % 256
Part(x, n, k, j) == IF k - j \in 0 .. 7 THEN x[k - j] * ByteOf(n, j) ELSE 0
Column(x, n, k) == Part(x, n, k, 0) + Part(x, n, k, 1) + Part(x, n, k, 2) + Part(x, n, k, 3)

ColumnsOf(x, n) == [k \in 0 .. 11 |-> Column(x, n, k)]
LowBytes(sum) == [k \in 0 .. 11 |-> sum[k] % 256]

LEMMA ProductIs ==
  ASSUME NEW x, NEW n, NEW col, col = ColumnsOf(x, n), col \in [0 .. 11 -> Nat]
  PROVE  \E sum : Carried(sum, col) /\ Product(x, n) = LowBytes(sum)
<1> USE DEF ColumnsOf, LowBytes
<1> DEFINE F(s) == [k \in 0 .. 11 |->
                      Column(x, n, k) + (IF k = 0 THEN 0 ELSE s[k - 1] \div 256)]
           sum == CHOOSE s : s = F(s)
<1>1. Product(x, n) = [k \in 0 .. 11 |-> sum[k] % 256]
  BY DEF Product, Column, Part, ByteOf, Shifts
<1>2. PICK f : Carried(f, col)
  BY CarriedIs
<1>3. f = F(f)
  <2>1. /\ f \in [0 .. 11 -> Nat] /\ f[0] = col[0]
        /\ \A k \in 1 .. 11 : f[k] = col[k] + (f[k - 1] \div 256)
    BY <1>2 DEF Carried
  <2>2. ASSUME NEW k \in 0 .. 11
        PROVE  f[k] = Column(x, n, k) + (IF k = 0 THEN 0 ELSE f[k - 1] \div 256)
    <3>1. col[k] = Column(x, n, k) /\ col[k] \in Nat
      OBVIOUS
    <3>2. CASE k = 0
      <4>1. f[k] = col[k] + 0
        BY <2>1, <3>1, <3>2
      <4> QED BY <3>1, <3>2, <4>1
    <3>3. CASE k # 0
      <4>1. k \in 1 .. 11
        BY <3>3
      <4> QED BY <2>1, <3>1, <3>3, <4>1
    <3> QED BY <3>2, <3>3
  <2>3. f = [k \in 0 .. 11 |-> f[k]]
    BY <2>1
  <2> QED BY <2>2, <2>3
<1>4. sum = F(sum)
  BY <1>3, ZenonT(40)
<1> HIDE DEF sum
<1>5. DOMAIN sum = 0 .. 11
        /\ \A k \in 0 .. 11 : sum[k] = Column(x, n, k) + (IF k = 0 THEN 0 ELSE sum[k - 1] \div 256)
  BY <1>4
<1>6. sum[0] = col[0] /\ \A k \in 1 .. 11 : sum[k] = col[k] + (sum[k - 1] \div 256)
  <2>1. \A k \in 0 .. 11 : col[k] = Column(x, n, k) /\ col[k] \in Nat
    OBVIOUS
  <2>2. sum[0] = col[0] + 0
    BY <1>5, <2>1
  <2>3. \A k \in 1 .. 11 : sum[k] = col[k] + (sum[k - 1] \div 256)
    BY <1>5, <2>1
  <2> QED BY <2>1, <2>2, <2>3
<1>7. \A k \in 0 .. 11 : sum[k] \in Nat
  <2>1. PICK S : S = {k \in Nat : k <= 11 => sum[k] \in Nat}
    OBVIOUS
  <2>2. 0 \in S
    BY <1>6, <2>1
  <2>3. ASSUME NEW k \in Nat, k \in S PROVE k + 1 \in S
    <3>1. SUFFICES ASSUME k + 1 <= 11 PROVE sum[k + 1] \in Nat
      BY <2>1
    <3>2. k + 1 \in 1 .. 11 /\ (k + 1) - 1 = k /\ k + 1 \in 0 .. 11 /\ sum[k] \in Nat
      BY <2>1, <2>3, <3>1
    <3>3. sum[k + 1] = col[k + 1] + (sum[k] \div 256) /\ col[k + 1] \in Nat
      BY <1>6, <3>2
    <3> QED BY <3>2, <3>3
  <2>4. \A k \in Nat : k \in S
    BY <2>2, <2>3, Reached
  <2> QED BY <2>1, <2>4
<1>8. Carried(sum, col)
  <2>1. sum \in [0 .. 11 -> Nat]
    <3>1. sum = [k \in 0 .. 11 |-> sum[k]]
      BY <1>4, <1>5
    <3> QED BY <1>7, <3>1
  <2> QED BY <1>6, <2>1 DEF Carried
<1> QED BY <1>1, <1>8

(* A number below 2^31 and its bytes.                                      *)
BytesAre(n, a, b, c, d) ==
  /\ a = ByteOf(n, 0) /\ b = ByteOf(n, 1) /\ c = ByteOf(n, 2) /\ d = ByteOf(n, 3)
  /\ a \in Byte /\ b \in Byte /\ c \in Byte /\ d \in Byte
  /\ n = Joined(a, b, c, d)

LEMMA BytesOf ==
  ASSUME NEW n \in Nat, n <= MaxBound
  PROVE  \E a, b, c, d : BytesAre(n, a, b, c, d)
<1>1. PICK q \in Nat, a \in 0 .. 255 : n = 256 * q + a /\ q = n \div 256 /\ a = n % 256
  <2>1. n = 256 * (n \div 256) + (n % 256) /\ n \div 256 \in Nat /\ n % 256 \in 0 .. 255
    BY SMT
  <2> QED BY <2>1
<1>2. PICK u \in Nat, b \in 0 .. 255 : q = 256 * u + b /\ b = q % 256
  <2>1. q = 256 * (q \div 256) + (q % 256) /\ q \div 256 \in Nat /\ q % 256 \in 0 .. 255
    BY SMT
  <2> QED BY <2>1
<1>3. PICK v \in Nat, c \in 0 .. 255 : u = 256 * v + c /\ c = u % 256
  <2>1. u = 256 * (u \div 256) + (u % 256) /\ u \div 256 \in Nat /\ u % 256 \in 0 .. 255
    BY SMT
  <2> QED BY <2>1
<1>4. PICK w : w = n \div (256 * 256 * 256)
  OBVIOUS
<1>5. n \div (256 * 256) = u /\ w = v /\ v <= 127
  <2>5. u = 256 * v + c
    BY <1>3
  <2>0. PICK k \in Nat : k = 256 * b + a /\ n = (256 * 256) * u + k /\ k < 256 * 256
    BY <1>1, <1>2, SMT
  <2>1. n \div (256 * 256) = u
    BY ONLY <2>0, u \in Nat, k \in Nat, SMT
  <2>4. PICK l \in Nat : n = (256 * 256 * 256) * v + l /\ l < 256 * 256 * 256
    <3>1. PICK h \in Nat : h = (256 * 256) * c /\ h <= (256 * 256) * 255
      BY ONLY c \in 0 .. 255, SMT
    <3>2. (256 * 256) * u = (256 * 256 * 256) * v + h
      BY ONLY <2>5, <3>1, v \in Nat, c \in 0 .. 255, SMT
    <3>3. h + k \in Nat /\ h + k < 256 * 256 * 256
      BY ONLY <2>0, <3>1, k \in Nat, h \in Nat, SMT
    <3>4. n = (256 * 256 * 256) * v + (h + k)
      BY ONLY <2>0, <3>2, v \in Nat, h \in Nat, k \in Nat, SMT
    <3> QED BY ONLY <3>3, <3>4
  <2>2. n \div (256 * 256 * 256) = v
    BY ONLY <2>4, v \in Nat, l \in Nat, SMT
  <2>3. v <= 127
    BY ONLY <2>4, v \in Nat, l \in Nat, n \in Nat, n <= MaxBound, SMT DEF MaxBound
  <2> QED BY ONLY <1>4, <2>1, <2>2, <2>3, SMT
<1>6. /\ ByteOf(n, 0) = (n \div 1) % 256 /\ ByteOf(n, 1) = (n \div 256) % 256
      /\ ByteOf(n, 2) = (n \div (256 * 256)) % 256 /\ ByteOf(n, 3) = w % 256
  <2>1. 0 + 1 = 1 /\ 1 + 1 = 2 /\ 2 + 1 = 3 /\ 3 + 1 = 4
    OBVIOUS
  <2>2. Shifts[1] = 1 /\ Shifts[2] = 256 /\ Shifts[3] = (256 * 256)
    BY SMT DEF Shifts
  <2>3. n \div Shifts[4] = w
    BY ONLY <1>4, SMT DEF Shifts
  <2> QED BY ONLY <2>1, <2>2, <2>3, SMT DEF ByteOf
<1>7. ByteOf(n, 0) = a
  <2>1. (n \div 1) % 256 = a
    BY <1>1
  <2> QED BY <1>6, <2>1
<1>8. ByteOf(n, 1) = b
  BY <1>1, <1>2, <1>6
<1>9. ByteOf(n, 2) = c
  BY <1>3, <1>5, <1>6
<1>10. ByteOf(n, 3) = v
  <2>1. v % 256 = v
    BY <1>5
  <2> QED BY <1>5, <1>6, <2>1
<1>11. n = Joined(a, b, c, v)
  <2>1. n = a + (256 * b + (256 * 256) * (256 * v + c))
    <3>1. n = 256 * q + a /\ q = 256 * u + b /\ u = 256 * v + c
      <4>1. n = 256 * q + a
        BY ONLY <1>1, Zenon
      <4>2. q = 256 * u + b
        BY ONLY <1>2, Zenon
      <4>3. u = 256 * v + c
        BY ONLY <1>3, Zenon
      <4> QED BY ONLY <4>1, <4>2, <4>3, Zenon
    <3>2. n = a + 256 * (b + 256 * (256 * v + c))
      BY ONLY <3>1, a \in 0 .. 255, b \in 0 .. 255, c \in 0 .. 255, v \in Nat, SMT
    <3> QED BY ONLY <3>2, a \in 0 .. 255, b \in 0 .. 255, c \in 0 .. 255, v \in Nat, SMT
  <2> QED BY ONLY <2>1, a \in 0 .. 255, b \in 0 .. 255, c \in 0 .. 255, v \in Nat, SMT
          DEF Joined
<1>12. a \in Byte /\ b \in Byte /\ c \in Byte /\ v \in Byte
  BY <1>5 DEF Byte
<1>13. BytesAre(n, a, b, c, v)
  BY <1>7, <1>8, <1>9, <1>10, <1>11, <1>12 DEF BytesAre
<1> QED BY <1>13

(* A column is no larger than the bytes of n that take part in it allow.   *)
LEMMA PartIs ==
  ASSUME NEW x \in [0 .. 7 -> Byte], NEW n, NEW k \in Nat, NEW j \in Nat,
         NEW b \in Byte, b = ByteOf(n, j)
  PROVE  /\ Part(x, n, k, j) \in Nat /\ Part(x, n, k, j) <= 255 * b
         /\ k - j > 7 => Part(x, n, k, j) = 0
<1>1. b \in Nat
  BY DEF Byte
<1>2. CASE k - j \in 0 .. 7
  <2>1. PICK a \in Byte : a = x[k - j]
    BY <1>2
  <2>2. Part(x, n, k, j) = a * b
    BY <1>2, <2>1 DEF Part
  <2>3. a * b \in Nat /\ a * b <= 255 * b
    BY ONLY <1>1, <2>1, ByteTimes
  <2>4. ~(k - j > 7)
    BY <1>2
  <2> QED BY <2>2, <2>3, <2>4
<1>3. CASE k - j \notin 0 .. 7
  <2>1. Part(x, n, k, j) = 0
    BY <1>3 DEF Part
  <2> QED BY <1>1, <2>1
<1> QED BY <1>2, <1>3

Columns(col, a, b, c, d) ==
  /\ col \in [0 .. 11 -> Nat]
  /\ \A k \in 0 .. 7 : col[k] <= 255 * (a + b + c + d)
  /\ col[8] <= 255 * (b + c + d) /\ col[9] <= 255 * (c + d) /\ col[10] <= 255 * d
  /\ col[11] = 0

LEMMA ColumnsAre ==
  ASSUME NEW x \in [0 .. 7 -> Byte], NEW n, NEW a, NEW b, NEW c, NEW d,
         BytesAre(n, a, b, c, d), NEW col, col = ColumnsOf(x, n)
  PROVE  Columns(col, a, b, c, d)
<1>1. /\ a \in Byte /\ b \in Byte /\ c \in Byte /\ d \in Byte
      /\ a = ByteOf(n, 0) /\ b = ByteOf(n, 1) /\ c = ByteOf(n, 2) /\ d = ByteOf(n, 3)
  BY DEF BytesAre
<1>2. a \in Nat /\ b \in Nat /\ c \in Nat /\ d \in Nat
  BY <1>1 DEF Byte
<1>3. 0 \in Nat /\ 1 \in Nat /\ 2 \in Nat /\ 3 \in Nat
  OBVIOUS
<1>4. ASSUME NEW k \in 0 .. 11
      PROVE  \E p, q, r, s \in Nat :
               /\ col[k] = p + q + r + s
               /\ p <= 255 * a /\ q <= 255 * b /\ r <= 255 * c /\ s <= 255 * d
               /\ (k - 0 > 7 => p = 0) /\ (k - 1 > 7 => q = 0)
               /\ (k - 2 > 7 => r = 0) /\ (k - 3 > 7 => s = 0)
  <2>1. k \in Nat
    OBVIOUS
  <2>2. PICK p : p = Part(x, n, k, 0)
    OBVIOUS
  <2>3. PICK q : q = Part(x, n, k, 1)
    OBVIOUS
  <2>4. PICK r : r = Part(x, n, k, 2)
    OBVIOUS
  <2>5. PICK s : s = Part(x, n, k, 3)
    OBVIOUS
  <2>6. p \in Nat /\ p <= 255 * a /\ (k - 0 > 7 => p = 0)
    BY <1>1, <1>3, <2>1, <2>2, PartIs
  <2>7. q \in Nat /\ q <= 255 * b /\ (k - 1 > 7 => q = 0)
    BY <1>1, <1>3, <2>1, <2>3, PartIs
  <2>8. r \in Nat /\ r <= 255 * c /\ (k - 2 > 7 => r = 0)
    BY <1>1, <1>3, <2>1, <2>4, PartIs
  <2>9. s \in Nat /\ s <= 255 * d /\ (k - 3 > 7 => s = 0)
    BY <1>1, <1>3, <2>1, <2>5, PartIs
  <2>10. col[k] = p + q + r + s
    BY <2>2, <2>3, <2>4, <2>5 DEF Column, ColumnsOf
  <2> QED BY <2>6, <2>7, <2>8, <2>9, <2>10
<1>5. col \in [0 .. 11 -> Nat]
  <2>1. \A k \in 0 .. 11 : col[k] \in Nat
    <3>1. \A p, q, r, s \in Nat : p + q + r + s \in Nat
      OBVIOUS
    <3> QED BY <1>4, <3>1
  <2> QED BY <2>1 DEF ColumnsOf
<1>6. ASSUME NEW k \in 0 .. 7 PROVE col[k] <= 255 * (a + b + c + d)
  <2>1. k \in 0 .. 11
    OBVIOUS
  <2>2. PICK p, q, r, s \in Nat :
               /\ col[k] = p + q + r + s
               /\ p <= 255 * a /\ q <= 255 * b /\ r <= 255 * c /\ s <= 255 * d
               /\ (k - 0 > 7 => p = 0) /\ (k - 1 > 7 => q = 0)
               /\ (k - 2 > 7 => r = 0) /\ (k - 3 > 7 => s = 0)
    BY <1>4, <2>1
  <2> QED BY <1>2, <2>2
<1>7. ASSUME NEW k \in 8 .. 11 
      PROVE  \E q, r, s \in Nat :
               /\ col[k] = q + r + s /\ q <= 255 * b /\ r <= 255 * c /\ s <= 255 * d
               /\ (k > 8 => q = 0) /\ (k > 9 => r = 0) /\ (k > 10 => s = 0)
  <2>1. k \in 0 .. 11
    OBVIOUS
  <2>2. PICK p, q, r, s \in Nat :
               /\ col[k] = p + q + r + s
               /\ p <= 255 * a /\ q <= 255 * b /\ r <= 255 * c /\ s <= 255 * d
               /\ (k - 0 > 7 => p = 0) /\ (k - 1 > 7 => q = 0)
               /\ (k - 2 > 7 => r = 0) /\ (k - 3 > 7 => s = 0)
    BY <1>4, <2>1
  <2>3. p = 0 /\ (k > 8 => q = 0) /\ (k > 9 => r = 0) /\ (k > 10 => s = 0)
    BY <2>2
  <2>4. col[k] = q + r + s
    BY <2>2, <2>3
  <2> QED BY <2>2, <2>3, <2>4
<1>8. col[8] <= 255 * (b + c + d)
  <2>1. PICK q, r, s \in Nat :
          col[8] = q + r + s /\ q <= 255 * b /\ r <= 255 * c /\ s <= 255 * d
    BY <1>7
  <2> QED BY <1>2, <2>1
<1>9. col[9] <= 255 * (c + d)
  <2>1. PICK q, r, s \in Nat :
          col[9] = q + r + s /\ q = 0 /\ r <= 255 * c /\ s <= 255 * d
    BY <1>7
  <2> QED BY <1>2, <2>1
<1>10. col[10] <= 255 * d
  <2>1. PICK q, r, s \in Nat :
          col[10] = q + r + s /\ q = 0 /\ r = 0 /\ s <= 255 * d
    BY <1>7
  <2> QED BY <1>2, <2>1
<1>11. col[11] = 0
  <2>1. PICK q, r, s \in Nat : col[11] = q + r + s /\ q = 0 /\ r = 0 /\ s = 0
    BY <1>7
  <2> QED BY <2>1
<1> QED BY <1>5, <1>6, <1>8, <1>9, <1>10, <1>11 DEF Columns

(* Four bytes as a number.                                                 *)
LEMMA NumberOfFour ==
  ASSUME NEW s \in [1 .. 4 -> Nat]
  PROVE  Number(s) = Joined(s[4], s[3], s[2], s[1])
<1> DEFINE F(v) == [i \in 0 .. Len(s) |-> IF i = 0 THEN 0 ELSE 256 * v[i - 1] + s[i]]
           value == CHOOSE v : v = F(v)
<1>1. Number(s) = value[Len(s)]
  BY DEF Number
<1>2. Len(s) = 4
  OBVIOUS
<1>3. PICK a, b, c, d \in Nat : a = s[1] /\ b = s[2] /\ c = s[3] /\ d = s[4]
  OBVIOUS
<1>4. PICK g : g = [i \in 0 .. 4 |->
                      IF i = 0 THEN 0 ELSE IF i = 1 THEN a ELSE IF i = 2 THEN 256 * a + b
                      ELSE IF i = 3 THEN 256 * (256 * a + b) + c
                      ELSE 256 * (256 * (256 * a + b) + c) + d]
  OBVIOUS
<1>5. /\ g[0] = 0 /\ g[1] = a /\ g[2] = 256 * a + b /\ g[3] = 256 * (256 * a + b) + c
      /\ g[4] = 256 * (256 * (256 * a + b) + c) + d
  BY <1>4
<1>6. g = F(g)
  <2>1. ASSUME NEW i \in 0 .. 4 PROVE g[i] = IF i = 0 THEN 0 ELSE 256 * g[i - 1] + s[i]
    <3>1. CASE i = 0
      BY <1>5, <3>1
    <3>2. CASE i = 1
      BY <1>3, <1>5, <3>2
    <3>3. CASE i = 2
      BY <1>3, <1>5, <3>3
    <3>4. CASE i = 3
      BY <1>3, <1>5, <3>4
    <3>5. CASE i = 4
      BY <1>3, <1>5, <3>5
    <3> QED BY <3>1, <3>2, <3>3, <3>4, <3>5
  <2>2. g = [i \in 0 .. 4 |-> g[i]]
    BY <1>4
  <2> QED BY <1>2, <2>1, <2>2
<1>7. value = F(value)
  BY <1>6, ZenonT(40)
<1> HIDE DEF value
<1>8. \A i \in 0 .. 4 : value[i] = IF i = 0 THEN 0 ELSE 256 * value[i - 1] + s[i]
  BY <1>2, <1>7
<1>9. value[0] = 0 /\ value[1] = a
  BY <1>3, <1>8
<1>10. value[2] = 256 * a + b
  BY <1>3, <1>8, <1>9
<1>11. value[3] = 256 * (256 * a + b) + c
  BY <1>3, <1>8, <1>10
<1>12. value[4] = 256 * (256 * (256 * a + b) + c) + d
  BY <1>3, <1>8, <1>11
<1>13. 256 * (256 * (256 * a + b) + c) + d = Joined(d, c, b, a)
  BY ONLY a \in Nat, b \in Nat, c \in Nat, d \in Nat, SMT DEF Joined
<1> QED BY <1>1, <1>2, <1>3, <1>12, <1>13

(* boundedFrom's value is below its bound, for every word.                 *)
LEMMA BoundedValueIs ==
  ASSUME NEW x \in [0 .. 7 -> Byte], NEW n \in Nat, n # 0, n <= MaxBound
  PROVE  BoundedValue(x, n) \in 0 .. n - 1
<1>1. PICK a, b, c, d : BytesAre(n, a, b, c, d)
  BY BytesOf
<1>2. /\ a \in Nat /\ b \in Nat /\ c \in Nat /\ d \in Nat
      /\ n = Joined(a, b, c, d)
  BY <1>1, SMTT(30) DEF BytesAre, Byte
<1>3. PICK col : col = ColumnsOf(x, n)
  OBVIOUS
<1>4. Columns(col, a, b, c, d)
  BY ONLY <1>1, <1>3, x \in [0 .. 7 -> Byte], ColumnsAre
<1>5. PICK sum : Carried(sum, col) /\ Product(x, n) = LowBytes(sum)
  <2>1. col \in [0 .. 11 -> Nat]
    BY <1>4 DEF Columns
  <2> QED BY ONLY <1>3, <2>1, ProductIs
<1>6. PICK s \in Nat \ {0} : s = a + b + c + d
  <2>1. a + b + c + d \in Nat
    BY <1>2
  <2>2. a + b + c + d # 0
    BY ONLY <1>2, n # 0, SMT DEF Joined
  <2> QED BY <2>1, <2>2
<1>7. PICK r : r = sum[7] \div 256
  OBVIOUS
<1>8. r \in Nat /\ r <= s - 1
  <2>1. \A k \in 0 .. 7 : col[k] <= 255 * s
    BY <1>4, <1>6 DEF Columns
  <2>2. sum[7] \div 256 <= s - 1
    BY ONLY <1>4, <1>5, <1>6, <2>1, CarryIsSmall DEF Columns
  <2>3. sum[7] \in Nat
    BY <1>5 DEF Carried
  <2> QED BY <1>7, <2>2, <2>3
<1>9. PICK v : v = Joined(sum[8] % 256, sum[9] % 256, sum[10] % 256, sum[11] % 256)
  OBVIOUS
<1>10. v <= r + Joined(col[8], col[9], col[10], col[11])
  <2>1. col \in [0 .. 11 -> Nat]
    BY <1>4 DEF Columns
  <2> QED BY ONLY <1>5, <1>7, <1>8, <1>9, <2>1, HighBytes
<1>11. v < n
  <2>1. PICK e \in Nat, f \in Nat, g \in Nat : e = col[8] /\ f = col[9] /\ g = col[10]
    BY <1>4 DEF Columns
  <2>2. e <= 255 * (b + c + d) /\ f <= 255 * (c + d) /\ g <= 255 * d /\ col[11] = 0
    BY <1>4, <2>1 DEF Columns
  <2>3. v <= r + Joined(e, f, g, 0)
    BY <1>10, <2>1, <2>2
  <2>4. sum[8] \in Nat /\ sum[9] \in Nat /\ sum[10] \in Nat /\ sum[11] \in Nat
    BY <1>5 DEF Carried
  <2>5. v \in Nat
    BY <1>9, <2>4, SMT DEF Joined
  <2> QED BY ONLY <1>2, <1>6, <1>8, <2>1, <2>2, <2>3, <2>5, SMT DEF Joined
<1>12. BoundedValue(x, n) = v /\ v \in Nat
  <2>1. PICK p : p = Product(x, n)
    OBVIOUS
  <2>2. PICK t : t = BigEndian(p, 11, 8)
    OBVIOUS
  <2>3. t = [i \in 1 .. 4 |-> p[12 - i]]
    BY <2>2 DEF BigEndian
  <2>4. \A k \in 8 .. 11 : p[k] = sum[k] % 256 /\ p[k] \in Nat
    <3>1. \A k \in 8 .. 11 : k \in 0 .. 11 /\ sum[k] \in Nat
      BY <1>5 DEF Carried
    <3> QED BY <1>5, <2>1, <3>1 DEF LowBytes
  <2>5. \A i \in 1 .. 4 : 12 - i \in 8 .. 11
    OBVIOUS
  <2>6. t \in [1 .. 4 -> Nat]
    BY ONLY <2>3, <2>4, <2>5
  <2>7. t[4] = p[8] /\ t[3] = p[9] /\ t[2] = p[10] /\ t[1] = p[11]
    BY <2>3
  <2>8. Number(t) = Joined(t[4], t[3], t[2], t[1])
    BY ONLY <2>6, NumberOfFour
  <2>9. Number(t) = v
    BY <1>9, <2>4, <2>7, <2>8
  <2>10. v \in Nat
    <3>1. t[4] \in Nat /\ t[3] \in Nat /\ t[2] \in Nat /\ t[1] \in Nat
      BY <2>6
    <3> QED BY <2>8, <2>9, <3>1, SMT DEF Joined
  <2> QED BY <2>1, <2>2, <2>9, <2>10 DEF BoundedValue
<1> QED BY <1>11, <1>12

-------------------------------------------------------------------------------
(* The decimal digits of a word.                                           *)

LEMMA RowsOf256 == PowersOf256 \in [1 .. 8 -> [1 .. 5 -> Nat]]
<1> DEFINE R == [1 .. 5 -> Nat]
<1>1. /\ PowersOf256[1] \in R /\ PowersOf256[2] \in R /\ PowersOf256[3] \in R
      /\ PowersOf256[4] \in R /\ PowersOf256[5] \in R /\ PowersOf256[6] \in R
      /\ PowersOf256[7] \in R /\ PowersOf256[8] \in R
  BY SMT DEF PowersOf256
<1>2. PowersOf256 = [k \in 1 .. 8 |-> PowersOf256[k]]
  BY SMT DEF PowersOf256
<1>3. \A k \in 1 .. 8 : k = 1 \/ k = 2 \/ k = 3 \/ k = 4 \/ k = 5 \/ k = 6 \/ k = 7 \/ k = 8
  OBVIOUS
<1> HIDE DEF R
<1>4. \A k \in 1 .. 8 : PowersOf256[k] \in R
  BY ONLY <1>1, <1>3
<1>5. PowersOf256 \in [1 .. 8 -> R]
  BY ONLY <1>2, <1>4
<1> QED BY <1>5 DEF R

(* The columns of x in base 10000.                                         *)
Decimal(x, j) ==
  x[0] * PowersOf256[0 + 1][j + 1] + x[1] * PowersOf256[1 + 1][j + 1]
  + x[2] * PowersOf256[2 + 1][j + 1] + x[3] * PowersOf256[3 + 1][j + 1]
  + x[4] * PowersOf256[4 + 1][j + 1] + x[5] * PowersOf256[5 + 1][j + 1]
  + x[6] * PowersOf256[6 + 1][j + 1] + x[7] * PowersOf256[7 + 1][j + 1]

LEMMA DecimalIsNat ==
  ASSUME NEW x \in [0 .. 7 -> Byte], NEW j \in 0 .. 4
  PROVE  Decimal(x, j) \in Nat
<1>1. ASSUME NEW k \in 0 .. 7 PROVE x[k] * PowersOf256[k + 1][j + 1] \in Nat
  <2>1. k + 1 \in 1 .. 8 /\ j + 1 \in 1 .. 5
    OBVIOUS
  <2>2. PICK r \in [1 .. 5 -> Nat] : r = PowersOf256[k + 1]
    BY ONLY <2>1, RowsOf256
  <2>3. PICK a, b \in Nat : a = x[k] /\ b = r[j + 1]
    <3>1. r[j + 1] \in Nat
      BY ONLY <2>1, r \in [1 .. 5 -> Nat]
    <3>2. x[k] \in Nat
      BY SMTT(30) DEF Byte
    <3> QED BY <3>1, <3>2
  <2>4. a * b \in Nat
    OBVIOUS
  <2> QED BY ONLY <2>2, <2>3, <2>4
<1>2. PICK p : p = [k \in 0 .. 7 |-> x[k] * PowersOf256[k + 1][j + 1]]
  OBVIOUS
<1>3. p \in [0 .. 7 -> Nat]
  BY ONLY <1>1, <1>2
<1>4. Decimal(x, j) = p[0] + p[1] + p[2] + p[3] + p[4] + p[5] + p[6] + p[7]
  BY ONLY <1>2 DEF Decimal
<1>5. /\ p[0] \in Nat /\ p[1] \in Nat /\ p[2] \in Nat /\ p[3] \in Nat
      /\ p[4] \in Nat /\ p[5] \in Nat /\ p[6] \in Nat /\ p[7] \in Nat
  BY ONLY <1>3
<1> QED BY ONLY <1>4, <1>5

Myriad == 10000

LEMMA MyriadIs == \A v \in Nat : v \div Myriad \in Nat /\ v % Myriad \in Nat
  BY SMT DEF Myriad

LEMMA Base10000Is ==
  ASSUME NEW x \in [0 .. 7 -> Byte]
  PROVE  Base10000(x) \in [0 .. 4 -> Nat]
<1> DEFINE F(s) == [j \in 0 .. 4 |->
                      Decimal(x, j) + (IF j = 0 THEN 0 ELSE s[j - 1] \div Myriad)]
           sum == CHOOSE s : s = F(s)
<1>1. Base10000(x) = [j \in 0 .. 4 |-> sum[j] % Myriad]
  BY DEF Base10000, Decimal, Myriad
<1>2. PICK g : g = [kv \in (1 .. 4) \X Nat |-> Decimal(x, kv[1]) + (kv[2] \div Myriad)]
  OBVIOUS
<1>3. \A k \in 1 .. 4, v \in Nat : g[<<k, v>>] = Decimal(x, k) + (v \div Myriad)
  BY <1>2
<1>4. \A k \in 1 .. 4, v \in Nat : g[<<k, v>>] \in Nat
  <2>1. \A k \in 1 .. 4 : Decimal(x, k) \in Nat
    BY DecimalIsNat
  <2> QED BY <1>3, <2>1, MyriadIs
<1>5. Decimal(x, 0) \in Nat
  BY DecimalIsNat
<1>6. PICK f : Recursive(f, Decimal(x, 0), g, 4, Nat)
  BY <1>4, <1>5, Recursion
<1>7. /\ f \in [0 .. 4 -> Nat] /\ f[0] = Decimal(x, 0)
      /\ \A k \in 1 .. 4 : f[k] = Decimal(x, k) + (f[k - 1] \div Myriad)
  <2>1. /\ f \in [0 .. 4 -> Nat] /\ f[0] = Decimal(x, 0)
        /\ \A k \in 1 .. 4 : f[k] = g[<<k, f[k - 1]>>]
    BY <1>6 DEF Recursive
  <2>2. \A k \in 1 .. 4 : k - 1 \in 0 .. 4
    OBVIOUS
  <2> QED BY <1>3, <2>1, <2>2
<1>8. f = F(f)
  <2>1. ASSUME NEW j \in 0 .. 4
        PROVE  f[j] = Decimal(x, j) + (IF j = 0 THEN 0 ELSE f[j - 1] \div Myriad)
    <3>1. CASE j = 0
      <4>1. Decimal(x, 0) + 0 = Decimal(x, 0)
        BY <1>5
      <4> QED BY <1>7, <3>1, <4>1
    <3>2. CASE j # 0
      <4>1. j \in 1 .. 4
        BY <3>2
      <4> QED BY <1>7, <3>2, <4>1
    <3> QED BY <3>1, <3>2
  <2>2. f = [j \in 0 .. 4 |-> f[j]]
    BY <1>7
  <2> QED BY <2>1, <2>2
<1>9. sum = F(sum)
  BY <1>8
<1> HIDE DEF sum
<1>10. \A j \in 0 .. 4 :
         sum[j] = Decimal(x, j) + (IF j = 0 THEN 0 ELSE sum[j - 1] \div Myriad)
  BY <1>9
<1>11. \A j \in 0 .. 4 : Decimal(x, j) \in Nat
  BY DecimalIsNat
<1>12. \A v \in Nat : v \div Myriad \in Nat
  BY MyriadIs
<1>13. sum[0] \in Nat
  BY <1>10, <1>11
<1>14. \A j \in 1 .. 4 : sum[j - 1] \in Nat => sum[j] \in Nat
  BY <1>10, <1>11, <1>12
<1>15. sum[1] \in Nat
  <2>1. 1 \in 1 .. 4 /\ 1 - 1 = 0
    OBVIOUS
  <2> QED BY <1>13, <1>14, <2>1
<1>16. sum[2] \in Nat
  <2>1. 2 \in 1 .. 4 /\ 2 - 1 = 1
    OBVIOUS
  <2> QED BY <1>14, <1>15, <2>1
<1>17. sum[3] \in Nat
  <2>1. 3 \in 1 .. 4 /\ 3 - 1 = 2
    OBVIOUS
  <2> QED BY <1>14, <1>16, <2>1
<1>18. sum[4] \in Nat
  <2>1. 4 \in 1 .. 4 /\ 4 - 1 = 3
    OBVIOUS
  <2> QED BY <1>14, <1>17, <2>1
<1>19. \A j \in 0 .. 4 : sum[j] % Myriad \in Nat
  <2>1. \A v \in Nat : v % Myriad \in Nat
    BY MyriadIs
  <2>2. \A j \in 0 .. 4 : j = 0 \/ j = 1 \/ j = 2 \/ j = 3 \/ j = 4
    OBVIOUS
  <2> QED BY <1>13, <1>15, <1>16, <1>17, <1>18, <2>1, <2>2
<1> QED BY <1>1, <1>19

(* The digits of a word are digits.                                        *)
LEMMA DigitsAre ==
  ASSUME NEW x \in [0 .. 7 -> Byte], NEW n \in 0 .. 20
  PROVE  Digits(x, n) \in [1 .. n -> 0 .. 9]
<1>1. PICK b \in [0 .. 4 -> Nat] : b = Base10000(x)
  BY Base10000Is
<1>2. PICK w : w = <<1, 10, 100, 1000>>
  OBVIOUS
<1>3. w[1] = 1 /\ w[2] = 10 /\ w[3] = 100 /\ w[4] = 1000
  BY <1>2
<1>4. Digits(x, n) = [i \in 1 .. n |-> (b[(n - i) \div 4] \div w[((n - i) % 4) + 1]) % 10]
  BY <1>1, <1>2 DEF Digits
<1>5. ASSUME NEW i \in 1 .. n
      PROVE  (b[(n - i) \div 4] \div w[((n - i) % 4) + 1]) % 10 \in 0 .. 9
  <2>1. (n - i) \div 4 \in 0 .. 4 /\ (n - i) % 4 \in 0 .. 3
    OBVIOUS
  <2>2. PICK v \in Nat : v = b[(n - i) \div 4]
    BY <2>1
  <2>3. PICK k \in 0 .. 3 : k = (n - i) % 4
    BY <2>1
  <2>4. w[k + 1] \in {1, 10, 100, 1000}
    <3>1. k = 0 \/ k = 1 \/ k = 2 \/ k = 3
      OBVIOUS
    <3> QED BY <1>3, <3>1
  <2>5. (v \div w[k + 1]) % 10 \in 0 .. 9
    <3>1. \A d \in {1, 10, 100, 1000} : (v \div d) % 10 \in 0 .. 9
      OBVIOUS
    <3> QED BY <2>4, <3>1
  <2> QED BY <2>2, <2>3, <2>5
<1> QED BY <1>4, <1>5

-------------------------------------------------------------------------------
(* The check digit.                                                        *)

SumRuns(f, n, sum) ==
  sum \in [0 .. n -> Nat] /\ sum[0] = 0 /\ \A k \in 1 .. n : sum[k] = sum[k - 1] + f[k]

LEMMA SumToRuns ==
  ASSUME NEW n \in Nat, NEW f, \A i \in 1 .. n : f[i] \in Nat
  PROVE  \E sum : SumRuns(f, n, sum) /\ SumTo(f, n) = sum[n]
<1> DEFINE F(s) == [i \in 0 .. n |-> IF i = 0 THEN 0 ELSE s[i - 1] + f[i]]
           sum == CHOOSE s : s = F(s)
<1>1. SumTo(f, n) = sum[n]
  BY DEF SumTo
<1>2. PICK g : g = [kv \in (1 .. n) \X Nat |-> kv[2] + f[kv[1]]]
  OBVIOUS
<1>3. \A k \in 1 .. n, v \in Nat : g[<<k, v>>] = v + f[k] /\ g[<<k, v>>] \in Nat
  BY <1>2
<1>4. PICK h : Recursive(h, 0, g, n, Nat)
  BY <1>3, Recursion
<1>5. h \in [0 .. n -> Nat] /\ h[0] = 0 /\ \A k \in 1 .. n : h[k] = h[k - 1] + f[k]
  <2>1. h \in [0 .. n -> Nat] /\ h[0] = 0 /\ \A k \in 1 .. n : h[k] = g[<<k, h[k - 1]>>]
    BY <1>4 DEF Recursive
  <2>2. \A k \in 1 .. n : k - 1 \in 0 .. n
    OBVIOUS
  <2> QED BY <1>3, <2>1, <2>2
<1>6. h = F(h)
  <2>1. ASSUME NEW i \in 0 .. n PROVE h[i] = IF i = 0 THEN 0 ELSE h[i - 1] + f[i]
    <3>1. i # 0 => i \in 1 .. n
      OBVIOUS
    <3> QED BY <1>5, <3>1
  <2>2. h = [i \in 0 .. n |-> h[i]]
    BY <1>5
  <2> QED BY <2>1, <2>2
<1>7. sum = F(sum)
  BY <1>6
<1> HIDE DEF sum
<1>8. DOMAIN sum = 0 .. n
      /\ \A i \in 0 .. n : sum[i] = IF i = 0 THEN 0 ELSE sum[i - 1] + f[i]
  BY <1>7
<1>9. sum[0] = 0 /\ \A k \in 1 .. n : sum[k] = sum[k - 1] + f[k]
  <2>1. 0 \in 0 .. n /\ \A k \in 1 .. n : k \in 0 .. n /\ k # 0
    OBVIOUS
  <2> QED BY <1>8, <2>1
<1>10. \A k \in 0 .. n : sum[k] \in Nat
  <2>1. PICK S : S = {k \in Nat : k <= n => sum[k] \in Nat}
    OBVIOUS
  <2>2. 0 \in S
    BY <1>9, <2>1
  <2>3. ASSUME NEW k \in Nat, k \in S PROVE k + 1 \in S
    <3>1. SUFFICES ASSUME k + 1 <= n PROVE sum[k + 1] \in Nat
      BY <2>1
    <3>2. k + 1 \in 1 .. n /\ (k + 1) - 1 = k /\ sum[k] \in Nat
      BY <2>1, <2>3, <3>1
    <3>3. sum[k + 1] = sum[k] + f[k + 1] /\ f[k + 1] \in Nat
      BY <1>9, <3>2
    <3> QED BY <3>2, <3>3
  <2>4. \A k \in Nat : k \in S
    BY <2>2, <2>3, Reached
  <2> QED BY <2>1, <2>4
<1>11. SumRuns(f, n, sum)
  <2>1. sum = [k \in 0 .. n |-> sum[k]]
    BY <1>7, <1>8
  <2>2. sum \in [0 .. n -> Nat]
    BY <1>10, <2>1
  <2> QED BY <1>9, <2>2 DEF SumRuns
<1> QED BY <1>1, <1>11

(* One more summand.                                                       *)
LEMMA SumToNext ==
  ASSUME NEW n \in Nat, NEW f, NEW g,
         \A i \in 1 .. n : f[i] = g[i], \A i \in 1 .. n + 1 : g[i] \in Nat
  PROVE  SumTo(f, n) \in Nat /\ SumTo(g, n + 1) = SumTo(f, n) + g[n + 1]
<1>1. \A i \in 1 .. n : i \in 1 .. n + 1
  OBVIOUS
<1>2. PICK s : SumRuns(f, n, s) /\ SumTo(f, n) = s[n]
  BY <1>1, SumToRuns
<1>3. PICK m \in Nat : m = n + 1
  OBVIOUS
<1>4. PICK t : SumRuns(g, m, t) /\ SumTo(g, m) = t[m]
  BY <1>3, SumToRuns
<1>5. s \in [0 .. n -> Nat] /\ s[0] = 0 /\ \A k \in 1 .. n : s[k] = s[k - 1] + f[k]
  BY <1>2 DEF SumRuns
<1>6. t \in [0 .. m -> Nat] /\ t[0] = 0 /\ \A k \in 1 .. m : t[k] = t[k - 1] + g[k]
  BY <1>4 DEF SumRuns
<1>7. PICK S : S = {k \in Nat : k <= n => s[k] = t[k]}
  OBVIOUS
<1>8. 0 \in S
  BY <1>5, <1>6, <1>7
<1>9. ASSUME NEW k \in Nat, k \in S PROVE k + 1 \in S
  <2>1. SUFFICES ASSUME k + 1 <= n PROVE s[k + 1] = t[k + 1]
    BY <1>7
  <2>2. k + 1 \in 1 .. n /\ k + 1 \in 1 .. m /\ (k + 1) - 1 = k /\ s[k] = t[k]
    BY <1>3, <1>7, <1>9, <2>1
  <2>3. s[k + 1] = s[k] + f[k + 1] /\ t[k + 1] = t[k] + g[k + 1]
    BY <1>5, <1>6, <2>2
  <2> QED BY <2>2, <2>3
<1>10. n \in S
  BY <1>8, <1>9, Reached
<1>11. s[n] = t[n] /\ s[n] \in Nat
  BY <1>5, <1>7, <1>10
<1>12. t[m] = t[n] + g[m]
  <2>1. m \in 1 .. m /\ m - 1 = n
    BY <1>3
  <2> QED BY <1>6, <2>1
<1> QED BY <1>2, <1>3, <1>4, <1>11, <1>12

(* What LuhnValid adds up, of any digits.                                  *)
LuhnValues(p) ==
  [i \in 1 .. Len(p) |-> IF (Len(p) - i) % 2 = 0 THEN p[i]
                         ELSE ((2 * p[i]) \div 10) + ((2 * p[i]) % 10)]
LuhnSum(p) == SumTo(LuhnValues(p), Len(p))

LuhnWeights(p) ==
  [i \in 1 .. Len(p) |-> LET v == IF (Len(p) - i) % 2 = 0 THEN 2 * p[i] ELSE p[i]
                         IN  IF v > 9 THEN v - 9 ELSE v]

(* The digits of twice a digit add up to what luhnCheckDigit makes of it.  *)
LEMMA Doubled ==
  ASSUME NEW d \in 0 .. 9
  PROVE  /\ (IF 2 * d > 9 THEN 2 * d - 9 ELSE 2 * d) = ((2 * d) \div 10) + ((2 * d) % 10)
         /\ ((2 * d) \div 10) + ((2 * d) % 10) \in Nat
OBVIOUS

LEMMA LuhnCloses ==
  ASSUME NEW p \in Seq(0 .. 9), NEW c, c = LuhnCheckDigit(p), NEW q, q = Append(p, c)
  PROVE  c \in 0 .. 9 /\ q \in Seq(0 .. 9) /\ Len(q) = Len(p) + 1 /\ LuhnSum(q) % 10 = 0
<1>1. PICK n \in Nat : n = Len(p)
  OBVIOUS
<1>2. PICK f : f = LuhnWeights(p)
  OBVIOUS
<1>3. c = (10 - (SumTo(f, n) % 10)) % 10
  BY <1>1, <1>2 DEF LuhnCheckDigit, LuhnWeights
<1>4. \A i \in 1 .. n : p[i] \in 0 .. 9
  BY <1>1
<1>5. ASSUME NEW i \in 1 .. n
      PROVE  /\ (n - i) % 2 = 0 => f[i] = ((2 * p[i]) \div 10) + ((2 * p[i]) % 10)
             /\ (n - i) % 2 # 0 => f[i] = p[i]
             /\ f[i] \in Nat
  <2>1. PICK d \in 0 .. 9 : d = p[i]
    BY <1>4
  <2>2. f[i] = LET v == IF (n - i) % 2 = 0 THEN 2 * d ELSE d
               IN  IF v > 9 THEN v - 9 ELSE v
    BY <1>1, <1>2, <2>1 DEF LuhnWeights
  <2>3. CASE (n - i) % 2 = 0
    <3>1. f[i] = IF 2 * d > 9 THEN 2 * d - 9 ELSE 2 * d
      BY <2>2, <2>3
    <3>2. f[i] = ((2 * d) \div 10) + ((2 * d) % 10) /\ f[i] \in Nat
      BY ONLY <3>1, d \in 0 .. 9, Doubled
    <3> QED BY <2>1, <2>3, <3>2
  <2>4. CASE (n - i) % 2 # 0
    <3>1. f[i] = d
      BY <2>2, <2>4
    <3> QED BY <2>1, <2>4, <3>1
  <2> QED BY <2>3, <2>4
<1>6. SumTo(f, n) \in Nat
  <2>1. PICK s : SumRuns(f, n, s) /\ SumTo(f, n) = s[n]
    BY <1>5, SumToRuns
  <2>2. s \in [0 .. n -> Nat]
    BY <2>1 DEF SumRuns
  <2> QED BY <2>1, <2>2
<1>7. PICK s \in Nat : s = SumTo(f, n)
  BY <1>6
<1>8. c \in 0 .. 9 /\ (s + c) % 10 = 0
  <2>1. c = (10 - (s % 10)) % 10
    BY ONLY <1>3, <1>7
  <2>2. PICK r \in 0 .. 9, h \in Nat : r = s % 10 /\ s = 10 * h + r
    <3>1. s = 10 * (s \div 10) + (s % 10) /\ s \div 10 \in Nat /\ s % 10 \in 0 .. 9
      OBVIOUS
    <3> QED BY <3>1
  <2>3. c = IF r = 0 THEN 0 ELSE 10 - r
    BY ONLY <2>1, <2>2, r \in 0 .. 9
  <2>4. s + c = IF r = 0 THEN 10 * h ELSE 10 * (h + 1)
    BY <2>2, <2>3
  <2>5. \A k \in Nat : (10 * k) % 10 = 0
    OBVIOUS
  <2> QED BY ONLY <2>3, <2>4, <2>5, r \in 0 .. 9, h \in Nat
<1>9. q \in Seq(0 .. 9) /\ Len(q) = n + 1 /\ q[n + 1] = c /\ \A i \in 1 .. n : q[i] = p[i]
  BY <1>1, <1>8
<1>10. PICK g : g = LuhnValues(q)
  OBVIOUS
<1>11. \A i \in 1 .. n + 1 :
         g[i] = IF ((n + 1) - i) % 2 = 0 THEN q[i]
                ELSE ((2 * q[i]) \div 10) + ((2 * q[i]) % 10)
  BY <1>9, <1>10 DEF LuhnValues
<1>12. ASSUME NEW i \in 1 .. n PROVE f[i] = g[i]
  <2>1. i \in 1 .. n + 1
    OBVIOUS
  <2>2. ((n + 1) - i) % 2 = 0 <=> (n - i) % 2 # 0
    OBVIOUS
  <2>3. CASE (n - i) % 2 = 0
    <3>1. g[i] = ((2 * q[i]) \div 10) + ((2 * q[i]) % 10)
      BY <1>11, <2>1, <2>2, <2>3
    <3> QED BY <1>5, <1>9, <2>3, <3>1
  <2>4. CASE (n - i) % 2 # 0
    <3>1. g[i] = q[i]
      BY <1>11, <2>1, <2>2, <2>4
    <3> QED BY <1>5, <1>9, <2>4, <3>1
  <2> QED BY <2>3, <2>4
<1>13. g[n + 1] = c
  <2>1. n + 1 \in 1 .. n + 1 /\ ((n + 1) - (n + 1)) % 2 = 0
    OBVIOUS
  <2> QED BY <1>9, <1>11, <2>1
<1>14. \A i \in 1 .. n + 1 : g[i] \in Nat
  <2>1. \A i \in 1 .. n + 1 : i \in 1 .. n \/ i = n + 1
    OBVIOUS
  <2>2. \A i \in 1 .. n : f[i] \in Nat /\ f[i] = g[i]
    BY ONLY <1>5, <1>12
  <2>3. c \in Nat
    <3>1. c \in 0 .. 9
      BY <1>8
    <3> QED BY ONLY <3>1
  <2> QED BY ONLY <1>13, <2>1, <2>2, <2>3
<1>15. SumTo(g, n + 1) = SumTo(f, n) + g[n + 1]
  BY <1>12, <1>14, SumToNext
<1>16. LuhnSum(q) = s + c
  BY <1>7, <1>9, <1>10, <1>13, <1>15 DEF LuhnSum
<1> QED BY <1>1, <1>8, <1>9, <1>16

-------------------------------------------------------------------------------
(* What a step does, by the part it is at.                                 *)

Moves == Given \/ \E x \in Words : Choose(x) \/ DrawDigits(x)
At(part, rest) == todo # <<>> /\ Head(todo) = part /\ Tail(todo) = rest
Adds(s, rest) == out' = out \o s /\ todo' = rest
Keeps == out' = out /\ todo' = todo

LEMMA MovesKeepCall ==
  ASSUME Moves, drawn \in Seq(Words)
  PROVE  /\ call' = call /\ drawn' \in Seq(Words) /\ (drawn # <<>> => drawn' # <<>>)
         /\ todo # <<>>
<1>1. CASE Given
  BY <1>1, SMTT(30) DEF Given
<1>2. ASSUME NEW x \in Words, Choose(x) \/ DrawDigits(x)
      PROVE  call' = call /\ drawn' = Append(drawn, x) /\ todo # <<>>
  BY <1>2 DEF Choose, DrawDigits
<1>3. \A x \in Words : Append(drawn, x) \in Seq(Words) /\ Append(drawn, x) # <<>>
  BY AppendProperties
<1> QED BY <1>1, <1>2, <1>3 DEF Moves

LEMMA PutAdds ==
  ASSUME NEW d, NEW rest, At(Put(d), rest), Moves
  PROVE  Adds(d, rest)
<1>1. Head(todo).do = "put" /\ Head(todo).digits = d
  BY DEF At, Put
<1>2. Given
  BY <1>1 DEF Moves, Choose, DrawDigits
<1> QED BY <1>1, <1>2 DEF Given, At, Adds

LEMMA CheckAdds ==
  ASSUME NEW rest, At(Do("check"), rest), Moves, NEW S, out \in Seq(S),
         NEW c, c = LuhnCheckDigit(Payload)
  PROVE  out' = Append(out, c) /\ todo' = rest
<1>1. Head(todo).do = "check"
  BY DEF At, Do
<1>2. Given
  BY <1>1 DEF Moves, Choose, DrawDigits
<1> QED BY <1>1, <1>2 DEF Given, At

LEMMA FillAdds ==
  ASSUME NEW rest, At(Do("fill"), rest), Moves, NEW n,
         n = Len(call.dst) + ICCIDLength(call) - 1 - Len(out)
  PROVE  out' = out /\ todo' = <<RandomDigits(n)>> \o rest
<1>1. Head(todo).do = "fill"
  BY DEF At, Do
<1>2. Given
  BY <1>1 DEF Moves, Choose, DrawDigits
<1> QED BY <1>1, <1>2 DEF Given, At

LEMMA HexAdds ==
  ASSUME NEW rest, At(Do("hex"), rest), Moves, drawn \in Seq(Words), drawn # <<>>
  PROVE  \E s \in [1 .. 12 -> 0 .. 15] : Adds(s, rest)
<1>1. Head(todo).do = "hex"
  BY DEF At, Do
<1>2. Given
  BY <1>1 DEF Moves, Choose, DrawDigits
<1>3. PICK w : w = drawn[1]
  OBVIOUS
<1>4. w \in [0 .. 7 -> Byte]
  <2>1. drawn[1] \in Words
    OBVIOUS
  <2>2. Words \subseteq [0 .. 7 -> Byte]
    BY TelecomAssumption
  <2> QED BY ONLY <1>3, <2>1, <2>2
<1>5. PICK s : s = [i \in 1 .. 12 |-> LET x == w[(i - 1) \div 2]
                                      IN  IF i % 2 = 1 THEN x % 16 ELSE x \div 16]
  OBVIOUS
<1>6. out' = out \o s /\ todo' = rest
  BY <1>1, <1>2, <1>3, <1>5 DEF Given, At
<1>7. ASSUME NEW i \in 1 .. 12 PROVE s[i] \in 0 .. 15
  <2>1. (i - 1) \div 2 \in 0 .. 7
    BY SMTT(30)
  <2>2. PICK x \in 0 .. 255 : x = w[(i - 1) \div 2]
    BY ONLY <1>4, <2>1 DEF Byte
  <2>3. s[i] = IF i % 2 = 1 THEN x % 16 ELSE x \div 16
    BY <1>5, <2>2
  <2>4. x % 16 \in 0 .. 15 /\ x \div 16 \in 0 .. 15
    OBVIOUS
  <2> QED BY <2>3, <2>4
<1>8. s \in [1 .. 12 -> 0 .. 15]
  BY ONLY <1>5, <1>7
<1> QED BY <1>6, <1>8 DEF Adds

LEMMA DigitsAdd ==
  ASSUME NEW n \in 0 .. 18, NEW rest, <<>> \o rest = rest, At(RandomDigits(n), rest), Moves
  PROVE  Keeps \/ \E s \in [1 .. n -> 0 .. 9] : Adds(s, rest)
<1>1. Head(todo).do = "digits" /\ Head(todo).n = n
  BY SMTT(30) DEF At, RandomDigits
<1>2. PICK x \in Words : DrawDigits(x)
  BY <1>1 DEF Moves, Choose, Given
<1>3. x \in [0 .. 7 -> Byte]
  BY TelecomAssumption
<1>4. PICK take : take = IF n < 18 THEN n ELSE 18
  OBVIOUS
<1>5. take = n /\ ~(n > take) /\ n \in 0 .. 20
  BY <1>4
<1>6. PICK s : s = Digits(x, n)
  OBVIOUS
<1>7. s \in [1 .. n -> 0 .. 9]
  BY ONLY <1>3, <1>5, <1>6, DigitsAre
<1>8. \/ UNCHANGED <<out, todo>>
      \/ /\ out' = out \o Digits(x, IF n < 18 THEN n ELSE 18)
         /\ todo' = (IF n > (IF n < 18 THEN n ELSE 18)
                     THEN <<RandomDigits(n - (IF n < 18 THEN n ELSE 18))>> ELSE <<>>)
                    \o Tail(todo)
  BY <1>1, <1>2 DEF DrawDigits
<1>9. \/ UNCHANGED <<out, todo>>
      \/ out' = out \o s /\ todo' = <<>> \o Tail(todo)
  BY ONLY <1>4, <1>5, <1>6, <1>8
<1>10. Keeps \/ Adds(s, rest)
  BY <1>9 DEF Keeps, Adds, At
<1> QED BY <1>7, <1>10

(* A part chosen with boundedFrom from n values.                           *)
Chosen(part, rest, x, n) ==
  Keeps \/ \E v \in 0 .. n - 1 :
             /\ todo' = rest
             /\ out' = out \o (CASE part.do = "pick" -> part.table[v + 1]
                                 [] part.do = "svn" -> <<v \div 10, v % 10>>
                                 [] OTHER -> <<10 + (v \div 16), v % 16>>)

LEMMA ChoiceAdds ==
  ASSUME NEW part, NEW rest, At(part, rest), Moves, part.do \in {"pick", "svn", "regional"},
         NEW n \in Nat, n = Values(part), n # 0, n <= MaxBound, drawn \in Seq(Words)
  PROVE  drawn' # <<>> /\ \E x \in Words : Chosen(part, rest, x, n)
<1>1. Head(todo).do = part.do
  BY DEF At
<1>2. PICK x \in Words : Choose(x)
  BY <1>1 DEF Moves, DrawDigits, Given
<1>3. x \in [0 .. 7 -> Byte]
  BY TelecomAssumption
<1>4. PICK v : v = BoundedValue(x, n)
  OBVIOUS
<1>5. v \in 0 .. n - 1
  BY ONLY <1>3, <1>4, n \in Nat, n # 0, n <= MaxBound, BoundedValueIs
<1>6. drawn' # <<>>
  <2>1. drawn' = Append(drawn, x)
    BY <1>2 DEF Choose
  <2> QED BY <2>1, AppendProperties
<1>7. \/ UNCHANGED <<out, todo>>
      \/ /\ todo' = Tail(todo)
         /\ out' = out \o (CASE Head(todo).do = "pick"
                                  -> Head(todo).table[BoundedValue(x, Values(Head(todo))) + 1]
                             [] Head(todo).do = "svn"
                                  -> <<BoundedValue(x, Values(Head(todo))) \div 10,
                                       BoundedValue(x, Values(Head(todo))) % 10>>
                             [] OTHER
                                  -> <<10 + (BoundedValue(x, Values(Head(todo))) \div 16),
                                       BoundedValue(x, Values(Head(todo))) % 16>>)
  BY <1>2 DEF Choose
<1>8. Head(todo) = part /\ Tail(todo) = rest
  BY DEF At
<1>9. \/ Keeps
      \/ /\ todo' = rest
         /\ out' = out \o (CASE part.do = "pick" -> part.table[v + 1]
                             [] part.do = "svn" -> <<v \div 10, v % 10>>
                             [] OTHER -> <<10 + (v \div 16), v % 16>>)
  BY ONLY <1>4, <1>7, <1>8, n = Values(part) DEF Keeps
<1>10. Chosen(part, rest, x, n)
  BY <1>5, <1>9 DEF Chosen
<1> QED BY <1>6, <1>10

LEMMA PickAdds ==
  ASSUME NEW table, NEW n \in Nat, n = Len(table), n # 0, n <= MaxBound, NEW rest,
         At(Pick(table), rest), Moves, drawn \in Seq(Words)
  PROVE  Keeps \/ \E i \in 1 .. n : Adds(table[i], rest)
<1>1. PICK part : part = Pick(table)
  OBVIOUS
<1>2. part.do = "pick" /\ part.table = table /\ part.do \in {"pick", "svn", "regional"}
  BY <1>1 DEF Pick
<1>3. n = Values(part)
  BY <1>2 DEF Values
<1>4. PICK x \in Words : Chosen(part, rest, x, n)
  BY <1>1, <1>2, <1>3, ChoiceAdds
<1>5. Keeps \/ \E v \in 0 .. n - 1 : todo' = rest /\ out' = out \o table[v + 1]
  BY <1>2, <1>4 DEF Chosen
<1>6. \A v \in 0 .. n - 1 : v + 1 \in 1 .. n
  OBVIOUS
<1> QED BY <1>5, <1>6 DEF Adds

LEMMA SvnAdds ==
  ASSUME NEW rest, At(Do("svn"), rest), Moves, drawn \in Seq(Words)
  PROVE  Keeps \/ \E s \in [1 .. 2 -> 0 .. 9] : s # <<9, 9>> /\ Adds(s, rest)
<1>1. PICK part : part = Do("svn")
  OBVIOUS
<1>2. part.do = "svn" /\ part.do \in {"pick", "svn", "regional"} /\ part.do # "pick"
  BY <1>1 DEF Do
<1>3. PICK n \in Nat : n = 99
  OBVIOUS
<1>4. n = Values(part) /\ n # 0 /\ n <= MaxBound
  <2>1. n <= MaxBound
    BY <1>3, SMT DEF MaxBound
  <2> QED BY <1>2, <1>3, <2>1 DEF Values
<1>5. PICK x \in Words : Chosen(part, rest, x, n)
  BY <1>1, <1>2, <1>4, ChoiceAdds
<1>6. Keeps \/ \E v \in 0 .. n - 1 : todo' = rest /\ out' = out \o <<v \div 10, v % 10>>
  BY <1>2, <1>5 DEF Chosen
<1>7. ASSUME NEW v \in 0 .. n - 1
      PROVE  <<v \div 10, v % 10>> \in [1 .. 2 -> 0 .. 9] /\ <<v \div 10, v % 10>> # <<9, 9>>
  <2>1. PICK a, b \in 0 .. 9 : a = v \div 10 /\ b = v % 10
    <3>1. v \div 10 \in 0 .. 9 /\ v % 10 \in 0 .. 9
      BY <1>3
    <3> QED BY <3>1
  <2>2. ~(a = 9 /\ b = 9)
    BY <1>3, <2>1
  <2>3. <<a, b>> \in [1 .. 2 -> 0 .. 9] /\ <<a, b>> # <<9, 9>>
    BY <2>2
  <2> QED BY <2>1, <2>3
<1> QED BY <1>6, <1>7 DEF Adds

LEMMA RegionalAdds ==
  ASSUME NEW rest, At(Do("regional"), rest), Moves, drawn \in Seq(Words)
  PROVE  /\ drawn' # <<>>
         /\ Keeps \/ \E s \in [1 .. 2 -> 0 .. 15] : s[1] >= 10 /\ Adds(s, rest)
<1>1. PICK part : part = Do("regional")
  OBVIOUS
<1>2. /\ part.do = "regional" /\ part.do \in {"pick", "svn", "regional"}
      /\ part.do # "pick" /\ part.do # "svn"
  BY <1>1 DEF Do
<1>3. PICK n \in Nat : n = 96
  OBVIOUS
<1>4. n = Values(part) /\ n # 0 /\ n <= MaxBound
  <2>1. n <= MaxBound
    BY <1>3, SMT DEF MaxBound
  <2> QED BY <1>2, <1>3, <2>1 DEF Values
<1>5. drawn' # <<>> /\ \E x \in Words : Chosen(part, rest, x, n)
  BY <1>1, <1>2, <1>4, ChoiceAdds
<1>6. PICK x \in Words : Chosen(part, rest, x, n)
  BY <1>5
<1>7. \/ Keeps
      \/ \E v \in 0 .. n - 1 : todo' = rest /\ out' = out \o <<10 + (v \div 16), v % 16>>
  BY <1>2, <1>6 DEF Chosen
<1>8. ASSUME NEW v \in 0 .. n - 1
      PROVE  /\ <<10 + (v \div 16), v % 16>> \in [1 .. 2 -> 0 .. 15]
             /\ <<10 + (v \div 16), v % 16>>[1] >= 10
  <2>1. PICK a, b \in 0 .. 15 : a = 10 + (v \div 16) /\ b = v % 16 /\ a >= 10
    <3>1. 10 + (v \div 16) \in 10 .. 15 /\ v % 16 \in 0 .. 15
      BY <1>3
    <3> QED BY <3>1
  <2>2. <<a, b>> \in [1 .. 2 -> 0 .. 15] /\ <<a, b>>[1] >= 10
    BY <2>1
  <2> QED BY <2>1, <2>2
<1> QED BY <1>5, <1>7, <1>8 DEF Adds

-------------------------------------------------------------------------------
(* What an identifier is after each of its parts.                          *)

Starting(c) ==
  CASE c.kind = "MEID" -> {<<r>> : r \in 10 .. 15}
    [] c.kind = "ICCID" -> IF c.iin # <<>> THEN {c.iin}
                           ELSE {<<8, 9>> \o code : code \in ToSet(CountryCodes)}
    [] OTHER -> IF c.tac # <<>> THEN {c.tac}
                ELSE IF c.test THEN {<<0, 0>>} ELSE ToSet(ReportingBodyIDs)

Led(c, p) == \E s \in Starting(c) : IsPrefix(s, p)

(* n digits that start as they should.                                     *)
Digital(c, p, n) == p \in Seq(0 .. 9) /\ Len(p) = n /\ Led(c, p)

Ending(c) ==
  IF c.kind = "IMEI" THEN Do("check") ELSE IF c.svn # <<>> THEN Put(c.svn) ELSE Do("svn")

(* An IMEISV's software version.                                           *)
Versioned(c, p) ==
  \E s \in [1 .. 2 -> 0 .. 9] :
    s # <<9, 9>> /\ p[15] = s[1] /\ p[16] = s[2] /\ (c.svn # <<>> => c.svn = s)

Equipment(c, t, p) ==
  \/ p = <<>> /\ c.tac # <<>> /\ t = <<Put(c.tac), RandomDigits(6), Ending(c)>>
  \/ /\ p = <<>> /\ c.tac = <<>>
     /\ t = <<IF c.test THEN Put(<<0, 0>>) ELSE Pick(ReportingBodyIDs),
              RandomDigits(6), RandomDigits(6), Ending(c)>>
  \/ Digital(c, p, 2) /\ t = <<RandomDigits(6), RandomDigits(6), Ending(c)>>
  \/ Digital(c, p, 8) /\ t = <<RandomDigits(6), Ending(c)>>
  \/ Digital(c, p, 14) /\ t = <<Ending(c)>>
  \/ t = <<>> /\ IF c.kind = "IMEI" THEN Digital(c, p, 15) /\ LuhnSum(p) % 10 = 0
                 ELSE Digital(c, p, 16) /\ Versioned(c, p)

Card(c, t, p) ==
  LET n == ICCIDLength(c)
  IN  \/ p = <<>> /\ c.iin # <<>> /\ t = <<Put(c.iin), Do("fill"), Do("check")>>
      \/ /\ p = <<>> /\ c.iin = <<>>
         /\ t = <<Put(<<8, 9>>), Pick(CountryCodes), Do("fill"), Do("check")>>
      \/ p = <<8, 9>> /\ c.iin = <<>> /\ t = <<Pick(CountryCodes), Do("fill"), Do("check")>>
      \/ \E k \in 3 .. 7 :
           Digital(c, p, k) /\ (\/ t = <<Do("fill"), Do("check")>>
                                \/ t = <<RandomDigits(n - 1 - k), Do("check")>>)
      \/ Digital(c, p, n - 1) /\ t = <<Do("check")>>
      \/ Digital(c, p, n) /\ LuhnSum(p) % 10 = 0 /\ t = <<>>

Mobile(t, p, d) ==
  \/ p = <<>> /\ t = <<Do("regional"), Do("hex")>>
  \/ /\ p \in [1 .. 2 -> 0 .. 15] /\ p[1] >= 10
     /\ t = <<Do("hex")>> /\ d # <<>>
  \/ p \in [1 .. 14 -> 0 .. 15] /\ p[1] >= 10 /\ t = <<>>

Stage(c, t, p, d) ==
  /\ c.kind \in {"IMEI", "IMEISV"} => Equipment(c, t, p)
  /\ c.kind = "ICCID" => Card(c, t, p)
  /\ c.kind = "MEID" => Mobile(t, p, d)

Partly(c, t, p, d) ==
  p \in Seq(0 .. 15) /\ IF Refuses(c) THEN p = <<>> /\ t = <<>> ELSE Stage(c, t, p, d)

IInv ==
  /\ call \in Calls
  /\ drawn \in Seq(Words)
  /\ \E p : out = call.dst \o p /\ Partly(call, todo, p, drawn)

-------------------------------------------------------------------------------
(* Sequences, and how digits go after others.                              *)

LEMMA PrefixIs ==
  ASSUME NEW S, NEW s \in Seq(S), NEW t \in Seq(S)
  PROVE  IsPrefix(s, t) <=> Len(s) <= Len(t) /\ \A i \in 1 .. Len(s) : s[i] = t[i]
<1>1. PICK n \in Nat : n = Len(s)
  OBVIOUS
<1>2. PICK m \in Nat : m = Len(t)
  OBVIOUS
<1>3. SUFFICES ASSUME n <= m
               PROVE  SubSeq(s, 1, n) = SubSeq(t, 1, n) <=> \A i \in 1 .. n : s[i] = t[i]
  BY <1>1, <1>2 DEF IsPrefix
<1>4. /\ \A i \in 1 .. n : SubSeq(s, 1, n)[i] = s[i]
      /\ \A i \in 1 .. n : SubSeq(t, 1, n)[i] = t[i]
  BY <1>1, <1>2, <1>3
<1>5. SubSeq(s, 1, n) = [i \in 1 .. n |-> s[i]] /\ SubSeq(t, 1, n) = [i \in 1 .. n |-> t[i]]
  BY <1>1, <1>2, <1>3
<1> QED BY <1>4, <1>5

LEMMA RunIsSeq ==
  ASSUME NEW S, NEW n \in Nat, NEW s \in [1 .. n -> S]
  PROVE  s \in Seq(S) /\ Len(s) = n
OBVIOUS

(* q is p and after it the n characters of s.                              *)
Joins(q, p, s, n, S) ==
  /\ q = p \o s /\ q \in Seq(S) /\ Len(q) = Len(p) + n
  /\ \A i \in 1 .. Len(p) : q[i] = p[i]
  /\ \A i \in 1 .. n : q[Len(p) + i] = s[i]

LEMMA Longer ==
  ASSUME NEW S, NEW p \in Seq(S), NEW n \in Nat, NEW s \in [1 .. n -> S], NEW q, q = p \o s
  PROVE  Joins(q, p, s, n, S)
<1>1. s \in Seq(S) /\ Len(s) = n
  BY RunIsSeq
<1>2. PICK m \in Nat : m = Len(p)
  OBVIOUS
<1>3. /\ q \in Seq(S) /\ Len(q) = m + n
      /\ \A i \in 1 .. m + n : q[i] = IF i <= m THEN p[i] ELSE s[i - m]
  BY <1>1, <1>2, ConcatProperties
<1>4. \A i \in 1 .. m : i \in 1 .. m + n /\ i <= m
  OBVIOUS
<1>5. \A i \in 1 .. n : m + i \in 1 .. m + n /\ ~(m + i <= m) /\ (m + i) - m = i
  OBVIOUS
<1> QED BY <1>1, <1>2, <1>3, <1>4, <1>5 DEF Joins

(* The digits an identifier may start with.                                *)
LEMMA StartingIs ==
  ASSUME NEW c \in Calls, c.kind # "MEID", ~Refuses(c), NEW s \in Starting(c)
  PROVE  s \in Seq(0 .. 16)
<1>1. c \in CallFields
  BY TelecomAssumption
<1>2. c.tac \in Seq(0 .. 16) /\ c.iin \in Seq(0 .. 16)
  BY <1>1 DEF CallFields, Strings
<1>3. <<8, 9>> \in Seq(0 .. 16) /\ <<0, 0>> \in Seq(0 .. 16)
  OBVIOUS
<1>4. ASSUME NEW code \in ToSet(CountryCodes) PROVE <<8, 9>> \o code \in Seq(0 .. 16)
  <2>1. PICK k \in 1 .. 3 : code \in [1 .. k -> 0 .. 9]
    BY TelecomAssumption DEF ToSet
  <2>2. code \in Seq(0 .. 16)
    BY <2>1
  <2> QED BY <1>3, <2>2, ConcatProperties
<1>5. ASSUME NEW id \in ToSet(ReportingBodyIDs) PROVE id \in Seq(0 .. 16)
  <2>1. id \in [1 .. 2 -> 0 .. 9]
    BY TelecomAssumption DEF ToSet
  <2>2. PICK n \in Nat : n = 2
    OBVIOUS
  <2>3. id \in [1 .. n -> 0 .. 16]
    <3>1. \A v \in 0 .. 9 : v \in 0 .. 16
      OBVIOUS
    <3> QED BY ONLY <2>1, <2>2, <3>1
  <2> QED BY ONLY <2>3, n \in Nat, RunIsSeq
<1>6. CASE c.kind = "ICCID"
  <2>1. s \in IF c.iin # <<>> THEN {c.iin}
              ELSE {<<8, 9>> \o code : code \in ToSet(CountryCodes)}
    BY <1>6 DEF Starting
  <2> QED BY <1>2, <1>4, <2>1
<1>7. CASE c.kind # "ICCID"
  <2>1. s \in IF c.tac # <<>> THEN {c.tac}
              ELSE IF c.test THEN {<<0, 0>>} ELSE ToSet(ReportingBodyIDs)
    BY <1>7 DEF Starting
  <2> QED BY <1>2, <1>3, <1>5, <2>1
<1> QED BY <1>6, <1>7

LEMMA DigitalStarts ==
  ASSUME NEW c \in Calls, NEW s \in Starting(c), s \in Seq(0 .. 9), NEW n, n = Len(s)
  PROVE  Digital(c, s, n)
<1>1. IsPrefix(s, s)
  BY PrefixIs
<1> QED BY <1>1 DEF Digital, Led

LEMMA DigitalGrows ==
  ASSUME NEW c \in Calls, c.kind # "MEID", ~Refuses(c), NEW n \in Nat, NEW m \in Nat,
         NEW p, Digital(c, p, n), NEW s \in [1 .. m -> 0 .. 9], NEW k, k = n + m
  PROVE  Digital(c, p \o s, k)
<1>1. p \in Seq(0 .. 9) /\ Len(p) = n /\ \E h \in Starting(c) : IsPrefix(h, p)
  BY DEF Digital, Led
<1>2. /\ p \o s \in Seq(0 .. 9) /\ Len(p \o s) = n + m
      /\ \A i \in 1 .. n : (p \o s)[i] = p[i]
  <2>1. PICK S : S = 0 .. 9
    OBVIOUS
  <2>2. p \in Seq(S) /\ Len(p) = n /\ s \in [1 .. m -> S]
    BY <1>1, <2>1
  <2>3. Joins(p \o s, p, s, m, S)
    BY ONLY <2>2, m \in Nat, Longer
  <2> QED BY ONLY <2>1, <2>2, <2>3 DEF Joins
<1>3. PICK h \in Starting(c) : IsPrefix(h, p)
  BY <1>1
<1>4. h \in Seq(0 .. 16)
  BY StartingIs
<1>5. p \in Seq(0 .. 16) /\ p \o s \in Seq(0 .. 16)
  BY <1>1, <1>2
<1>6. Len(h) <= n /\ \A i \in 1 .. Len(h) : h[i] = p[i]
  BY <1>1, <1>3, <1>4, <1>5, PrefixIs
<1>7. Len(h) <= Len(p \o s) /\ \A i \in 1 .. Len(h) : h[i] = (p \o s)[i]
  <2>1. Len(h) \in Nat
    BY <1>4
  <2>2. \A i \in 1 .. Len(h) : i \in 1 .. n
    BY <1>6, <2>1
  <2> QED BY <1>2, <1>6, <2>1, <2>2
<1>8. IsPrefix(h, p \o s)
  BY <1>4, <1>5, <1>7, PrefixIs
<1> QED BY <1>2, <1>8 DEF Digital, Led

(* What a call that is not refused has been given.                         *)
LEMMA Accepted ==
  ASSUME NEW c \in Calls, ~Refuses(c)
  PROVE  /\ c.kind \in {"IMEI", "IMEISV", "ICCID", "MEID"} /\ c.dst \in Seq(0 .. 16)
         /\ c.kind \in {"IMEI", "IMEISV"} /\ c.tac # <<>> => c.tac \in [1 .. 8 -> 0 .. 9]
         /\ c.kind = "IMEISV" /\ c.svn # <<>> =>
              c.svn \in [1 .. 2 -> 0 .. 9] /\ c.svn # <<9, 9>>
         /\ c.kind = "ICCID" => ICCIDLength(c) \in 18 .. 20
         /\ c.kind = "ICCID" /\ c.iin # <<>> =>
              c.iin \in Seq(0 .. 9) /\ Len(c.iin) \in 3 .. 7
<1>1. c \in CallFields
  BY TelecomAssumption
<1>2. /\ c.kind \in {"IMEI", "IMEISV", "ICCID", "MEID"} /\ c.dst \in Seq(0 .. 16)
      /\ c.tac \in Seq(0 .. 16) /\ c.svn \in Seq(0 .. 16) /\ c.iin \in Seq(0 .. 16)
  BY <1>1 DEF CallFields, Strings
<1>3. ASSUME NEW s \in Seq(0 .. 16), NEW min \in Nat, NEW max \in Nat, IsDigits(s, min, max)
      PROVE  s \in Seq(0 .. 9) /\ Len(s) \in min .. max /\ s \in [1 .. Len(s) -> 0 .. 9]
  <2>1. Len(s) \in min .. max /\ \A i \in 1 .. Len(s) : s[i] <= 9
    BY <1>3 DEF IsDigits
  <2>2. \A i \in 1 .. Len(s) : s[i] \in 0 .. 9
    <3>1. \A i \in 1 .. Len(s) : s[i] \in 0 .. 16
      OBVIOUS
    <3>2. \A v \in 0 .. 16 : v <= 9 => v \in 0 .. 9
      OBVIOUS
    <3> QED BY <2>1, <3>1, <3>2
  <2> QED BY <2>1, <2>2
<1>4. \A s \in Seq(0 .. 16) : IsDigits(s, 8, 8) => s \in [1 .. 8 -> 0 .. 9]
  <2>1. SUFFICES ASSUME NEW s \in Seq(0 .. 16), IsDigits(s, 8, 8)
                 PROVE  s \in [1 .. 8 -> 0 .. 9]
    OBVIOUS
  <2>2. Len(s) \in 8 .. 8 /\ s \in [1 .. Len(s) -> 0 .. 9]
    BY <1>3, <2>1
  <2>3. Len(s) = 8
    BY <2>2
  <2> QED BY <2>2, <2>3
<1>5. \A s \in Seq(0 .. 16) : IsDigits(s, 2, 2) => s \in [1 .. 2 -> 0 .. 9]
  <2>1. SUFFICES ASSUME NEW s \in Seq(0 .. 16), IsDigits(s, 2, 2)
                 PROVE  s \in [1 .. 2 -> 0 .. 9]
    OBVIOUS
  <2>2. Len(s) \in 2 .. 2 /\ s \in [1 .. Len(s) -> 0 .. 9]
    BY <1>3, <2>1
  <2>3. Len(s) = 2
    BY <2>2
  <2> QED BY <2>2, <2>3
<1>6. CASE c.kind = "IMEI"
  <2>1. c.tac # <<>> => IsDigits(c.tac, 8, 8)
    BY <1>6 DEF Refuses
  <2> QED BY <1>2, <1>4, <1>6, <2>1
<1>7. CASE c.kind = "IMEISV"
  <2>1. /\ c.tac # <<>> => IsDigits(c.tac, 8, 8)
        /\ c.svn # <<>> => IsDigits(c.svn, 2, 2) /\ c.svn # <<9, 9>>
    BY <1>7 DEF Refuses
  <2> QED BY <1>2, <1>4, <1>5, <1>7, <2>1
<1>8. CASE c.kind = "ICCID"
  <2>1. /\ ICCIDLength(c) \in 18 .. 20
        /\ c.iin # <<>> => IsDigits(c.iin, 3, 7)
    BY <1>8 DEF Refuses
  <2>2. c.iin # <<>> => c.iin \in Seq(0 .. 9) /\ Len(c.iin) \in 3 .. 7
    BY <1>2, <1>3, <2>1
  <2> QED BY <1>2, <1>8, <2>1, <2>2
<1>9. CASE c.kind = "MEID"
  BY <1>2, <1>9
<1> QED BY <1>2, <1>6, <1>7, <1>8, <1>9

-------------------------------------------------------------------------------
(* The parts of a list one by one, and the payload they add to.            *)

LEMMA TuplesJoin ==
  ASSUME NEW S, NEW x \in Seq(S), NEW y \in Seq(S), NEW z \in Seq(S),
         Len(z) = Len(x) + Len(y), \A i \in 1 .. Len(x) : z[i] = x[i],
         \A i \in 1 .. Len(y) : z[Len(x) + i] = y[i]
  PROVE  x \o y = z
<1>1. PICK n \in Nat, m \in Nat : n = Len(x) /\ m = Len(y)
  OBVIOUS
<1>2. PICK w : w = x \o y
  OBVIOUS
<1>3. /\ w \in Seq(S) /\ Len(w) = n + m
      /\ \A i \in 1 .. n + m : w[i] = IF i <= n THEN x[i] ELSE y[i - n]
  BY <1>1, <1>2, ConcatProperties
<1>4. ASSUME NEW i \in 1 .. n + m PROVE w[i] = z[i]
  <2>1. CASE i <= n
    BY <1>1, <1>3, <2>1
  <2>2. CASE ~(i <= n)
    <3>1. PICK j \in 1 .. m : i = n + j /\ i - n = j
      <4>1. i - n \in 1 .. m /\ i = n + (i - n)
        BY <2>2
      <4> QED BY <4>1
    <3> QED BY <1>1, <1>3, <2>2, <3>1
  <2> QED BY <2>1, <2>2
<1>5. w = z
  BY <1>1, <1>3, <1>4, SeqEqual
<1> QED BY <1>2, <1>5

LEMMA SeqIsSeq ==
  ASSUME NEW S, NEW T, T \subseteq S, NEW p \in Seq(T)
  PROVE  p \in Seq(S)
<1>1. PICK k \in Nat : k = Len(p)
  OBVIOUS
<1>2. p \in [1 .. k -> S]
  BY <1>1
<1> QED BY ONLY k \in Nat, <1>2, RunIsSeq

LEMMA PairsJoin ==
  ASSUME NEW a, NEW b, NEW c, NEW d
  PROVE  <<a, b>> \o <<c, d>> = <<a, b, c, d>>
<1>0. PICK S : S = {a, b, c, d}
  OBVIOUS
<1>1. PICK x : x = <<a, b>>
  OBVIOUS
<1>2. PICK y : y = <<c, d>>
  OBVIOUS
<1>3. PICK z : z = <<a, b, c, d>>
  OBVIOUS
<1>4. /\ x \in Seq(S) /\ Len(x) = 2 /\ x[1] = a /\ x[2] = b
      /\ y \in Seq(S) /\ Len(y) = 2 /\ y[1] = c /\ y[2] = d
      /\ z \in Seq(S) /\ Len(z) = 4 /\ z[1] = a /\ z[2] = b /\ z[3] = c /\ z[4] = d
  BY <1>0, <1>1, <1>2, <1>3
<1>5. Len(z) = Len(x) + Len(y)
  BY <1>4
<1>6. /\ \A i \in 1 .. Len(x) : z[i] = x[i]
      /\ \A i \in 1 .. Len(y) : z[Len(x) + i] = y[i]
  BY <1>4
<1>7. x \o y = z
  BY ONLY <1>4, <1>5, <1>6, TuplesJoin
<1> QED BY ONLY <1>1, <1>2, <1>3, <1>7

LEMMA TupleAt ==
  ASSUME NEW a, NEW b, NEW c, NEW d
  PROVE  /\ todo = <<a>> => At(a, <<>>)
         /\ todo = <<a, b>> => At(a, <<b>>)
         /\ todo = <<a, b, c>> => At(a, <<b, c>>)
         /\ todo = <<a, b, c, d>> => At(a, <<b, c, d>>)
         /\ <<>> \o <<a>> = <<a>> /\ <<>> \o <<a, b>> = <<a, b>>
         /\ <<>> \o <<a, b, c>> = <<a, b, c>> /\ <<a>> \o <<b>> = <<a, b>>
         /\ <<a>> \o <<b, c>> = <<a, b, c>> /\ <<a, b>> \o <<c, d>> = <<a, b, c, d>>
<1>1. todo = <<a>> => At(a, <<>>)
  BY DEF At
<1>2. todo = <<a, b>> => At(a, <<b>>)
  BY DEF At
<1>3. todo = <<a, b, c>> => At(a, <<b, c>>)
  BY DEF At
<1>4. todo = <<a, b, c, d>> => At(a, <<b, c, d>>)
  BY DEF At
<1>5. <<>> \o <<a>> = <<a>> /\ <<>> \o <<a, b>> = <<a, b>>
  OBVIOUS
<1>6. <<>> \o <<a, b, c>> = <<a, b, c>>
  OBVIOUS
<1>0. PICK S : S = {a, b, c, d}
  OBVIOUS
<1>7. <<a>> \o <<b>> = <<a, b>>
  <2>1. PICK x : x = <<a>>
    OBVIOUS
  <2>2. PICK y : y = <<b>>
    OBVIOUS
  <2>3. PICK z : z = <<a, b>>
    OBVIOUS
  <2>4. /\ x \in Seq(S) /\ Len(x) = 1 /\ x[1] = a
        /\ y \in Seq(S) /\ Len(y) = 1 /\ y[1] = b
        /\ z \in Seq(S) /\ Len(z) = 2 /\ z[1] = a /\ z[2] = b
    BY <1>0, <2>1, <2>2, <2>3
  <2>5. Len(z) = Len(x) + Len(y)
    BY <2>4
  <2>6. /\ \A i \in 1 .. Len(x) : z[i] = x[i]
        /\ \A i \in 1 .. Len(y) : z[Len(x) + i] = y[i]
    BY <2>4
  <2>7. x \o y = z
    BY ONLY <2>4, <2>5, <2>6, TuplesJoin
  <2> QED BY ONLY <2>1, <2>2, <2>3, <2>7
<1>8. <<a>> \o <<b, c>> = <<a, b, c>>
  <2>1. PICK x : x = <<a>>
    OBVIOUS
  <2>2. PICK y : y = <<b, c>>
    OBVIOUS
  <2>3. PICK z : z = <<a, b, c>>
    OBVIOUS
  <2>4. /\ x \in Seq(S) /\ Len(x) = 1 /\ x[1] = a
        /\ y \in Seq(S) /\ Len(y) = 2 /\ y[1] = b /\ y[2] = c
        /\ z \in Seq(S) /\ Len(z) = 3 /\ z[1] = a /\ z[2] = b /\ z[3] = c
    BY <1>0, <2>1, <2>2, <2>3
  <2>5. Len(z) = Len(x) + Len(y)
    BY <2>4
  <2>6. /\ \A i \in 1 .. Len(x) : z[i] = x[i]
        /\ \A i \in 1 .. Len(y) : z[Len(x) + i] = y[i]
    BY <2>4
  <2>7. x \o y = z
    BY ONLY <2>4, <2>5, <2>6, TuplesJoin
  <2> QED BY ONLY <2>1, <2>2, <2>3, <2>7
<1>9. <<a, b>> \o <<c, d>> = <<a, b, c, d>>
  BY ONLY PairsJoin
<1> QED BY ONLY <1>1, <1>2, <1>3, <1>4, <1>5, <1>6, <1>7, <1>8, <1>9

(* What a part adds goes after the payload.                                *)
LEMMA AddsTo ==
  ASSUME NEW p \in Seq(0 .. 15), call.dst \in Seq(0 .. 16), out = call.dst \o p,
         NEW n \in Nat, NEW s \in [1 .. n -> 0 .. 15], NEW q, q = p \o s, NEW rest,
         Adds(s, rest)
  PROVE  /\ q \in Seq(0 .. 15) /\ out' = call.dst \o q /\ todo' = rest
         /\ p = <<>> => q = s
<1>1. PICK S : S = 0 .. 16
  OBVIOUS
<1>2. \A v \in 0 .. 15 : v \in S
  BY <1>1
<1>3. p \in Seq(S) /\ call.dst \in Seq(S) /\ s \in [1 .. n -> S]
  BY <1>1, <1>2
<1>4. s \in Seq(S)
  BY ONLY <1>3, n \in Nat, RunIsSeq
<1>5. (call.dst \o p) \o s = call.dst \o (p \o s)
  <2>1. PICK d \in Seq(S) : d = call.dst
    BY <1>3
  <2>2. (d \o p) \o s = d \o (p \o s)
    BY ONLY d \in Seq(S), <1>3, <1>4, ConcatAssociative
  <2> QED BY ONLY <2>1, <2>2
<1>6. q \in Seq(0 .. 15) /\ (p = <<>> => q = s)
  <2>1. PICK T : T = 0 .. 15
    OBVIOUS
  <2>2. p \in Seq(T) /\ s \in [1 .. n -> T]
    BY <2>1
  <2>3. s \in Seq(T)
    BY ONLY <2>2, n \in Nat, RunIsSeq
  <2>4. p \o s \in Seq(T)
    BY ONLY <2>2, <2>3, ConcatProperties
  <2>5. <<>> \o s = s
    BY ONLY <2>3, ConcatEmptySeq
  <2> QED BY <2>1, <2>4, <2>5
<1> QED BY <1>5, <1>6 DEF Adds

(* m characters from the one after the first n.                            *)
LEMMA RunOf ==
  ASSUME NEW S, NEW q \in Seq(S), NEW n \in Nat, NEW m \in Nat, Len(q) >= n + m,
         NEW s, s = SubSeq(q, n + 1, n + m)
  PROVE  s \in Seq(S) /\ Len(s) = m /\ \A i \in 1 .. m : s[i] = q[n + i]
<1>1. PICK a \in Int, b \in Int : a = n + 1 /\ b = n + m
  OBVIOUS
<1>2. s = SubSeq(q, a, b) /\ 1 <= a /\ b <= Len(q) /\ b + 1 - a = m /\ (m > 0 => a <= b)
  BY <1>1
<1>3. Len(s) = m
  BY <1>1, <1>2
<1>4. ASSUME NEW i \in 1 .. m PROVE s[i] = q[n + i] /\ s[i] \in S
  <2>1. s[i] = q[a + i - 1] /\ a + i - 1 \in 1 .. Len(q)
    BY <1>1, <1>2
  <2> QED BY <1>1, <2>1
<1>5. s \in Seq(S)
  BY <1>2
<1> QED BY <1>3, <1>4, <1>5

LEMMA PayloadIs ==
  ASSUME NEW p \in Seq(0 .. 15), call.dst \in Seq(0 .. 16), out = call.dst \o p
  PROVE  /\ Payload = p /\ out \in Seq(0 .. 16) /\ Len(out) = Len(call.dst) + Len(p)
         /\ SubSeq(out, 1, Len(call.dst)) = call.dst
<1>1. PICK S : S = 0 .. 16
  OBVIOUS
<1>2. PICK d \in Seq(S) : d = call.dst
  BY <1>1
<1>3. p \in Seq(S)
  <2>1. \A v \in 0 .. 15 : v \in S
    BY <1>1
  <2>2. PICK T : T = 0 .. 15
    OBVIOUS
  <2>3. T \subseteq S /\ p \in Seq(T)
    BY <2>1, <2>2
  <2> QED BY ONLY <2>3, SeqIsSeq
<1>4. PICK n \in Nat : n = Len(d)
  OBVIOUS
<1>5. PICK m \in Nat : m = Len(p)
  OBVIOUS
<1>6. /\ out \in Seq(S) /\ Len(out) = n + m
      /\ \A i \in 1 .. n + m : out[i] = IF i <= n THEN d[i] ELSE p[i - n]
  BY <1>2, <1>3, <1>4, <1>5, ConcatProperties
<1>7. PICK s : s = SubSeq(out, n + 1, n + m)
  OBVIOUS
<1>8. s \in Seq(S) /\ Len(s) = m /\ \A i \in 1 .. m : s[i] = out[n + i]
  <2>1. PICK k \in Nat : k = n
    OBVIOUS
  <2>2. s = SubSeq(out, k + 1, k + m) /\ Len(out) >= k + m
    BY <1>6, <1>7, <2>1
  <2>3. s \in Seq(S) /\ Len(s) = m /\ \A i \in 1 .. m : s[i] = out[k + i]
    BY ONLY <1>6, <2>2, k \in Nat, m \in Nat, RunOf
  <2> QED BY ONLY <2>1, <2>3
<1>9. \A i \in 1 .. m : out[n + i] = p[i]
  <2>1. \A i \in 1 .. m : n + i \in 1 .. n + m /\ ~(n + i <= n) /\ (n + i) - n = i
    OBVIOUS
  <2> QED BY <1>6, <2>1
<1>10. s = p
  BY <1>3, <1>5, <1>8, <1>9, SeqEqual
<1>11. PICK h : h = SubSeq(out, 1, n)
  OBVIOUS
<1>12. h \in Seq(S) /\ Len(h) = n /\ \A i \in 1 .. n : h[i] = out[i]
  <2>1. PICK z \in Nat : z = 0
    OBVIOUS
  <2>2. h = SubSeq(out, z + 1, z + n) /\ Len(out) >= z + n
    BY <1>6, <1>11, <2>1
  <2>3. h \in Seq(S) /\ Len(h) = n /\ \A i \in 1 .. n : h[i] = out[z + i]
    BY ONLY <1>6, <2>2, z \in Nat, n \in Nat, RunOf
  <2>4. \A i \in 1 .. n : z + i = i
    BY <2>1
  <2> QED BY <2>3, <2>4
<1>13. \A i \in 1 .. n : out[i] = d[i]
  <2>1. \A i \in 1 .. n : i \in 1 .. n + m /\ i <= n
    OBVIOUS
  <2> QED BY <1>6, <2>1
<1>14. h = d
  BY <1>4, <1>12, <1>13, SeqEqual
<1> QED BY <1>1, <1>2, <1>4, <1>5, <1>6, <1>7, <1>10, <1>11, <1>14 DEF Payload

(* The step from a stage of its list to the next.                          *)
Running(p) ==
  /\ call \in Calls /\ ~Refuses(call) /\ drawn \in Seq(Words)
  /\ p \in Seq(0 .. 15) /\ out = call.dst \o p
  /\ Moves

(* The digits that go after some others.                                   *)
LEMMA DigitsAfter ==
  ASSUME NEW p, Running(p), call.kind # "MEID", NEW n \in Nat, Digital(call, p, n),
         NEW m \in Nat, NEW s \in [1 .. m -> 0 .. 9], NEW rest, Adds(s, rest),
         NEW k, k = n + m
  PROVE  \E q : /\ q \in Seq(0 .. 15) /\ out' = call.dst \o q /\ todo' = rest
                /\ Digital(call, q, k) /\ Joins(q, p, s, m, 0 .. 9)
<1>1. p \in Seq(0 .. 15) /\ out = call.dst \o p /\ call \in Calls /\ ~Refuses(call)
  BY DEF Running
<1>2. call.dst \in Seq(0 .. 16)
  BY ONLY <1>1, Accepted
<1>3. PICK q : q = p \o s
  OBVIOUS
<1>4. s \in [1 .. m -> 0 .. 15]
  <2>1. \A v \in 0 .. 9 : v \in 0 .. 15
    OBVIOUS
  <2> QED BY <2>1
<1>5. q \in Seq(0 .. 15) /\ out' = call.dst \o q /\ todo' = rest
  BY ONLY <1>1, <1>2, <1>3, <1>4, m \in Nat, Adds(s, rest), AddsTo
<1>6. Digital(call, q, k)
  BY <1>1, <1>3, DigitalGrows
<1>7. p \in Seq(0 .. 9)
  BY DEF Digital
<1>8. Joins(q, p, s, m, 0 .. 9)
  BY ONLY <1>3, <1>7, m \in Nat, s \in [1 .. m -> 0 .. 9], Longer
<1> QED BY <1>5, <1>6, <1>8

(* The digits an identifier starts with.                                   *)
LEMMA DigitsFirst ==
  ASSUME NEW p, Running(p), call.kind # "MEID", p = <<>>,
         NEW m \in Nat, NEW s \in [1 .. m -> 0 .. 9], NEW rest, Adds(s, rest)
  PROVE  /\ s \in Seq(0 .. 15) /\ out' = call.dst \o s /\ todo' = rest
         /\ s \in Starting(call) => Digital(call, s, m)
<1>1. p \in Seq(0 .. 15) /\ out = call.dst \o p /\ call \in Calls /\ ~Refuses(call)
  BY DEF Running
<1>2. call.dst \in Seq(0 .. 16)
  BY ONLY <1>1, Accepted
<1>3. PICK q : q = p \o s
  OBVIOUS
<1>4. s \in [1 .. m -> 0 .. 15]
  <2>1. \A v \in 0 .. 9 : v \in 0 .. 15
    OBVIOUS
  <2> QED BY <2>1
<1>5. /\ q \in Seq(0 .. 15) /\ out' = call.dst \o q /\ todo' = rest
      /\ p = <<>> => q = s
  BY ONLY <1>1, <1>2, <1>3, <1>4, m \in Nat, Adds(s, rest), AddsTo
<1>6. s \in Seq(0 .. 9) /\ Len(s) = m
  BY ONLY m \in Nat, s \in [1 .. m -> 0 .. 9], RunIsSeq
<1>7. s \in Starting(call) => Digital(call, s, m)
  BY ONLY <1>1, <1>6, DigitalStarts
<1> QED BY <1>5, <1>7

(* n random digits after some others.                                      *)
LEMMA RandomAfter ==
  ASSUME NEW p, Running(p), call.kind # "MEID", NEW n \in Nat, Digital(call, p, n),
         NEW m \in 0 .. 18, NEW rest, <<>> \o rest = rest, At(RandomDigits(m), rest),
         NEW k, k = n + m
  PROVE  \/ Keeps
         \/ \E q : /\ q \in Seq(0 .. 15) /\ out' = call.dst \o q /\ todo' = rest
                   /\ Digital(call, q, k)
<1>1. Moves
  BY DEF Running
<1>2. Keeps \/ \E s \in [1 .. m -> 0 .. 9] : Adds(s, rest)
  BY <1>1, DigitsAdd
<1>3. ASSUME NEW s \in [1 .. m -> 0 .. 9], Adds(s, rest)
      PROVE  \E q : /\ q \in Seq(0 .. 15) /\ out' = call.dst \o q /\ todo' = rest
                    /\ Digital(call, q, k)
  <2>1. m \in Nat
    OBVIOUS
  <2> QED BY <1>3, <2>1, DigitsAfter
<1> QED BY <1>2, <1>3

(* The check digit after n others.                                         *)
LEMMA CheckAfter ==
  ASSUME NEW p, Running(p), call.kind # "MEID", NEW n \in Nat, Digital(call, p, n),
         At(Do("check"), <<>>), NEW k, k = n + 1
  PROVE  \E q : /\ q \in Seq(0 .. 15) /\ out' = call.dst \o q /\ todo' = <<>>
                /\ Digital(call, q, k) /\ LuhnSum(q) % 10 = 0
<1>1. /\ p \in Seq(0 .. 15) /\ out = call.dst \o p /\ call \in Calls /\ ~Refuses(call)
      /\ Moves /\ p \in Seq(0 .. 9)
  BY DEF Running, Digital
<1>2. call.dst \in Seq(0 .. 16)
  BY ONLY <1>1, Accepted
<1>3. Payload = p /\ out \in Seq(0 .. 16)
  BY ONLY <1>1, <1>2, PayloadIs
<1>4. PICK c : c = LuhnCheckDigit(p)
  OBVIOUS
<1>5. out' = Append(out, c) /\ todo' = <<>>
  BY <1>1, <1>3, <1>4, CheckAdds
<1>6. PICK q : q = Append(p, c)
  OBVIOUS
<1>7. c \in 0 .. 9 /\ LuhnSum(q) % 10 = 0
  BY ONLY <1>1, <1>4, <1>6, LuhnCloses
<1>8. PICK s : s = <<c>>
  OBVIOUS
<1>9. s \in [1 .. 1 -> 0 .. 9] /\ Append(out, c) = out \o s /\ Append(p, c) = p \o s
  <2>1. s \in [1 .. 1 -> 0 .. 9]
    BY <1>7, <1>8
  <2>2. c \in 0 .. 16
    BY <1>7
  <2>3. Append(out, c) = out \o s
    BY ONLY <1>3, <1>8, <2>2, AppendIsConcat
  <2>4. Append(p, c) = p \o s
    BY ONLY <1>1, <1>7, <1>8, AppendIsConcat
  <2> QED BY <2>1, <2>3, <2>4
<1>10. Adds(s, <<>>)
  BY <1>5, <1>9 DEF Adds
<1>11. PICK r : Digital(call, r, k) /\ r \in Seq(0 .. 15) /\ out' = call.dst \o r
                /\ Joins(r, p, s, 1, 0 .. 9)
  <2>1. 1 \in Nat
    OBVIOUS
  <2> QED BY <1>9, <1>10, <2>1, DigitsAfter
<1>12. r = q
  BY <1>6, <1>9, <1>11 DEF Joins
<1> QED BY <1>5, <1>7, <1>11, <1>12

-------------------------------------------------------------------------------
(* The steps of a call for a device.                                       *)

Onward(q, rest) == q \in Seq(0 .. 15) /\ out' = call.dst \o q /\ todo' = rest

LEMMA Onwards ==
  ASSUME NEW p, Running(p)
  PROVE  /\ call \in Calls /\ ~Refuses(call) /\ Moves /\ drawn \in Seq(Words) /\ todo # <<>>
         /\ Keeps => Onward(p, todo)
<1>1. /\ call \in Calls /\ ~Refuses(call) /\ Moves /\ drawn \in Seq(Words)
      /\ p \in Seq(0 .. 15) /\ out = call.dst \o p
  BY DEF Running
<1>2. todo # <<>>
  BY <1>1, MovesKeepCall
<1>3. Keeps => Onward(p, todo)
  BY <1>1 DEF Keeps, Onward
<1> QED BY <1>1, <1>2, <1>3

LEMMA TableIs ==
  /\ \E n \in Nat : n = Len(ReportingBodyIDs) /\ n # 0 /\ n <= MaxBound
  /\ \E n \in Nat : n = Len(CountryCodes) /\ n # 0 /\ n <= MaxBound
<1>1. Len(ReportingBodyIDs) \in 1 .. MaxBound /\ Len(CountryCodes) \in 1 .. MaxBound
  BY TelecomAssumption
<1>2. PICK b \in Nat : b = MaxBound
  BY SMT DEF MaxBound
<1>3. \A v : v \in 1 .. b => v \in Nat /\ v # 0 /\ v <= b
  OBVIOUS
<1> QED BY ONLY <1>1, <1>2, <1>3

LEMMA EquipmentStep ==
  ASSUME NEW p, Running(p), call.kind \in {"IMEI", "IMEISV"}, Equipment(call, todo, p)
  PROVE  \E q, t : Onward(q, t) /\ Equipment(call, t, q)
<1>1. /\ call \in Calls /\ ~Refuses(call) /\ Moves /\ drawn \in Seq(Words) /\ todo # <<>>
      /\ Keeps => Onward(p, todo)
  BY Onwards
<1>2. CASE Keeps
  BY <1>1, <1>2
<1>3. /\ call.kind # "MEID" /\ call.kind # "ICCID"
      /\ call.tac # <<>> => call.tac \in [1 .. 8 -> 0 .. 9]
      /\ call.kind = "IMEISV" /\ call.svn # <<>> =>
           call.svn \in [1 .. 2 -> 0 .. 9] /\ call.svn # <<9, 9>>
  BY <1>1, Accepted
<1>4. PICK e : e = Ending(call)
  OBVIOUS
<1>5. PICK r : r = RandomDigits(6)
  OBVIOUS
<1>6. PICK two, six, eight, fourteen, sixteen \in Nat :
        two = 2 /\ six = 6 /\ eight = 8 /\ fourteen = 14 /\ sixteen = 16
  OBVIOUS
<1>7. six \in 0 .. 18 /\ r = RandomDigits(six)
  BY <1>5, <1>6
<1>8. CASE p = <<>> /\ call.tac # <<>> /\ todo = <<Put(call.tac), r, e>>
  <2>1. At(Put(call.tac), <<r, e>>)
    BY <1>8, TupleAt
  <2>2. Adds(call.tac, <<r, e>>)
    BY <1>1, <2>1, PutAdds
  <2>3. call.tac \in Starting(call)
    BY <1>3, <1>8 DEF Starting
  <2>4. call.tac \in [1 .. eight -> 0 .. 9]
    BY <1>3, <1>6, <1>8
  <2>5. Onward(call.tac, <<r, e>>) /\ Digital(call, call.tac, eight)
    BY <1>3, <1>8, <2>2, <2>3, <2>4, DigitsFirst DEF Onward
  <2>6. Equipment(call, <<r, e>>, call.tac)
    BY <1>4, <1>5, <1>6, <2>5 DEF Equipment
  <2> QED BY <2>5, <2>6
<1>9. CASE /\ p = <<>> /\ call.tac = <<>>
           /\ todo = <<IF call.test THEN Put(<<0, 0>>) ELSE Pick(ReportingBodyIDs), r, r, e>>
  <2>1. At(IF call.test THEN Put(<<0, 0>>) ELSE Pick(ReportingBodyIDs), <<r, r, e>>)
    BY <1>9, TupleAt
  <2>2. Keeps \/ \E s \in Starting(call) : s \in [1 .. two -> 0 .. 9] /\ Adds(s, <<r, r, e>>)
    <3>1. CASE call.test
      <4>1. PICK s : s = <<0, 0>>
        OBVIOUS
      <4>2. At(Put(s), <<r, r, e>>)
        BY <2>1, <3>1, <4>1
      <4>3. Adds(s, <<r, r, e>>)
        BY <1>1, <4>2, PutAdds
      <4>4. s \in Starting(call)
        BY <1>3, <1>9, <3>1, <4>1 DEF Starting
      <4>5. s \in [1 .. two -> 0 .. 9]
        BY <1>6, <4>1
      <4> QED BY <4>3, <4>4, <4>5
    <3>2. CASE ~call.test
      <4>1. PICK table : table = ReportingBodyIDs
        OBVIOUS
      <4>2. PICK n \in Nat : n = Len(table) /\ n # 0 /\ n <= MaxBound
        BY <4>1, TableIs
      <4>3. At(Pick(table), <<r, r, e>>)
        BY <2>1, <3>2, <4>1
      <4>4. Keeps \/ \E i \in 1 .. n : Adds(table[i], <<r, r, e>>)
        BY <1>1, <4>2, <4>3, PickAdds
      <4>5. \A i \in 1 .. n : table[i] \in [1 .. two -> 0 .. 9] /\ table[i] \in ToSet(table)
        BY <1>6, <4>1, <4>2, TelecomAssumption DEF ToSet
      <4>6. ToSet(table) = Starting(call)
        BY <1>3, <1>9, <3>2, <4>1 DEF Starting
      <4> QED BY <4>4, <4>5, <4>6
    <3> QED BY <3>1, <3>2
  <2>3. CASE ~Keeps
    <3>1. PICK s \in Starting(call) : s \in [1 .. two -> 0 .. 9] /\ Adds(s, <<r, r, e>>)
      BY <2>2, <2>3
    <3>2. Onward(s, <<r, r, e>>) /\ Digital(call, s, two)
      BY <1>3, <1>9, <3>1, DigitsFirst DEF Onward
    <3>3. Equipment(call, <<r, r, e>>, s)
      BY <1>4, <1>5, <1>6, <3>2 DEF Equipment
    <3> QED BY <3>2, <3>3
  <2> QED BY <1>2, <2>3
<1>10. CASE Digital(call, p, two) /\ todo = <<r, r, e>>
  <2>1. At(RandomDigits(six), <<r, e>>) /\ <<>> \o <<r, e>> = <<r, e>>
    BY <1>7, <1>10, TupleAt
  <2>2. eight = two + six
    BY <1>6
  <2>3. Keeps \/ \E q : /\ q \in Seq(0 .. 15) /\ out' = call.dst \o q /\ todo' = <<r, e>>
                        /\ Digital(call, q, eight)
    BY <1>3, <1>7, <1>10, <2>1, <2>2, RandomAfter
  <2>4. CASE ~Keeps
    <3>1. PICK q : Onward(q, <<r, e>>) /\ Digital(call, q, eight)
      BY <2>3, <2>4 DEF Onward
    <3>2. Equipment(call, <<r, e>>, q)
      BY <1>4, <1>5, <1>6, <3>1 DEF Equipment
    <3> QED BY <3>1, <3>2
  <2> QED BY <1>2, <2>4
<1>11. CASE Digital(call, p, eight) /\ todo = <<r, e>>
  <2>1. At(RandomDigits(six), <<e>>) /\ <<>> \o <<e>> = <<e>>
    BY <1>7, <1>11, TupleAt
  <2>2. fourteen = eight + six
    BY <1>6
  <2>3. Keeps \/ \E q : /\ q \in Seq(0 .. 15) /\ out' = call.dst \o q /\ todo' = <<e>>
                        /\ Digital(call, q, fourteen)
    BY <1>3, <1>7, <1>11, <2>1, <2>2, RandomAfter
  <2>4. CASE ~Keeps
    <3>1. PICK q : Onward(q, <<e>>) /\ Digital(call, q, fourteen)
      BY <2>3, <2>4 DEF Onward
    <3>2. Equipment(call, <<e>>, q)
      BY <1>4, <1>6, <3>1 DEF Equipment
    <3> QED BY <3>1, <3>2
  <2> QED BY <1>2, <2>4
<1>12. CASE Digital(call, p, fourteen) /\ todo = <<e>> /\ call.kind = "IMEI"
  <2>1. At(Do("check"), <<>>)
    <3>1. At(e, <<>>) /\ e = Do("check")
      BY <1>4, <1>12, TupleAt DEF Ending
    <3> QED BY <3>1
  <2>2. PICK k : k = fourteen + 1
    OBVIOUS
  <2>3. PICK q : /\ q \in Seq(0 .. 15) /\ out' = call.dst \o q /\ todo' = <<>>
                 /\ Digital(call, q, k) /\ LuhnSum(q) % 10 = 0
    BY <1>3, <1>12, <2>1, <2>2, CheckAfter
  <2>4. k = 15
    BY <1>6, <2>2
  <2>5. Equipment(call, <<>>, q)
    BY <1>12, <2>3, <2>4 DEF Equipment
  <2> QED BY <2>3, <2>5 DEF Onward
<1>13. CASE Digital(call, p, fourteen) /\ todo = <<e>> /\ call.kind = "IMEISV"
  <2>1. At(e, <<>>) /\ e = IF call.svn # <<>> THEN Put(call.svn) ELSE Do("svn")
    <3>1. call.kind # "IMEI"
      BY <1>13
    <3> QED BY <1>4, <1>13, <3>1, TupleAt DEF Ending
  <2>2. Keeps \/ \E s \in [1 .. two -> 0 .. 9] :
                   s # <<9, 9>> /\ (call.svn # <<>> => call.svn = s) /\ Adds(s, <<>>)
    <3>1. CASE call.svn # <<>>
      <4>1. At(Put(call.svn), <<>>)
        BY <2>1, <3>1
      <4>2. Adds(call.svn, <<>>)
        BY <1>1, <4>1, PutAdds
      <4> QED BY <1>3, <1>6, <1>13, <3>1, <4>2
    <3>2. CASE call.svn = <<>>
      <4>1. At(Do("svn"), <<>>)
        BY <2>1, <3>2
      <4>2. Keeps \/ \E s \in [1 .. 2 -> 0 .. 9] : s # <<9, 9>> /\ Adds(s, <<>>)
        BY <1>1, <4>1, SvnAdds
      <4> QED BY <1>6, <3>2, <4>2
    <3> QED BY <3>1, <3>2
  <2>3. CASE ~Keeps
    <3>1. PICK s \in [1 .. two -> 0 .. 9] :
            s # <<9, 9>> /\ (call.svn # <<>> => call.svn = s) /\ Adds(s, <<>>)
      BY <2>2, <2>3
    <3>2. sixteen = fourteen + two
      BY <1>6
    <3>3. PICK q : /\ q \in Seq(0 .. 15) /\ out' = call.dst \o q /\ todo' = <<>>
                   /\ Digital(call, q, sixteen) /\ Joins(q, p, s, two, 0 .. 9)
      BY <1>3, <1>13, <3>1, <3>2, DigitsAfter
    <3>4. q[15] = s[1] /\ q[16] = s[2]
      <4>1. Len(p) = fourteen
        BY <1>13 DEF Digital
      <4>2. \A i \in 1 .. two : q[Len(p) + i] = s[i]
        BY <3>3 DEF Joins
      <4>3. 1 \in 1 .. two /\ 2 \in 1 .. two /\ Len(p) + 1 = 15 /\ Len(p) + 2 = 16
        BY <1>6, <4>1
      <4> QED BY <4>2, <4>3
    <3>5. Versioned(call, q)
      BY <1>6, <3>1, <3>4 DEF Versioned
    <3>6. Equipment(call, <<>>, q)
      <4>1. Digital(call, q, 16) /\ call.kind # "IMEI"
        BY <1>6, <1>13, <3>3
      <4> QED BY <3>5, <4>1 DEF Equipment
    <3> QED BY <3>3, <3>6 DEF Onward
  <2> QED BY <1>2, <2>3
<1>14. \/ p = <<>> /\ call.tac # <<>> /\ todo = <<Put(call.tac), r, e>>
       \/ /\ p = <<>> /\ call.tac = <<>>
          /\ todo = <<IF call.test THEN Put(<<0, 0>>) ELSE Pick(ReportingBodyIDs), r, r, e>>
       \/ Digital(call, p, two) /\ todo = <<r, r, e>>
       \/ Digital(call, p, eight) /\ todo = <<r, e>>
       \/ Digital(call, p, fourteen) /\ todo = <<e>>
       \/ todo = <<>>
  BY <1>4, <1>5, <1>6 DEF Equipment
<1> QED BY <1>1, <1>8, <1>9, <1>10, <1>11, <1>12, <1>13, <1>14

(* The steps of a call for a card.                                         *)
LEMMA CardStep ==
  ASSUME NEW p, Running(p), call.kind = "ICCID", Card(call, todo, p)
  PROVE  \E q, t : Onward(q, t) /\ Card(call, t, q)
<1>1. /\ call \in Calls /\ ~Refuses(call) /\ Moves /\ drawn \in Seq(Words) /\ todo # <<>>
      /\ Keeps => Onward(p, todo)
  BY Onwards
<1>2. CASE Keeps
  BY <1>1, <1>2
<1>3. /\ call.kind # "MEID" /\ call.dst \in Seq(0 .. 16) /\ ICCIDLength(call) \in 18 .. 20
      /\ call.iin # <<>> => call.iin \in Seq(0 .. 9) /\ Len(call.iin) \in 3 .. 7
  BY <1>1, Accepted
<1>4. PICK n \in 18 .. 20 : n = ICCIDLength(call)
  BY <1>3
<1>5. PICK fill, check : fill = Do("fill") /\ check = Do("check")
  OBVIOUS
<1>6. PICK two \in Nat : two = 2
  OBVIOUS
<1>7. PICK h : h = <<8, 9>>
  OBVIOUS
<1>8. h \in [1 .. two -> 0 .. 9]
  BY <1>6, <1>7
<1>9. CASE p = <<>> /\ call.iin # <<>> /\ todo = <<Put(call.iin), fill, check>>
  <2>1. At(Put(call.iin), <<fill, check>>)
    BY <1>9, TupleAt
  <2>2. Adds(call.iin, <<fill, check>>)
    BY <1>1, <2>1, PutAdds
  <2>3. call.iin \in Starting(call)
    BY <1>9, call.kind = "ICCID" DEF Starting
  <2>4. PICK k \in 3 .. 7 : k = Len(call.iin)
    BY <1>3, <1>9
  <2>5. call.iin \in [1 .. k -> 0 .. 9] /\ k \in Nat
    BY <1>3, <1>9, <2>4
  <2>6. Onward(call.iin, <<fill, check>>) /\ Digital(call, call.iin, k)
    BY <1>3, <1>9, <2>2, <2>3, <2>5, DigitsFirst DEF Onward
  <2>7. Card(call, <<fill, check>>, call.iin)
    BY <1>5, <2>6 DEF Card
  <2> QED BY <2>6, <2>7
<1>10. CASE /\ p = <<>> /\ call.iin = <<>>
            /\ todo = <<Put(h), Pick(CountryCodes), fill, check>>
  <2>1. At(Put(h), <<Pick(CountryCodes), fill, check>>)
    BY <1>10, TupleAt
  <2>2. Adds(h, <<Pick(CountryCodes), fill, check>>)
    BY <1>1, <2>1, PutAdds
  <2>3. Onward(h, <<Pick(CountryCodes), fill, check>>)
    BY <1>3, <1>8, <1>10, <2>2, DigitsFirst DEF Onward
  <2>4. Card(call, <<Pick(CountryCodes), fill, check>>, h)
    BY <1>5, <1>7, <1>10 DEF Card
  <2> QED BY <2>3, <2>4
<1>11. CASE p = h /\ call.iin = <<>> /\ todo = <<Pick(CountryCodes), fill, check>>
  <2>1. PICK table : table = CountryCodes
    OBVIOUS
  <2>2. PICK m \in Nat : m = Len(table) /\ m # 0 /\ m <= MaxBound
    BY <2>1, TableIs
  <2>3. At(Pick(table), <<fill, check>>)
    BY <1>11, <2>1, TupleAt
  <2>4. Keeps \/ \E i \in 1 .. m : Adds(table[i], <<fill, check>>)
    BY <1>1, <2>2, <2>3, PickAdds
  <2>5. CASE ~Keeps
    <3>1. PICK i \in 1 .. m : Adds(table[i], <<fill, check>>)
      BY <2>4, <2>5
    <3>2. PICK code : code = table[i]
      OBVIOUS
    <3>3. code \in ToSet(CountryCodes)
      BY <2>1, <2>2, <3>2 DEF ToSet
    <3>4. PICK j \in 1 .. 3 : code \in [1 .. j -> 0 .. 9]
      BY <2>1, <2>2, <3>2, TelecomAssumption
    <3>5. h \o code \in Starting(call)
      BY <1>7, <1>11, <3>3, call.kind = "ICCID" DEF Starting
    <3>6. h \o code \in Seq(0 .. 9) /\ Len(h \o code) = two + j
      <4>1. PICK S : S = 0 .. 9
        OBVIOUS
      <4>2. h \in [1 .. two -> S] /\ code \in [1 .. j -> S] /\ j \in Nat
        BY <1>8, <3>4, <4>1
      <4>3. h \in Seq(S) /\ Len(h) = two
        BY ONLY <4>2, two \in Nat, RunIsSeq
      <4>4. Joins(h \o code, h, code, j, S)
        BY ONLY <4>2, <4>3, Longer
      <4> QED BY ONLY <4>1, <4>3, <4>4 DEF Joins
    <3>7. PICK k \in 3 .. 7 : k = two + j
      BY <1>6
    <3>8. Digital(call, h \o code, k)
      BY <1>1, <3>5, <3>6, <3>7, DigitalStarts
    <3>9. Onward(h \o code, <<fill, check>>)
      <4>1. code \in [1 .. j -> 0 .. 15] /\ j \in Nat
        <5>1. \A v \in 0 .. 9 : v \in 0 .. 15
          OBVIOUS
        <5> QED BY <3>4, <5>1
      <4>2. p \in Seq(0 .. 15) /\ out = call.dst \o p
        BY DEF Running
      <4>3. Adds(code, <<fill, check>>)
        BY <3>1, <3>2
      <4>4. PICK q : q = p \o code
        OBVIOUS
      <4>5. q \in Seq(0 .. 15) /\ out' = call.dst \o q /\ todo' = <<fill, check>>
        BY ONLY <1>3, <4>1, <4>2, <4>3, <4>4, AddsTo
      <4> QED BY <1>11, <4>4, <4>5 DEF Onward
    <3>10. Card(call, <<fill, check>>, h \o code)
      BY <1>5, <3>8 DEF Card
    <3> QED BY <3>9, <3>10
  <2> QED BY <1>2, <2>5
<1>12. ASSUME NEW k \in 3 .. 7, Digital(call, p, k), todo = <<fill, check>>
       PROVE  \E q, t : Onward(q, t) /\ Card(call, t, q)
  <2>1. At(Do("fill"), <<check>>)
    BY <1>5, <1>12, TupleAt
  <2>2. p \in Seq(0 .. 15) /\ out = call.dst \o p /\ Len(p) = k
    BY <1>12 DEF Running, Digital
  <2>3. out \in Seq(0 .. 16) /\ Len(out) = Len(call.dst) + Len(p)
    BY ONLY <1>3, <2>2, PayloadIs
  <2>4. PICK m : m = Len(call.dst) + ICCIDLength(call) - 1 - Len(out)
    OBVIOUS
  <2>5. m = n - 1 - k
    <3>1. PICK l \in Nat : l = Len(call.dst)
      BY <1>3
    <3> QED BY <1>4, <2>2, <2>3, <2>4, <3>1, SMTT(30)
  <2>6. out' = out /\ todo' = <<RandomDigits(m)>> \o <<check>>
    BY <1>1, <2>1, <2>4, FillAdds
  <2>7. todo' = <<RandomDigits(m), check>>
    BY <2>6, TupleAt
  <2>8. Onward(p, <<RandomDigits(m), check>>)
    BY <2>2, <2>6, <2>7 DEF Onward
  <2>9. Card(call, <<RandomDigits(m), check>>, p)
    BY <1>4, <1>5, <1>12, <2>5 DEF Card
  <2> QED BY <2>8, <2>9
<1>13. ASSUME NEW k \in 3 .. 7, Digital(call, p, k), todo = <<RandomDigits(n - 1 - k), check>>
       PROVE  \E q, t : Onward(q, t) /\ Card(call, t, q)
  <2>1. PICK m \in 0 .. 18 : m = n - 1 - k
    OBVIOUS
  <2>2. At(RandomDigits(m), <<check>>) /\ <<>> \o <<check>> = <<check>>
    BY <1>13, <2>1, TupleAt
  <2>3. PICK l : l = k + m
    OBVIOUS
  <2>4. k \in Nat /\ l = n - 1
    BY <2>1, <2>3
  <2>5. Keeps \/ \E q : /\ q \in Seq(0 .. 15) /\ out' = call.dst \o q /\ todo' = <<check>>
                        /\ Digital(call, q, l)
    BY <1>3, <1>13, <2>2, <2>3, <2>4, RandomAfter
  <2>6. CASE ~Keeps
    <3>1. PICK q : Onward(q, <<check>>) /\ Digital(call, q, l)
      BY <2>5, <2>6 DEF Onward
    <3>2. Card(call, <<check>>, q)
      BY <1>4, <1>5, <2>4, <3>1 DEF Card
    <3> QED BY <3>1, <3>2
  <2> QED BY <1>2, <2>6
<1>14. CASE Digital(call, p, n - 1) /\ todo = <<check>>
  <2>1. PICK m \in Nat : m = n - 1
    OBVIOUS
  <2>2. At(Do("check"), <<>>)
    BY <1>5, <1>14, TupleAt
  <2>3. n = m + 1
    BY <2>1
  <2>4. PICK q : /\ q \in Seq(0 .. 15) /\ out' = call.dst \o q /\ todo' = <<>>
                 /\ Digital(call, q, n) /\ LuhnSum(q) % 10 = 0
    BY <1>3, <1>14, <2>1, <2>2, <2>3, CheckAfter
  <2>5. Card(call, <<>>, q)
    BY <1>4, <2>4 DEF Card
  <2> QED BY <2>4, <2>5 DEF Onward
<1>15. \/ p = <<>> /\ call.iin # <<>> /\ todo = <<Put(call.iin), fill, check>>
       \/ p = <<>> /\ call.iin = <<>> /\ todo = <<Put(h), Pick(CountryCodes), fill, check>>
       \/ p = h /\ call.iin = <<>> /\ todo = <<Pick(CountryCodes), fill, check>>
       \/ \E k \in 3 .. 7 :
            Digital(call, p, k) /\ (\/ todo = <<fill, check>>
                                    \/ todo = <<RandomDigits(n - 1 - k), check>>)
       \/ Digital(call, p, n - 1) /\ todo = <<check>>
       \/ todo = <<>>
  BY <1>4, <1>5, <1>7 DEF Card
<1> QED BY <1>1, <1>9, <1>10, <1>11, <1>12, <1>13, <1>14, <1>15

(* The steps of a call for a MEID.                                         *)
LEMMA MobileStep ==
  ASSUME NEW p, Running(p), call.kind = "MEID", Mobile(todo, p, drawn)
  PROVE  \E q, t : Onward(q, t) /\ Mobile(t, q, drawn')
<1>1. /\ call \in Calls /\ ~Refuses(call) /\ Moves /\ drawn \in Seq(Words) /\ todo # <<>>
      /\ Keeps => Onward(p, todo)
  BY Onwards
<1>2. call.dst \in Seq(0 .. 16) /\ p \in Seq(0 .. 15) /\ out = call.dst \o p
  BY <1>1, Accepted DEF Running
<1>3. PICK two, twelve \in Nat : two = 2 /\ twelve = 12
  OBVIOUS
<1>4. CASE p = <<>> /\ todo = <<Do("regional"), Do("hex")>>
  <2>1. At(Do("regional"), <<Do("hex")>>)
    BY <1>4, TupleAt
  <2>2. /\ drawn' # <<>>
        /\ Keeps \/ \E s \in [1 .. 2 -> 0 .. 15] : s[1] >= 10 /\ Adds(s, <<Do("hex")>>)
    BY <1>1, <2>1, RegionalAdds
  <2>3. CASE Keeps
    <3>1. Mobile(todo, p, drawn')
      BY <1>4 DEF Mobile
    <3> QED BY <1>1, <2>3, <3>1
  <2>4. CASE ~Keeps
    <3>1. PICK s \in [1 .. two -> 0 .. 15] : s[1] >= 10 /\ Adds(s, <<Do("hex")>>)
      BY <1>3, <2>2, <2>4
    <3>2. PICK q : q = p \o s
      OBVIOUS
    <3>3. /\ q \in Seq(0 .. 15) /\ out' = call.dst \o q /\ todo' = <<Do("hex")>>
          /\ p = <<>> => q = s
      BY ONLY <1>2, <3>1, <3>2, two \in Nat, AddsTo
    <3>4. Mobile(<<Do("hex")>>, s, drawn')
      BY <1>3, <2>2, <3>1 DEF Mobile
    <3> QED BY <1>4, <3>3, <3>4 DEF Onward
  <2> QED BY <2>3, <2>4
<1>5. CASE p \in [1 .. 2 -> 0 .. 15] /\ p[1] >= 10 /\ todo = <<Do("hex")>> /\ drawn # <<>>
  <2>1. At(Do("hex"), <<>>)
    BY <1>5, TupleAt
  <2>2. PICK s \in [1 .. twelve -> 0 .. 15] : Adds(s, <<>>)
    BY <1>1, <1>3, <1>5, <2>1, HexAdds
  <2>3. PICK q : q = p \o s
    OBVIOUS
  <2>4. q \in Seq(0 .. 15) /\ out' = call.dst \o q /\ todo' = <<>>
    BY ONLY <1>2, <2>2, <2>3, twelve \in Nat, AddsTo
  <2>5. Len(q) = 14 /\ q[1] = p[1]
    <3>1. PICK S : S = 0 .. 15
      OBVIOUS
    <3>2. p \in Seq(S) /\ s \in [1 .. twelve -> S]
      BY <1>2, <2>2, <3>1
    <3>3. Joins(q, p, s, twelve, S)
      BY ONLY <2>3, <3>2, twelve \in Nat, Longer
    <3>4. Len(p) = 2
      <4>1. p \in [1 .. two -> 0 .. 15]
        BY <1>3, <1>5
      <4> QED BY ONLY <1>3, <4>1, RunIsSeq
    <3>5. Len(q) = Len(p) + twelve /\ \A i \in 1 .. Len(p) : q[i] = p[i]
      BY <3>3 DEF Joins
    <3> QED BY <1>3, <3>4, <3>5
  <2>6. q \in [1 .. 14 -> 0 .. 15]
    <3>1. PICK k \in Nat : k = 14
      OBVIOUS
    <3>2. PICK S : S = 0 .. 15
      OBVIOUS
    <3>3. q \in Seq(S) /\ Len(q) = k
      BY <2>4, <2>5, <3>1, <3>2
    <3>4. q \in [1 .. k -> S]
      BY ONLY <3>3
    <3> QED BY ONLY <3>1, <3>2, <3>4
  <2>7. Mobile(<<>>, q, drawn')
    BY <1>5, <2>5, <2>6 DEF Mobile
  <2> QED BY <2>4, <2>7 DEF Onward
<1> QED BY <1>1, <1>4, <1>5 DEF Mobile

-------------------------------------------------------------------------------
(* The strengthened invariant.                                             *)

(* The parts of a call that is not refused, and the identifier without any *)
(* of them.                                                                *)
LEMMA PartsAre ==
  ASSUME NEW c \in Calls, ~Refuses(c), NEW d
  PROVE  Stage(c, Parts(c), <<>>, d)
<1>1. c.kind \in {"IMEI", "IMEISV", "ICCID", "MEID"}
  BY Accepted
<1>2. CASE c.kind \in {"IMEI", "IMEISV"}
  <2>1. Parts(c) = TAC(c) \o <<RandomDigits(6), Ending(c)>>
    BY <1>2 DEF Parts, Ending
  <2>2. CASE c.tac # <<>>
    <3>1. TAC(c) = <<Put(c.tac)>>
      BY <2>2 DEF TAC
    <3>2. Parts(c) = <<Put(c.tac), RandomDigits(6), Ending(c)>>
      <4>1. PICK x, y, z : x = Put(c.tac) /\ y = RandomDigits(6) /\ z = Ending(c)
        OBVIOUS
      <4>2. <<x>> \o <<y, z>> = <<x, y, z>>
        BY TupleAt
      <4> QED BY ONLY <2>1, <3>1, <4>1, <4>2
    <3>3. Equipment(c, Parts(c), <<>>)
      BY <2>2, <3>2 DEF Equipment
    <3> QED BY <1>2, <3>3 DEF Stage
  <2>3. CASE c.tac = <<>>
    <3>1. PICK first : first = IF c.test THEN Put(<<0, 0>>) ELSE Pick(ReportingBodyIDs)
      OBVIOUS
    <3>2. TAC(c) = <<first, RandomDigits(6)>>
      BY <2>3, <3>1 DEF TAC
    <3>3. Parts(c) = <<first, RandomDigits(6), RandomDigits(6), Ending(c)>>
      <4>1. PICK y, z : y = RandomDigits(6) /\ z = Ending(c)
        OBVIOUS
      <4>2. <<first, y>> \o <<y, z>> = <<first, y, y, z>>
        BY ONLY PairsJoin
      <4> QED BY ONLY <2>1, <3>2, <4>1, <4>2
    <3>4. Equipment(c, Parts(c), <<>>)
      BY <2>3, <3>1, <3>3 DEF Equipment
    <3> QED BY <1>2, <3>4 DEF Stage
  <2> QED BY <2>2, <2>3
<1>3. CASE c.kind = "ICCID"
  <2>1. PICK first : first = IF c.iin # <<>> THEN <<Put(c.iin)>>
                             ELSE <<Put(<<8, 9>>), Pick(CountryCodes)>>
    OBVIOUS
  <2>2. Parts(c) = first \o <<Do("fill"), Do("check")>>
    BY <1>3, <2>1 DEF Parts
  <2>3. CASE c.iin # <<>>
    <3>1. Parts(c) = <<Put(c.iin), Do("fill"), Do("check")>>
      BY <2>1, <2>2, <2>3, TupleAt, ZenonT(40)
    <3>2. Card(c, Parts(c), <<>>)
      BY <2>3, <3>1 DEF Card
    <3> QED BY <1>3, <3>2 DEF Stage
  <2>4. CASE c.iin = <<>>
    <3>1. Parts(c) = <<Put(<<8, 9>>), Pick(CountryCodes), Do("fill"), Do("check")>>
      <4>1. PICK w, x, y, z : /\ w = Put(<<8, 9>>) /\ x = Pick(CountryCodes)
                              /\ y = Do("fill") /\ z = Do("check")
        OBVIOUS
      <4>2. <<w, x>> \o <<y, z>> = <<w, x, y, z>>
        BY ONLY PairsJoin
      <4> QED BY ONLY <2>1, <2>2, <2>4, <4>1, <4>2
    <3>2. Card(c, Parts(c), <<>>)
      BY <2>4, <3>1 DEF Card
    <3> QED BY <1>3, <3>2 DEF Stage
  <2> QED BY <2>3, <2>4
<1>4. CASE c.kind = "MEID"
  <2>1. Parts(c) = <<Do("regional"), Do("hex")>>
    BY <1>4 DEF Parts
  <2>2. Mobile(Parts(c), <<>>, d)
    BY <2>1 DEF Mobile
  <2> QED BY <1>4, <2>2 DEF Stage
<1> QED BY <1>1, <1>2, <1>3, <1>4

LEMMA InitIInv == Init => IInv
<1>1. SUFFICES ASSUME Init PROVE IInv
  OBVIOUS
<1>2. call \in Calls /\ drawn = <<>> /\ out = call.dst
  BY <1>1 DEF Init
<1>3. call.dst \in Seq(0 .. 16)
  BY <1>2, TelecomAssumption DEF CallFields, Strings
<1>4. PICK p : p = <<>>
  OBVIOUS
<1>5. out = call.dst \o p
  BY ONLY <1>2, <1>3, <1>4, ConcatEmptySeq
<1>6. Partly(call, todo, p, drawn)
  <2>1. p \in Seq(0 .. 15)
    BY <1>4
  <2>2. CASE Refuses(call)
    BY <1>1, <1>4, <2>1, <2>2 DEF Init, Partly
  <2>3. CASE ~Refuses(call)
    <3>1. todo = Parts(call)
      BY <1>1, <2>3 DEF Init
    <3> QED BY <1>2, <1>4, <2>1, <2>3, <3>1, PartsAre DEF Partly
  <2> QED BY <2>2, <2>3
<1> QED BY <1>2, <1>5, <1>6 DEF IInv

LEMMA StutterIInv == IInv /\ UNCHANGED vars => IInv'
<1>1. SUFFICES ASSUME IInv, UNCHANGED vars PROVE IInv'
  OBVIOUS
<1>2. call' = call /\ todo' = todo /\ out' = out /\ drawn' = drawn
  BY <1>1 DEF vars
<1>3. PICK p : out = call.dst \o p /\ Partly(call, todo, p, drawn)
  BY <1>1 DEF IInv
<1>4. call \in Calls /\ drawn \in Seq(Words)
  BY <1>1 DEF IInv
<1>5. /\ call' \in Calls /\ drawn' \in Seq(Words)
      /\ out' = call'.dst \o p /\ Partly(call', todo', p, drawn')
  BY ONLY <1>2, <1>3, <1>4
<1> QED BY <1>5 DEF IInv

LEMMA NextIInv == IInv /\ Next => IInv'
<1>1. SUFFICES ASSUME IInv, Next PROVE IInv'
  OBVIOUS
<1>2. CASE Moves
  <2>1. call \in Calls /\ drawn \in Seq(Words)
    BY <1>1 DEF IInv
  <2>2. PICK p : out = call.dst \o p /\ Partly(call, todo, p, drawn)
    BY <1>1 DEF IInv
  <2>3. call' = call /\ drawn' \in Seq(Words) /\ todo # <<>>
    BY <1>2, <2>1, MovesKeepCall
  <2>4. ~Refuses(call) /\ p \in Seq(0 .. 15) /\ Stage(call, todo, p, drawn)
    BY <2>2, <2>3 DEF Partly
  <2>5. Running(p)
    BY <1>2, <2>1, <2>2, <2>4 DEF Running
  <2>6. call.kind \in {"IMEI", "IMEISV", "ICCID", "MEID"}
    BY <2>1, <2>4, Accepted
  <2>7. \E q, t : Onward(q, t) /\ Stage(call, t, q, drawn')
    <3>1. CASE call.kind \in {"IMEI", "IMEISV"}
      <4>1. Equipment(call, todo, p)
        BY <2>4, <3>1 DEF Stage
      <4>2. PICK q, t : Onward(q, t) /\ Equipment(call, t, q)
        BY <2>5, <3>1, <4>1, EquipmentStep
      <4> QED BY <3>1, <4>2 DEF Stage
    <3>2. CASE call.kind = "ICCID"
      <4>1. Card(call, todo, p)
        BY <2>4, <3>2 DEF Stage
      <4>2. PICK q, t : Onward(q, t) /\ Card(call, t, q)
        BY <2>5, <3>2, <4>1, CardStep
      <4> QED BY <3>2, <4>2 DEF Stage
    <3>3. CASE call.kind = "MEID"
      <4>1. Mobile(todo, p, drawn)
        BY <2>4, <3>3 DEF Stage
      <4>2. PICK q, t : Onward(q, t) /\ Mobile(t, q, drawn')
        BY <2>5, <3>3, <4>1, MobileStep
      <4> QED BY <3>3, <4>2 DEF Stage
    <3> QED BY <2>6, <3>1, <3>2, <3>3
  <2>8. PICK q, t : Onward(q, t) /\ Stage(call, t, q, drawn')
    BY <2>7
  <2>9. out' = call.dst \o q /\ Partly(call, todo', q, drawn')
    BY <2>4, <2>8 DEF Onward, Partly
  <2>10. /\ call' \in Calls /\ drawn' \in Seq(Words)
         /\ out' = call'.dst \o q /\ Partly(call', todo', q, drawn')
    BY <2>1, <2>3, <2>9
  <2> QED BY <2>10 DEF IInv
<1>3. CASE Finished
  BY <1>1, <1>3, StutterIInv DEF Finished
<1> QED BY <1>1, <1>2, <1>3 DEF Next, Moves

LEMMA SpecIInv == Spec => []IInv
<1>1. IInv /\ [Next]_vars => IInv'
  BY NextIInv, StutterIInv
<1> QED BY <1>1, InitIInv, PTL DEF Spec

-------------------------------------------------------------------------------
(* What is refused is what is documented as invalid.                       *)

LEMMA IsDigitsIs ==
  ASSUME NEW s \in Seq(0 .. 16), NEW min, NEW max
  PROVE  IsDigits(s, min, max) <=> Len(s) \in min .. max /\ AllDigits(s)
<1>1. DOMAIN s = 1 .. Len(s) /\ \A i \in 1 .. Len(s) : s[i] \in 0 .. 16
  OBVIOUS
<1>2. \A v \in 0 .. 16 : v <= 9 <=> v \in 0 .. 9
  OBVIOUS
<1> QED BY ONLY <1>1, <1>2 DEF IsDigits, AllDigits

LEMMA TACIs ==
  ASSUME NEW s \in Seq(0 .. 16)
  PROVE  IsDigits(s, 8, 8) <=> Len(s) = 8 /\ AllDigits(s)
<1>1. PICK n \in Nat : n = 8
  OBVIOUS
<1>2. IsDigits(s, n, n) <=> Len(s) \in n .. n /\ AllDigits(s)
  BY ONLY s \in Seq(0 .. 16), IsDigitsIs
<1>3. Len(s) \in n .. n <=> Len(s) = n
  OBVIOUS
<1> QED BY ONLY <1>1, <1>2, <1>3

LEMMA SvnIs ==
  ASSUME NEW s \in Seq(0 .. 16)
  PROVE  IsDigits(s, 2, 2) /\ s # <<9, 9>> <=>
           Len(s) = 2 /\ AllDigits(s) /\ 10 * s[1] + s[2] <= 98
<1>1. PICK n \in Nat : n = 2
  OBVIOUS
<1>2. IsDigits(s, n, n) <=> Len(s) \in n .. n /\ AllDigits(s)
  BY ONLY s \in Seq(0 .. 16), IsDigitsIs
<1>3. Len(s) \in n .. n <=> Len(s) = n
  OBVIOUS
<1>4. IsDigits(s, 2, 2) <=> Len(s) = 2 /\ AllDigits(s)
  BY ONLY <1>1, <1>2, <1>3
<1>5. ASSUME Len(s) = 2, AllDigits(s)
      PROVE  s # <<9, 9>> <=> 10 * s[1] + s[2] <= 98
  <2>1. PICK a, b \in 0 .. 9 : a = s[1] /\ b = s[2]
    <3>1. s[1] \in 0 .. 9 /\ s[2] \in 0 .. 9
      BY <1>5 DEF AllDigits
    <3> QED BY <3>1
  <2>2. s = <<9, 9>> <=> a = 9 /\ b = 9
    BY <1>5, <2>1
  <2>3. (a = 9 /\ b = 9) <=> ~(10 * a + b <= 98)
    OBVIOUS
  <2> QED BY <2>1, <2>2, <2>3
<1> QED BY <1>4, <1>5

LEMMA IinIs ==
  ASSUME NEW iin \in Seq(0 .. 16)
  PROVE  IsDigits(iin, 3, 7) /\ SubSeq(iin, 1, 2) = <<8, 9>> <=>
           \E n \in 1 .. 5, s \in {iin} :
             Len(s) = 2 + n /\ s[1] = 8 /\ s[2] = 9 /\ AllDigits(s)
<1>1. PICK lo \in Nat, hi \in Nat : lo = 3 /\ hi = 7
  OBVIOUS
<1>2. IsDigits(iin, lo, hi) <=> Len(iin) \in lo .. hi /\ AllDigits(iin)
  BY ONLY iin \in Seq(0 .. 16), IsDigitsIs
<1>3. IsDigits(iin, 3, 7) <=> Len(iin) \in 3 .. 7 /\ AllDigits(iin)
  BY ONLY <1>1, <1>2
<1>4. PICK k \in Nat : k = Len(iin)
  OBVIOUS
<1>5. k \in 3 .. 7 <=> \E n \in 1 .. 5 : k = 2 + n
  <2>1. ASSUME k \in 3 .. 7 PROVE k - 2 \in 1 .. 5 /\ k = 2 + (k - 2)
    BY <2>1
  <2>2. \A n \in 1 .. 5 : k = 2 + n => k \in 3 .. 7
    OBVIOUS
  <2> QED BY <2>1, <2>2
<1>6. ASSUME k \in 3 .. 7
      PROVE  SubSeq(iin, 1, 2) = <<8, 9>> <=> iin[1] = 8 /\ iin[2] = 9
  <2>1. PICK h : h = SubSeq(iin, 1, 2)
    OBVIOUS
  <2>2. h \in Seq(0 .. 16) /\ Len(h) = 2 /\ h[1] = iin[1] /\ h[2] = iin[2]
    BY <1>4, <1>6, <2>1
  <2>3. h = <<8, 9>> <=> h[1] = 8 /\ h[2] = 9
    BY <2>2
  <2> QED BY <2>1, <2>2, <2>3
<1>7. (\E n \in 1 .. 5, s \in {iin} :
         Len(s) = 2 + n /\ s[1] = 8 /\ s[2] = 9 /\ AllDigits(s))
      <=> (\E n \in 1 .. 5 : k = 2 + n) /\ iin[1] = 8 /\ iin[2] = 9 /\ AllDigits(iin)
  BY ONLY <1>4
<1> QED BY ONLY <1>3, <1>4, <1>5, <1>6, <1>7

LEMMA RefusesIs ==
  ASSUME NEW c \in CallFields
  PROVE  Refuses(c) <=> ~Valid(c)
<1>1. /\ c.kind \in {"IMEI", "IMEISV", "ICCID", "MEID"} /\ c.length \in Int
      /\ c.tac \in Seq(0 .. 16) /\ c.svn \in Seq(0 .. 16) /\ c.iin \in Seq(0 .. 16)
  BY DEF CallFields, Strings
<1>2. IsDigits(c.tac, 8, 8) <=> Len(c.tac) = 8 /\ AllDigits(c.tac)
  BY ONLY <1>1, TACIs
<1>3. IsDigits(c.svn, 2, 2) /\ c.svn # <<9, 9>> <=>
        Len(c.svn) = 2 /\ AllDigits(c.svn) /\ 10 * c.svn[1] + c.svn[2] <= 98
  BY ONLY <1>1, SvnIs
<1>4. IsDigits(c.iin, 3, 7) /\ SubSeq(c.iin, 1, 2) = <<8, 9>> <=>
        \E n \in 1 .. 5, s \in {c.iin} :
          Len(s) = 2 + n /\ s[1] = 8 /\ s[2] = 9 /\ AllDigits(s)
  BY ONLY <1>1, IinIs
<1>5. ICCIDLength(c) \in 18 .. 20 <=> c.length \in {0, 18, 19, 20}
  BY <1>1 DEF ICCIDLength
<1>6. CASE c.kind = "IMEI"
  <2>1. Refuses(c) <=> c.tac # <<>> /\ ~IsDigits(c.tac, 8, 8)
    BY <1>6 DEF Refuses
  <2>2. Valid(c) <=> (c.tac # <<>> => Len(c.tac) = 8 /\ AllDigits(c.tac))
    BY <1>6 DEF Valid
  <2> QED BY ONLY <1>2, <2>1, <2>2
<1>7. CASE c.kind = "IMEISV"
  <2>1. Refuses(c) <=> \/ c.svn # <<>> /\ (~IsDigits(c.svn, 2, 2) \/ c.svn = <<9, 9>>)
                       \/ c.tac # <<>> /\ ~IsDigits(c.tac, 8, 8)
    BY <1>7 DEF Refuses
  <2>2. Valid(c) <=> /\ c.tac # <<>> => Len(c.tac) = 8 /\ AllDigits(c.tac)
                     /\ c.svn # <<>> => Len(c.svn) = 2 /\ AllDigits(c.svn)
                                        /\ 10 * c.svn[1] + c.svn[2] <= 98
    BY <1>7 DEF Valid
  <2> QED BY ONLY <1>2, <1>3, <2>1, <2>2
<1>8. CASE c.kind = "ICCID"
  <2>1. Refuses(c) <=>
          \/ ICCIDLength(c) \notin 18 .. 20
          \/ c.iin # <<>> /\ (~IsDigits(c.iin, 3, 7) \/ SubSeq(c.iin, 1, 2) # <<8, 9>>)
    BY <1>8 DEF Refuses
  <2>2. Valid(c) <=>
          /\ c.length \in {0, 18, 19, 20}
          /\ c.iin # <<>> =>
               \E n \in 1 .. 5, s \in {c.iin} :
                 Len(s) = 2 + n /\ s[1] = 8 /\ s[2] = 9 /\ AllDigits(s)
    BY <1>8 DEF Valid
  <2> QED BY ONLY <1>4, <1>5, <2>1, <2>2
<1>9. CASE c.kind = "MEID"
  BY <1>9 DEF Refuses, Valid
<1> QED BY <1>1, <1>6, <1>7, <1>8, <1>9

-------------------------------------------------------------------------------
(* What an identifier is in the end.                                       *)

Long(c) ==
  CASE c.kind = "IMEI" -> 15
    [] c.kind = "IMEISV" -> 16
    [] c.kind = "MEID" -> 14
    [] OTHER -> IF c.length = 0 THEN 19 ELSE c.length

LEMMA SuffixOfTwo ==
  ASSUME NEW S, NEW s \in [1 .. 2 -> S], NEW t \in Seq(S), Len(t) = 16,
         t[15] = s[1], t[16] = s[2]
  PROVE  IsSuffix(s, t) /\ SubSeq(t, 15, 16) = s
<1>1. PICK n \in Nat, m \in Nat : n = 2 /\ m = 16
  OBVIOUS
<1>2. s \in [1 .. n -> S]
  BY <1>1
<1>3. s \in Seq(S) /\ Len(s) = n
  BY ONLY <1>2, n \in Nat, RunIsSeq
<1>4. PICK r : r = Reverse(s)
  OBVIOUS
<1>5. PICK u : u = Reverse(t)
  OBVIOUS
<1>6. r = [i \in 1 .. n |-> s[(n - i) + 1]] /\ u = [i \in 1 .. m |-> t[(m - i) + 1]]
  BY <1>1, <1>3, <1>4, <1>5 DEF Reverse
<1>7. r \in [1 .. n -> S] /\ u \in [1 .. m -> S]
  <2>1. \A i \in 1 .. n : (n - i) + 1 \in 1 .. n
    OBVIOUS
  <2>2. \A i \in 1 .. m : (m - i) + 1 \in 1 .. m
    OBVIOUS
  <2>3. t \in [1 .. m -> S]
    <3>1. Len(t) = m
      BY <1>1
    <3> QED BY ONLY <3>1, t \in Seq(S)
  <2> QED BY ONLY <1>2, <1>6, <2>1, <2>2, <2>3
<1>8. r \in Seq(S) /\ Len(r) = n
  BY ONLY <1>7, n \in Nat, RunIsSeq
<1>9. u \in Seq(S) /\ Len(u) = m
  BY ONLY <1>7, m \in Nat, RunIsSeq
<1>10. \A i \in 1 .. n : r[i] = u[i]
  <2>1. r[1] = s[2] /\ r[2] = s[1] /\ u[1] = t[16] /\ u[2] = t[15]
    BY <1>1, <1>6
  <2>2. \A i \in 1 .. n : i = 1 \/ i = 2
    BY <1>1
  <2> QED BY <2>1, <2>2
<1>11. IsPrefix(r, u)
  <2>1. Len(r) <= Len(u) /\ \A i \in 1 .. Len(r) : r[i] = u[i]
    BY <1>1, <1>8, <1>9, <1>10
  <2> QED BY ONLY <1>8, <1>9, <2>1, PrefixIs
<1>12. SubSeq(t, 15, 16) = s
  BY <1>1, <1>2
<1> QED BY <1>4, <1>5, <1>11, <1>12 DEF IsSuffix

LEMMA Layout ==
  ASSUME NEW c \in Calls, ~Refuses(c), NEW p, NEW d, Partly(c, <<>>, p, d)
  PROVE  /\ \E s \in Starting(c) : IsPrefix(s, p)
         /\ c.kind # "MEID" => AllDigits(p)
         /\ Len(p) = Long(c)
         /\ c.kind = "IMEISV" => SubSeq(p, 15, 16) # <<9, 9>>
                                 /\ (c.svn # <<>> => IsSuffix(c.svn, p))
         /\ c.kind \in {"IMEI", "ICCID"} => p \in Seq(0 .. 9) /\ LuhnSum(p) % 10 = 0
<1>1. c.kind \in {"IMEI", "IMEISV", "ICCID", "MEID"} /\ ICCIDLength(c) \in Int
  BY Accepted, TelecomAssumption DEF CallFields, ICCIDLength
<1>2. p \in Seq(0 .. 15) /\ Stage(c, <<>>, p, d)
  BY DEF Partly
<1>3. \A k : Digital(c, p, k) =>
        Len(p) = k /\ AllDigits(p) /\ p \in Seq(0 .. 9) /\ \E s \in Starting(c) : IsPrefix(s, p)
  BY DEF Digital, Led, AllDigits
<1>4. CASE c.kind = "IMEI"
  <2>1. Digital(c, p, 15) /\ LuhnSum(p) % 10 = 0
    BY <1>2, <1>4 DEF Stage, Equipment
  <2> QED BY <1>3, <1>4, <2>1 DEF Long
<1>5. CASE c.kind = "IMEISV"
  <2>1. Digital(c, p, 16) /\ Versioned(c, p)
    BY <1>2, <1>5 DEF Stage, Equipment
  <2>2. PICK s \in [1 .. 2 -> 0 .. 9] :
          s # <<9, 9>> /\ p[15] = s[1] /\ p[16] = s[2] /\ (c.svn # <<>> => c.svn = s)
    BY <2>1 DEF Versioned
  <2>3. p \in Seq(0 .. 9) /\ Len(p) = 16
    BY <1>3, <2>1
  <2>4. IsSuffix(s, p) /\ SubSeq(p, 15, 16) = s
    BY ONLY s \in [1 .. 2 -> 0 .. 9], <2>2, <2>3, SuffixOfTwo
  <2>5. SubSeq(p, 15, 16) # <<9, 9>> /\ (c.svn # <<>> => IsSuffix(c.svn, p))
    BY ONLY <2>2, <2>4
  <2> QED BY <1>3, <1>5, <2>1, <2>5 DEF Long
<1>6. CASE c.kind = "ICCID"
  <2>1. Digital(c, p, ICCIDLength(c)) /\ LuhnSum(p) % 10 = 0
    <3>1. Card(c, <<>>, p)
      BY <1>2, <1>6 DEF Stage
    <3> QED BY <3>1 DEF Card
  <2> QED BY <1>3, <1>6, <2>1 DEF Long, ICCIDLength
<1>7. CASE c.kind = "MEID"
  <2>1. Mobile(<<>>, p, d)
    BY <1>2, <1>7 DEF Stage
  <2>2. p \in [1 .. 14 -> 0 .. 15] /\ p[1] >= 10
    BY <2>1 DEF Mobile
  <2>3. PICK n \in Nat : n = 14
    OBVIOUS
  <2>4. Len(p) = 14
    <3>1. p \in [1 .. n -> 0 .. 15]
      BY <2>2, <2>3
    <3> QED BY ONLY <2>3, <3>1, RunIsSeq
  <2>5. PICK r \in 10 .. 15 : r = p[1]
    <3>1. p[1] \in 10 .. 15
      BY <2>2
    <3> QED BY <3>1
  <2>6. PICK s : s = <<r>>
    OBVIOUS
  <2>7. IsPrefix(s, p)
    <3>1. s \in Seq(0 .. 15) /\ Len(s) = 1 /\ s[1] = p[1]
      BY <2>5, <2>6
    <3>2. Len(s) <= Len(p) /\ \A i \in 1 .. Len(s) : s[i] = p[i]
      BY <2>4, <3>1
    <3> QED BY ONLY <1>2, <3>1, <3>2, PrefixIs
  <2>8. s \in Starting(c)
    BY <1>7, <2>6 DEF Starting
  <2> QED BY <1>7, <2>4, <2>7, <2>8 DEF Long
<1> QED BY <1>1, <1>4, <1>5, <1>6, <1>7

(***************************************************************************)
(* What the digits of a call's identifier add up to, whichever options it  *)
(* had and whatever was drawn: an IMEI or ICCID that is complete passes    *)
(* the check of ISO/IEC 7812 (luhnCheckDigit and its callers).             *)
(***************************************************************************)
THEOREM LuhnValidHolds == Spec => []LuhnValid
<1>1. IInv => LuhnValid
  <2>1. SUFFICES ASSUME IInv, Done, ~Refuses(call), call.kind \in {"IMEI", "ICCID"}
                 PROVE  LuhnSum(Payload) % 10 = 0
    <3>1. LuhnSum(Payload) =
            LET n == Len(Payload)
                twice(i) == 2 * Payload[i]
                value(i) == IF (n - i) % 2 = 0 THEN Payload[i]
                            ELSE (twice(i) \div 10) + (twice(i) % 10)
            IN  SumTo([i \in 1 .. n |-> value(i)], n)
      BY DEF LuhnSum, LuhnValues
    <3> QED BY <3>1 DEF LuhnValid
  <2>2. PICK p : out = call.dst \o p /\ Partly(call, todo, p, drawn)
    BY <2>1 DEF IInv
  <2>3. call \in Calls /\ p \in Seq(0 .. 15) /\ call.dst \in Seq(0 .. 16)
    BY <2>1, <2>2, Accepted DEF IInv, Partly
  <2>4. Payload = p
    BY ONLY <2>2, <2>3, PayloadIs
  <2>5. LuhnSum(p) % 10 = 0
    BY <2>1, <2>2, <2>3, Layout DEF Done
  <2> QED BY ONLY <2>4, <2>5
<1> QED BY <1>1, SpecIInv, PTL

(***************************************************************************)
(* A call with an invalid option returns dst as it was.  Any other keeps   *)
(* dst and appends an identifier of the documented length and alphabet,    *)
(* with the start and the version it was given or one from the tables      *)
(* (Append and the functions it calls, for all words and all options).     *)
(***************************************************************************)
THEOREM LayoutOrRefusedHolds == Spec => []LayoutOrRefused
<1>1. IInv => LayoutOrRefused
  <2>1. SUFFICES ASSUME IInv PROVE LayoutOrRefused
    OBVIOUS
  <2>2. PICK p : out = call.dst \o p /\ Partly(call, todo, p, drawn)
    BY <2>1 DEF IInv
  <2>3. call \in Calls /\ call \in CallFields
    BY <2>1, TelecomAssumption DEF IInv
  <2>4. p \in Seq(0 .. 15) /\ call.dst \in Seq(0 .. 16)
    BY <2>2, <2>3 DEF Partly, CallFields, Strings
  <2>5. Payload = p /\ SubSeq(out, 1, Len(call.dst)) = call.dst
    BY ONLY <2>2, <2>4, PayloadIs
  <2>6. Refuses(call) <=> ~Valid(call)
    BY ONLY <2>3, RefusesIs
  <2>7. CASE ~Done
    BY <2>5, <2>7 DEF LayoutOrRefused
  <2>8. CASE Done /\ ~Valid(call)
    <3>1. p = <<>>
      BY <2>2, <2>6, <2>8 DEF Partly
    <3>2. out = call.dst
      BY ONLY <2>2, <2>4, <3>1, ConcatEmptySeq
    <3> QED BY <2>5, <2>8, <3>2 DEF LayoutOrRefused
  <2>9. CASE Done /\ Valid(call)
    <3>1. Partly(call, <<>>, p, drawn) /\ ~Refuses(call)
      BY <2>2, <2>6, <2>9 DEF Done
    <3>2. /\ \E s \in Starting(call) : IsPrefix(s, p)
          /\ call.kind # "MEID" => AllDigits(p)
          /\ Len(p) = Long(call)
          /\ call.kind = "IMEISV" => SubSeq(p, 15, 16) # <<9, 9>>
                                     /\ (call.svn # <<>> => IsSuffix(call.svn, p))
      BY <2>3, <3>1, Layout
    <3>3. /\ \E s \in Starting(call) : IsPrefix(s, Payload)
          /\ call.kind # "MEID" => AllDigits(Payload)
          /\ Len(Payload) = Long(call)
          /\ call.kind = "IMEISV" => SubSeq(Payload, 15, 16) # <<9, 9>>
                                     /\ (call.svn # <<>> => IsSuffix(call.svn, Payload))
      BY ONLY <2>5, <3>2
    <3> QED BY <2>5, <2>9, <3>3 DEF LayoutOrRefused, Starting, Long
  <2> QED BY <2>7, <2>8, <2>9
<1> QED BY <1>1, SpecIInv, PTL
================================================================================
