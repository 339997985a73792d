---------------------------- MODULE SamplingProofs ----------------------------
(***************************************************************************)
(* Bounded draws and the words made of them, for every even word range.    *)
(*                                                                         *)
(* Of Bounded: the bounded draw is exactly uniform for every n, and the    *)
(* interval generators reach exactly the values of the interval, for every *)
(* integer type that divides the word range.                               *)
(*                                                                         *)
(* Of WordFill, for every dictionary shorter than the word range and every *)
(* length: the words drawn have no adjacent duplicates, a rejected random  *)
(* word leaves nothing behind, the product of a batch stays a word, and,   *)
(* if the dictionary repeats nothing, every batch is uniform.              *)
(***************************************************************************)
EXTENDS Bounded, WordFill, FiniteSetTheorems, FunctionTheorems, SequenceTheorems,
        NaturalsInduction, WellFoundedInduction, TLAPS

-------------------------------------------------------------------------------
(* Division with remainder.                                                *)

(* Quotient and remainder are what they should be ...                      *)
LEMMA ModDef ==
  ASSUME NEW d \in Nat \ {0}, NEW a \in Int
  PROVE  /\ a % d \in 0 .. d - 1
         /\ a \div d \in Int
         /\ a = (a \div d) * d + (a % d)
OBVIOUS

(* ... and there are no others.                                            *)
LEMMA ModIs ==
  ASSUME NEW d \in Nat \ {0}, NEW k \in Int, NEW r \in 0 .. d - 1
  PROVE  (k * d + r) % d = r /\ (k * d + r) \div d = k
OBVIOUS

(* Adding a multiple of the divisor changes no remainder.                  *)
LEMMA ModShift ==
  ASSUME NEW d \in Nat \ {0}, NEW a \in Int, NEW k \in Int
  PROVE  (a + k * d) % d = a % d
<1> DEFINE q == a \div d
           r == a % d
<1>1. q \in Int /\ r \in 0 .. d - 1 /\ a = q * d + r
  BY ModDef
<1> HIDE DEF q, r
<1>2. a + k * d = (q + k) * d + r
  <2>1. (q + k) * d = q * d + k * d
    BY <1>1
  <2>2. q * d \in Int /\ k * d \in Int
    BY <1>1
  <2> QED BY <1>1, <2>1, <2>2
<1>3. ((q + k) * d + r) % d = r
  BY <1>1, ModIs
<1> QED BY <1>2, <1>3 DEF r

(* Multiplying by a natural number keeps the order.                        *)
LEMMA MulMonotone ==
  ASSUME NEW a \in Int, NEW b \in Int, NEW n \in Nat, a <= b
  PROVE  a * n <= b * n
<1>1. b = a + (b - a) /\ b - a \in Nat
  OBVIOUS
<1>2. (a + (b - a)) * n = a * n + (b - a) * n
  OBVIOUS
<1>3. (b - a) * n \in Nat /\ a * n \in Int
  BY <1>1
<1> QED BY <1>1, <1>2, <1>3
-------------------------------------------------------------------------------
(* What bits.Mul64 and the threshold return.                               *)

(* There is at least one word.                                             *)
LEMMA WFacts == W \in Nat \ {0} /\ W > 0
BY WidthAssumption

(* The sign bit is half the range.                                         *)
LEMMA HalfFacts == \E h \in Int : W = 2 * h /\ W \div 2 = h
<1> DEFINE q == W \div 2
<1>1. q \in Int /\ W = q * 2 + (W % 2)
  BY WFacts, ModDef
<1>2. W % 2 = 0
  BY WidthAssumption
<1>3. W \div 2 = q
  OBVIOUS
<1> HIDE DEF q
<1>4. W = 2 * q
  BY <1>1, <1>2
<1> QED BY <1>1, <1>3, <1>4

(* bits.Mul64 splits the product; its high half is below n.                *)
LEMMA MulSplit ==
  ASSUME NEW n \in 1 .. W - 1, NEW x \in Words
  PROVE  /\ Hi(x, n) \in 0 .. n - 1
         /\ Lo(x, n) \in Words
         /\ x * n = Hi(x, n) * W + Lo(x, n)
<1>1. x \in Nat /\ n \in Nat /\ x <= W - 1 /\ x * n \in Nat /\ n * W \in Nat
  BY WFacts DEF Words
<1>2. /\ Lo(x, n) \in 0 .. W - 1 /\ Hi(x, n) \in Int
      /\ x * n = Hi(x, n) * W + Lo(x, n)
  BY <1>1, WFacts, ModDef DEF Hi, Lo
<1>3. x * n < n * W
  <2>1. x * n <= (W - 1) * n
    BY <1>1, WFacts, MulMonotone
  <2>2. (W - 1) * n = n * W - n
    BY <1>1, WFacts
  <2> QED BY <1>1, <2>1, <2>2
<1>4. Hi(x, n) < n
  <2> SUFFICES ASSUME n <= Hi(x, n) PROVE FALSE
    BY <1>1, <1>2
  <2>1. n * W <= Hi(x, n) * W
    BY <1>1, <1>2, WFacts, MulMonotone
  <2> HIDE DEF Hi, Lo
  <2>2. Hi(x, n) * W \in Int
    BY <1>2, WFacts
  <2> QED BY <1>1, <1>2, <1>3, <2>1, <2>2
<1>5. Hi(x, n) >= 0
  <2> SUFFICES ASSUME Hi(x, n) <= -1 PROVE FALSE
    BY <1>2
  <2>1. Hi(x, n) * W <= (-1) * W
    BY <1>2, WFacts, MulMonotone
  <2>2. Hi(x, n) * W \in Int /\ (-1) * W = -W
    BY <1>2, WFacts
  <2> QED BY <1>1, <1>2, <2>1, <2>2, WFacts
<1> QED BY <1>1, <1>2, <1>4, <1>5 DEF Words

(* -n % n is what n equal shares leave of the words.                       *)
LEMMA ThresholdIs ==
  ASSUME NEW n \in 1 .. W - 1
  PROVE  /\ Threshold(n) = W % n
         /\ Threshold(n) \in 0 .. n - 1
         /\ W \div n \in Nat
         /\ W = (W \div n) * n + Threshold(n)
<1>1. n \in Nat \ {0} /\ W - n \in 0 .. W - 1
  BY WFacts
<1>2. (W - n) % W = W - n
  <2>1. (0 * W + (W - n)) % W = W - n
    BY <1>1, WFacts, ModIs
  <2> QED BY <2>1, <1>1, WFacts
<1>3. (W - n) % n = W % n
  <2>1. W + (-1) * n = W - n
    BY <1>1, WFacts
  <2>2. (W + (-1) * n) % n = W % n
    <3>1. n \in Nat \ {0} /\ W \in Int /\ -1 \in Int
      BY <1>1, WFacts
    <3>2. \A k \in Int : (W + k * n) % n = W % n
      BY <3>1, ModShift
    <3> QED BY <3>1, <3>2
  <2> QED BY <2>1, <2>2
<1>4. Threshold(n) = W % n
  BY <1>2, <1>3 DEF Threshold
<1>5. W % n \in 0 .. n - 1 /\ W \div n \in Int /\ W = (W \div n) * n + (W % n)
  BY <1>1, WFacts, ModDef
<1>6. W \div n >= 0
  <2> DEFINE q == W \div n
  <2> SUFFICES ASSUME q <= -1 PROVE FALSE
    BY <1>5
  <2>1. q \in Int /\ W % n \in 0 .. n - 1 /\ W = q * n + (W % n)
    BY <1>5
  <2> HIDE DEF q
  <2>2. q * n <= (-1) * n
    BY <1>1, <2>1, MulMonotone
  <2>3. (-1) * n = -n /\ q * n \in Int
    BY <1>1, <2>1
  <2> QED BY <1>1, <2>1, <2>2, <2>3, WFacts
<1> QED BY <1>4, <1>5, <1>6
-------------------------------------------------------------------------------
(* The bounded draw.                                                       *)

(* The accepted words of a value are W \div n consecutive ones: their      *)
(* products with n are the multiples of n in a window of that many n's.    *)
LEMMA AcceptedIsInterval ==
  ASSUME NEW n \in 1 .. W - 1, NEW v \in 0 .. n - 1
  PROVE  \E f \in Int : Accepted(n, v) = f .. f + (W \div n) - 1
<1> DEFINE t == Threshold(n)
           q == W \div n
           c == v * W + t
           f == (c + n - 1) \div n
<1>1. /\ t \in 0 .. n - 1 /\ q \in Nat /\ W = q * n + t
      /\ n \in Nat \ {0} /\ v \in Nat /\ W \in Nat /\ W > 0
  BY ThresholdIs, WFacts
<1> HIDE DEF t, q
<1>2. v * W \in Nat /\ c \in Nat /\ c + n - 1 \in Nat /\ q * n \in Nat
  BY <1>1
<1>3. f \in Int /\ f * n >= c /\ (f - 1) * n < c
  <2> DEFINE m == c + n - 1
             r == m % n
  <2>1. f \in Int /\ r \in 0 .. n - 1 /\ m = f * n + r
    <3>1. n \in Nat \ {0} /\ c + n - 1 \in Int
      BY <1>1, <1>2
    <3> HIDE DEF c
    <3> QED BY <3>1, ModDef
  <2>2. (f - 1) * n = f * n - n /\ f * n \in Int
    <3> HIDE DEF f
    <3> QED BY <1>1, <2>1
  <2> HIDE DEF f, r, c
  <2> QED BY <1>1, <1>2, <2>1, <2>2
<1> HIDE DEF f
<1>4. c + q * n = (v + 1) * W
  <2>1. (v + 1) * W = v * W + W
    BY <1>1
  <2> QED BY <1>1, <1>2, <2>1
<1>5. (v + 1) * W <= n * W
  BY <1>1, MulMonotone
<1>6. ASSUME NEW x \in Accepted(n, v) PROVE x \in f .. f + q - 1
  <2>1. /\ x \in Words /\ x \in Nat /\ Hi(x, n) = v
        /\ Lo(x, n) \in Words /\ Lo(x, n) >= t
        /\ x * n = v * W + Lo(x, n)
    <3>1. x \in Words /\ Hi(x, n) = v /\ ~(Lo(x, n) < t)
      BY DEF Accepted, Rejects, t
    <3>2. Lo(x, n) \in Words /\ x * n = Hi(x, n) * W + Lo(x, n)
      BY <3>1, MulSplit
    <3> HIDE DEF Hi, Lo
    <3> QED BY <1>1, <3>1, <3>2 DEF Words
  <2>2. x * n >= c /\ x * n < c + q * n /\ x * n \in Int
    <3>1. (v + 1) * W = v * W + W
      BY <1>1
    <3>2. Lo(x, n) \in Nat /\ Lo(x, n) < W
      BY <2>1, <1>1 DEF Words
    <3>3. x * n < (v + 1) * W /\ x * n >= c
      <4> HIDE DEF Lo
      <4> QED BY <1>1, <1>2, <2>1, <3>1, <3>2
    <3> QED BY <1>1, <1>2, <1>4, <2>1, <3>3
  <2>3. x >= f
    <3> SUFFICES ASSUME x <= f - 1 PROVE FALSE
      BY <1>3, <2>1
    <3>1. x * n <= (f - 1) * n /\ (f - 1) * n \in Int
      BY <1>1, <1>3, <2>1, MulMonotone
    <3> QED BY <1>2, <1>3, <2>2, <3>1
  <2>4. x <= f + q - 1
    <3> SUFFICES ASSUME f <= x - q PROVE FALSE
      BY <1>1, <1>3, <2>1
    <3>1. f * n <= (x - q) * n
      BY <1>1, <1>3, <2>1, MulMonotone
    <3>2. (x - q) * n = x * n - q * n /\ f * n \in Int
      BY <1>1, <1>3, <2>1
    <3> QED BY <1>2, <1>3, <2>2, <3>1, <3>2
  <2> QED BY <1>1, <1>3, <2>1, <2>3, <2>4
<1>7. ASSUME NEW x \in f .. f + q - 1 PROVE x \in Accepted(n, v)
  <2>1. x \in Int /\ x >= f /\ x - q <= f - 1 /\ x * n \in Int
    BY <1>1, <1>3
  <2>2. x * n >= c
    <3>1. f * n <= x * n /\ f * n \in Int
      BY <1>1, <1>3, <2>1, MulMonotone
    <3> QED BY <1>2, <1>3, <2>1, <3>1
  <2>3. x * n < c + q * n
    <3>1. (x - q) * n <= (f - 1) * n
      BY <1>1, <1>3, <2>1, MulMonotone
    <3>2. (x - q) * n = x * n - q * n /\ (f - 1) * n \in Int
      BY <1>1, <1>3, <2>1
    <3> QED BY <1>2, <1>3, <2>1, <3>1, <3>2
  <2>4. x \in Words
    <3>1. x >= 0
      <4> SUFFICES ASSUME x <= -1 PROVE FALSE
        BY <2>1
      <4>1. x * n <= (-1) * n /\ (-1) * n = -n
        BY <1>1, <2>1, MulMonotone
      <4> QED BY <1>1, <1>2, <2>1, <2>2, <4>1
    <3>2. x <= W - 1
      <4> SUFFICES ASSUME W <= x PROVE FALSE
        BY <1>1, <2>1
      <4>1. W * n <= x * n /\ W * n = n * W /\ n * W \in Int
        BY <1>1, <2>1, MulMonotone
      <4>2. x * n < n * W
        <5>1. (v + 1) * W \in Int
          BY <1>1
        <5> QED BY <1>2, <1>4, <1>5, <2>1, <2>3, <4>1, <5>1
      <4> QED BY <2>1, <4>1, <4>2
    <3> QED BY <1>1, <2>1, <3>1, <3>2 DEF Words
  <2>5. Hi(x, n) = v /\ Lo(x, n) = x * n - v * W
    <3> DEFINE r == x * n - v * W
    <3>1. r \in 0 .. W - 1 /\ v * W + r = x * n
      <4>1. (v + 1) * W = v * W + W
        BY <1>1
      <4> QED BY <1>1, <1>2, <1>4, <2>1, <2>2, <2>3, <4>1
    <3> HIDE DEF r
    <3>2. (v * W + r) % W = r /\ (v * W + r) \div W = v
      BY <1>1, <3>1, ModIs
    <3> QED BY <3>1, <3>2 DEF Hi, Lo, r
  <2>6. ~(Lo(x, n) < t)
    BY <1>1, <1>2, <2>1, <2>2, <2>5
  <2> QED BY <2>4, <2>5, <2>6 DEF Accepted, Rejects, t
<1>8. Accepted(n, v) = f .. f + q - 1
  <2>1. Accepted(n, v) \subseteq f .. f + q - 1
    BY <1>6
  <2>2. f .. f + q - 1 \subseteq Accepted(n, v)
    BY <1>7
  <2> QED BY <2>1, <2>2
<1> QED BY <1>3, <1>8 DEF q

(* Every value has W \div n accepted words.                                *)
LEMMA AcceptedCount ==
  ASSUME NEW n \in 1 .. W - 1, NEW v \in 0 .. n - 1
  PROVE  /\ Cardinality(Accepted(n, v)) = W \div n
         /\ AcceptedAtOnce(n, v) \subseteq Accepted(n, v)
<1>1. PICK f \in Int : Accepted(n, v) = f .. f + (W \div n) - 1
  BY AcceptedIsInterval
<1> DEFINE q == W \div n
<1>2. q \in Nat /\ Threshold(n) \in 0 .. n - 1
  BY ThresholdIs
<1>3. Cardinality(f .. f + q - 1) = q
  <2> HIDE DEF q
  <2>1. f + q - 1 \in Int
    BY <1>2
  <2>2. Cardinality(f .. f + q - 1) =
          IF f > f + q - 1 THEN 0 ELSE (f + q - 1) - f + 1
    BY <2>1, FS_Interval
  <2> QED BY <1>2, <2>2
<1>4. AcceptedAtOnce(n, v) \subseteq Accepted(n, v)
  <2> SUFFICES ASSUME NEW x \in AcceptedAtOnce(n, v) PROVE x \in Accepted(n, v)
    OBVIOUS
  <2>1. x \in Words /\ Hi(x, n) = v /\ Lo(x, n) >= n
    BY DEF AcceptedAtOnce, FastPath
  <2>2. Lo(x, n) \in Int /\ n \in Int
    BY <2>1, MulSplit DEF Words
  <2>3. ~(Lo(x, n) < Threshold(n))
    <3> HIDE DEF Lo, Threshold
    <3> QED BY <1>2, <2>1, <2>2
  <2> QED BY <2>1, <2>3 DEF Accepted, Rejects
<1> QED BY <1>1, <1>3, <1>4
-------------------------------------------------------------------------------
(* The conversions of the interval generators.                             *)

(* A type size divides the number of words.                                *)
LEMMA SizeFacts ==
  ASSUME NEW size \in TypeSizes
  PROVE  /\ size \in Nat \ {0}
         /\ \E h \in Nat \ {0} : size = 2 * h /\ size \div 2 = h
         /\ \E m \in Nat : W = m * size
         /\ size <= W
<1>1. size \in Nat \ {0} /\ size % 2 = 0 /\ W % size = 0
  BY TypeSizesAssumption
<1>2. \E h \in Nat \ {0} : size = 2 * h /\ size \div 2 = h
  BY <1>1
<1> DEFINE m == W \div size
<1>3. m \in Int /\ W = m * size
  BY <1>1, WFacts, ModDef
<1> HIDE DEF m
<1>4. m >= 1
  <2> SUFFICES ASSUME m <= 0 PROVE FALSE
    BY <1>3
  <2>1. m * size <= 0 * size
    BY <1>1, <1>3, MulMonotone
  <2> QED BY <1>1, <1>3, <2>1, WFacts
<1>5. 1 * size <= m * size
  BY <1>1, <1>3, <1>4, MulMonotone
<1> QED BY <1>1, <1>2, <1>3, <1>4, <1>5

(* Each conversion between words moves a value by a multiple of W.         *)
LEMMA WordShift ==
  ASSUME NEW x \in Int
  PROVE  /\ \E k \in Int : ToWord(x) = x + k * W
         /\ \E k \in Int : FlipSign(x) = x + W \div 2 + k * W
         /\ ToWord(x) \in Words /\ FlipSign(x) \in Words
<1>1. W \div 2 \in Int /\ x + W \div 2 \in Int
  BY WFacts
<1>2. ASSUME NEW y \in Int PROVE y % W \in Words /\ \E k \in Int : y % W = y + k * W
  <2> DEFINE q == y \div W
             r == y % W
  <2>1. q \in Int /\ r \in 0 .. W - 1 /\ y = q * W + r
    BY WFacts, ModDef
  <2> HIDE DEF q, r
  <2>2. r = y + (-q) * W /\ -q \in Int
    <3>1. (-q) * W = -(q * W) /\ q * W \in Int
      BY <2>1, WFacts
    <3> QED BY <2>1, <3>1, WFacts
  <2>3. r \in Words
    BY <2>1 DEF Words
  <2> QED BY <2>2, <2>3 DEF r
<1> QED BY <1>1, <1>2 DEF ToWord, FlipSign

(* The sign flips cancel in the difference of the bounds.                  *)
LEMMA IntSpanIs ==
  ASSUME NEW l \in Int, NEW u \in Int, l < u, u - l < W
  PROVE  IntSpan(l, u) = u - l
<1>1. PICK a \in Int : ToWord(l) = l + a * W
  BY WordShift
<1>2. PICK b \in Int : ToWord(u) = u + b * W
  BY WordShift
<1>3. ToWord(l) \in Int /\ ToWord(u) \in Int
  BY WordShift, SMTT(30) DEF Words
<1>4. PICK c \in Int : FlipSign(ToWord(l)) = ToWord(l) + W \div 2 + c * W
  BY <1>3, WordShift
<1>5. PICK d \in Int : FlipSign(ToWord(u)) = ToWord(u) + W \div 2 + d * W
  BY <1>3, WordShift
<1> DEFINE k == b + d - a - c
<1>6. FlipSign(ToWord(u)) - FlipSign(ToWord(l)) = (u - l) + k * W
  <2>1. /\ a * W \in Int /\ b * W \in Int /\ c * W \in Int /\ d * W \in Int
        /\ W \div 2 \in Int
    BY WFacts
  <2>2. k * W = b * W + d * W - a * W - c * W
    BY WFacts
  <2> HIDE DEF k
  <2> QED BY <1>1, <1>2, <1>4, <1>5, <2>1, <2>2
<1>7. ((u - l) + k * W) % W = (u - l) % W
  <2>1. k \in Int /\ u - l \in Int
    OBVIOUS
  <2> HIDE DEF k
  <2> QED BY <2>1, WFacts, ModShift
<1>8. (u - l) % W = u - l
  <2>1. (0 * W + (u - l)) % W = u - l
    BY WFacts, ModIs
  <2> QED BY <2>1, WFacts
<1> QED BY <1>6, <1>7, <1>8 DEF IntSpan

(* A signed value is recovered from any word congruent to it.              *)
LEMMA ToSignedIs ==
  ASSUME NEW size \in TypeSizes, NEW y \in SignedValues(size), NEW k \in Int
  PROVE  ToSigned(y + k * W, size) = y
<1>1. PICK h \in Nat \ {0} : size = 2 * h /\ size \div 2 = h
  BY SizeFacts
<1>2. PICK m \in Nat : W = m * size
  BY SizeFacts
<1>3. size \in Nat \ {0} /\ y \in Int /\ -h <= y /\ y <= h - 1
  <2>1. size \in Nat \ {0}
    BY SizeFacts
  <2>2. y \in -h .. h - 1
    BY <1>1 DEF SignedValues
  <2> QED BY <2>1, <2>2, <1>1
<1>4. (y + k * W) % size = y % size
  <2>1. k * W = (k * m) * size /\ k * m \in Int
    BY <1>2, <1>3
  <2>2. (y + (k * m) * size) % size = y % size
    BY <1>3, <2>1, ModShift
  <2> QED BY <2>1, <2>2
<1>5. CASE y >= 0
  <2>1. (0 * size + y) % size = y
    BY <1>1, <1>3, <1>5, ModIs
  <2>2. y % size = y
    BY <2>1, <1>3
  <2> QED BY <1>1, <1>3, <1>4, <1>5, <2>2 DEF ToSigned
<1>6. CASE y < 0
  <2>1. ((-1) * size + (y + size)) % size = y + size
    <3>1. y + size \in 0 .. size - 1 /\ -1 \in Int
      BY <1>1, <1>3, <1>6
    <3>2. \A r \in 0 .. size - 1, j \in Int : (j * size + r) % size = r
      BY <1>3, ModIs
    <3> QED BY <3>1, <3>2
  <2>2. (-1) * size + (y + size) = y
    BY <1>3
  <2>3. y % size = y + size
    BY <2>1, <2>2
  <2>4. ~(y + size < h) /\ (y + size) - size = y
    BY <1>1, <1>3
  <2> QED BY <1>1, <1>4, <2>3, <2>4 DEF ToSigned
<1> QED BY <1>3, <1>5, <1>6

(* minU + v, flipped back and converted, is min + v.                       *)
LEMMA IntValueIs ==
  ASSUME NEW size \in TypeSizes, NEW l \in Int, NEW v \in Int,
         l + v \in SignedValues(size)
  PROVE  ToSigned(FlipSign((FlipSign(ToWord(l)) + v) % W), size) = l + v
<1>1. PICK a \in Int : ToWord(l) = l + a * W
  BY WordShift
<1>2. ToWord(l) \in Int /\ FlipSign(ToWord(l)) \in Int
  BY WordShift, SMTT(30) DEF Words
<1>3. PICK b \in Int : FlipSign(ToWord(l)) = ToWord(l) + W \div 2 + b * W
  BY <1>2, WordShift
<1> DEFINE f == FlipSign(ToWord(l)) + v
<1>4. f \in Int
  BY <1>2
<1>5. PICK c \in Int : ToWord(f) = f + c * W
  BY <1>4, WordShift
<1>6. ToWord(f) \in Int
  BY <1>4, WordShift DEF Words
<1>7. PICK d \in Int : FlipSign(ToWord(f)) = ToWord(f) + W \div 2 + d * W
  BY <1>6, WordShift
<1>8. PICK h \in Int : W = 2 * h /\ W \div 2 = h
  BY HalfFacts
<1> DEFINE k == a + b + c + d + 1
<1>9. FlipSign(ToWord(f)) = (l + v) + k * W
  <2>1. a * W \in Int /\ b * W \in Int /\ c * W \in Int /\ d * W \in Int
    BY WFacts
  <2>2. k * W = a * W + b * W + c * W + d * W + W
    BY WFacts
  <2>3. f = l + a * W + h + b * W + v
    BY <1>1, <1>3, <1>8, <2>1
  <2> HIDE DEF k, f
  <2> QED BY <1>4, <1>5, <1>7, <1>8, <2>1, <2>2, <2>3
<1>10. ToSigned((l + v) + k * W, size) = l + v
  <2>1. k \in Int
    OBVIOUS
  <2> HIDE DEF k
  <2> QED BY <2>1, ToSignedIs
<1> QED BY <1>9, <1>10 DEF ToWord

(* max-min in the type's own width, and min + T(v).                        *)
LEMMA UintFacts ==
  ASSUME NEW size \in TypeSizes, NEW l \in UnsignedValues(size)
  PROVE  /\ \A u \in UnsignedValues(size) : l < u => UintSpan(l, u, size) = u - l
         /\ \A v \in Nat : l + v \in UnsignedValues(size) =>
              ToUnsigned(l + ToUnsigned(v, size), size) = l + v
<1>1. size \in Nat \ {0} /\ l \in Nat
  <2>1. size \in Nat \ {0}
    BY SizeFacts
  <2>2. l \in 0 .. size - 1
    BY DEF UnsignedValues
  <2> QED BY <2>1, <2>2
<1>2. ASSUME NEW y \in 0 .. size - 1 PROVE y % size = y
  <2>1. (0 * size + y) % size = y
    BY <1>1, ModIs
  <2> QED BY <1>1, <2>1
<1>3. ASSUME NEW u \in UnsignedValues(size), l < u
      PROVE  UintSpan(l, u, size) = u - l
  <2>1. u - l \in 0 .. size - 1
    BY <1>1, <1>3 DEF UnsignedValues
  <2> QED BY <2>1, <1>2 DEF UintSpan
<1>4. ASSUME NEW v \in Nat, l + v \in UnsignedValues(size)
      PROVE  ToUnsigned(l + ToUnsigned(v, size), size) = l + v
  <2>1. v \in 0 .. size - 1 /\ l + v \in 0 .. size - 1
    BY <1>1, <1>4 DEF UnsignedValues
  <2>2. v % size = v /\ (l + v) % size = l + v
    BY <2>1, <1>2
  <2> QED BY <2>2 DEF ToUnsigned
<1> QED BY <1>3, <1>4
-------------------------------------------------------------------------------
(* The calls.                                                              *)

(* A call that draws: ordered bounds of its type, and their difference.    *)
DrawingCall(c) ==
  /\ c.size \in TypeSizes
  /\ \/ /\ c.kind = "IntInterval"
        /\ c.lower \in SignedValues(c.size) /\ c.upper \in SignedValues(c.size)
     \/ /\ c.kind = "UintInterval"
        /\ c.lower \in UnsignedValues(c.size) /\ c.upper \in UnsignedValues(c.size)
  /\ c.n = c.upper - c.lower
  /\ c.n \in 1 .. W - 1

(* While a call draws its bounds are sound; in the loop, and once it has   *)
(* returned, its last word explains what it holds.                         *)
CallInv ==
  /\ stage \in {"draw", "slow"} => DrawingCall(call)
  /\ stage = "slow" => /\ word \in Words
                    /\ hi = Hi(word, call.n)
                    /\ lo = Lo(word, call.n)
  /\ stage = "done" => call.n = 0 \/ (DrawingCall(call) /\ word \in Words)
  /\ ResultFromAcceptedWord

(* Two different values of a type lie less than the whole range apart.     *)
LEMMA SpanBounds ==
  ASSUME NEW size \in TypeSizes, NEW l \in Int, NEW u \in Int, l < u,
         \/ (l \in SignedValues(size) /\ u \in SignedValues(size))
         \/ (l \in UnsignedValues(size) /\ u \in UnsignedValues(size))
  PROVE  u - l \in 1 .. W - 1
<1>1. PICK h \in Nat \ {0} : size = 2 * h /\ size \div 2 = h
  BY SizeFacts
<1>2. size <= W /\ W \in Nat
  BY SizeFacts, WFacts
<1>3. u - l < size
  BY <1>1 DEF SignedValues, UnsignedValues
<1> QED BY <1>1, <1>2, <1>3

(* For a drawing call, the values of 0 .. n-1 are those of the interval.   *)
LEMMA ValueIs ==
  ASSUME NEW c, DrawingCall(c), NEW v \in 0 .. c.n - 1
  PROVE  Value(c, v) = c.lower + v
<1>1. /\ c.size \in TypeSizes /\ c.n \in 1 .. W - 1 /\ c.n = c.upper - c.lower
      /\ v \in Nat /\ v \in Int
  BY WFacts DEF DrawingCall
<1>2. PICK h \in Nat \ {0} : c.size = 2 * h /\ c.size \div 2 = h
  BY <1>1, SizeFacts
<1>3. CASE /\ c.kind = "IntInterval"
           /\ c.lower \in SignedValues(c.size) /\ c.upper \in SignedValues(c.size)
  <2>1. c.lower \in Int /\ c.lower + v \in SignedValues(c.size)
    BY <1>1, <1>2, <1>3 DEF SignedValues
  <2> QED BY <1>1, <1>3, <2>1, IntValueIs DEF Value
<1>4. CASE /\ c.kind = "UintInterval"
           /\ c.lower \in UnsignedValues(c.size) /\ c.upper \in UnsignedValues(c.size)
  <2>1. c.lower \in Int /\ c.lower + v \in UnsignedValues(c.size)
    BY <1>1, <1>2, <1>4 DEF UnsignedValues
  <2> QED BY <1>1, <1>4, <2>1, UintFacts DEF Value
<1> QED BY <1>3, <1>4 DEF DrawingCall

LEMMA OrderedIs ==
  ASSUME NEW a \in Int, NEW b \in Int, a # b
  PROVE  /\ Ordered(a, b)[1] < Ordered(a, b)[2]
         /\ Ordered(a, b)[1] \in {a, b} /\ Ordered(a, b)[2] \in {a, b}
BY DEF Ordered

(* An interval call starts to draw with sound bounds.                      *)
LEMMA StartsDrawing ==
  ASSUME NEW size \in TypeSizes,
         NEW a \in Int, NEW b \in Int,
         \/ /\ IntInterval(size, a, b)
            /\ a \in SignedValues(size) /\ b \in SignedValues(size)
         \/ /\ UintInterval(size, a, b)
            /\ a \in UnsignedValues(size) /\ b \in UnsignedValues(size)
  PROVE  CallInv'
<1> DEFINE l == Ordered(a, b)[1]
           u == Ordered(a, b)[2]
<1>1. CASE a = b
  <2>1. stage' = "done" /\ call'.n = 0
    BY <1>1 DEF IntInterval, UintInterval, StartInterval
  <2> QED BY <2>1 DEF CallInv, ResultFromAcceptedWord
<1>2. CASE a # b
  <2>1. /\ l < u /\ l \in {a, b} /\ u \in {a, b}
        /\ l \in Int /\ u \in Int
    BY <1>2, OrderedIs
  <2>2. CASE IntInterval(size, a, b) /\ a \in SignedValues(size) /\ b \in SignedValues(size)
    <3>1. /\ stage' = "draw"
          /\ call' = [kind |-> "IntInterval", size |-> size, lower |-> l,
                      upper |-> u, n |-> IntSpan(l, u)]
      BY <1>2, <2>2 DEF IntInterval, StartInterval
    <3> HIDE DEF l, u
    <3>2. l \in SignedValues(size) /\ u \in SignedValues(size)
      BY <2>1, <2>2
    <3>3. u - l \in 1 .. W - 1
      BY <2>1, <3>2, SpanBounds
    <3>4. u - l < W
      BY <2>1, <3>3, WFacts
    <3>5. IntSpan(l, u) = u - l
      BY <2>1, <3>4, IntSpanIs
    <3>6. DrawingCall(call')
      BY <3>1, <3>2, <3>3, <3>5 DEF DrawingCall
    <3> QED BY <3>1, <3>6 DEF CallInv, ResultFromAcceptedWord
  <2>3. CASE UintInterval(size, a, b) /\ a \in UnsignedValues(size) /\ b \in UnsignedValues(size)
    <3>1. /\ stage' = "draw"
          /\ call' = [kind |-> "UintInterval", size |-> size, lower |-> l,
                      upper |-> u, n |-> UintSpan(l, u, size)]
      BY <1>2, <2>3 DEF UintInterval, StartInterval
    <3> HIDE DEF l, u
    <3>2. l \in UnsignedValues(size) /\ u \in UnsignedValues(size)
      BY <2>1, <2>3
    <3>3. u - l \in 1 .. W - 1 /\ UintSpan(l, u, size) = u - l
      BY <2>1, <3>2, SpanBounds, UintFacts
    <3>4. DrawingCall(call')
      BY <3>1, <3>2, <3>3 DEF DrawingCall
    <3> QED BY <3>1, <3>4 DEF CallInv, ResultFromAcceptedWord
  <2> QED BY <2>2, <2>3
<1> QED BY <1>1, <1>2

(* What the fast path takes, the loop would not reject.                    *)
LEMMA FastNotRejected ==
  ASSUME NEW n \in 1 .. W - 1, NEW x \in Words, FastPath(Lo(x, n), n)
  PROVE  ~Rejects(Lo(x, n), n)
<1>1. Lo(x, n) \in Int /\ Threshold(n) \in 0 .. n - 1 /\ n \in Int
  BY MulSplit, ThresholdIs DEF Words
<1> HIDE DEF Lo, Threshold
<1> QED BY <1>1 DEF FastPath, Rejects

LEMMA CallInvHolds == BoundedSpec => []CallInv
<1>1. BoundedInit => CallInv
  BY DEF BoundedInit, CallInv, ResultFromAcceptedWord
<1>2. CallInv /\ [BoundedNext]_boundedVars => CallInv'
  <2> SUFFICES ASSUME CallInv, [BoundedNext]_boundedVars PROVE CallInv'
    OBVIOUS
  <2>1. ASSUME NEW size \in TypeSizes, NEW a \in SignedValues(size),
               NEW b \in SignedValues(size), IntInterval(size, a, b)
        PROVE  CallInv'
    <3>1. a \in Int /\ b \in Int
      BY DEF SignedValues
    <3> QED BY <2>1, <3>1, StartsDrawing
  <2>2. ASSUME NEW size \in TypeSizes, NEW a \in UnsignedValues(size),
               NEW b \in UnsignedValues(size), UintInterval(size, a, b)
        PROVE  CallInv'
    <3>1. a \in Int /\ b \in Int
      BY SizeFacts DEF UnsignedValues
    <3> QED BY <2>2, <3>1, StartsDrawing
  <2>3. ASSUME NEW size \in TypeSizes, NEW x \in Words,
               Int_(size, x) \/ Uint_(size, x)
        PROVE  CallInv'
    <3>1. stage' = "done" /\ call'.n = 0
      BY <2>3 DEF Int_, Uint_, WholeWord
    <3> QED BY <3>1 DEF CallInv, ResultFromAcceptedWord
  <2>4. ASSUME NEW x \in Words, Draw(x) PROVE CallInv'
    <3>1. /\ stage = "draw" /\ call' = call /\ DrawingCall(call)
          /\ word' = x /\ hi' = Hi(x, call.n) /\ lo' = Lo(x, call.n)
      BY <2>4 DEF Draw, Multiply, CallInv
    <3>2. CASE FastPath(Lo(x, call.n), call.n)
      <4>1. stage' = "done" /\ result' = Value(call, Hi(x, call.n))
        BY <2>4, <3>2 DEF Draw, Finish
      <4>2. ~Rejects(Lo(x, call.n), call.n)
        BY <3>1, <3>2, FastNotRejected DEF DrawingCall
      <4>3. ResultFromAcceptedWord'
        BY <3>1, <4>1, <4>2 DEF ResultFromAcceptedWord
      <4>4. DrawingCall(call)' /\ word' \in Words
        BY <3>1 DEF DrawingCall
      <4> QED BY <4>1, <4>3, <4>4 DEF CallInv
    <3>3. CASE ~FastPath(Lo(x, call.n), call.n)
      <4>1. stage' = "slow"
        BY <2>4, <3>3 DEF Draw
      <4> QED BY <3>1, <4>1 DEF CallInv, ResultFromAcceptedWord
    <3> QED BY <3>2, <3>3
  <2>5. ASSUME NEW x \in Words, Redraw(x) PROVE CallInv'
    BY <2>5 DEF Redraw, Multiply, CallInv, ResultFromAcceptedWord
  <2>6. CASE Accept
    <3>1. /\ stage = "slow" /\ stage' = "done" /\ call' = call /\ word' = word
          /\ ~Rejects(lo, call.n) /\ result' = Value(call, hi)
      BY <2>6 DEF Accept, Finish
    <3> QED BY <3>1 DEF CallInv, ResultFromAcceptedWord
  <2>7. CASE ReturnBounded
    BY <2>7 DEF ReturnBounded, CallInv, ResultFromAcceptedWord
  <2>8. CASE UNCHANGED boundedVars
    BY <2>8 DEF boundedVars, CallInv, ResultFromAcceptedWord
  <2> QED BY <2>1, <2>2, <2>3, <2>4, <2>5, <2>6, <2>7, <2>8 DEF BoundedNext
<1> QED BY <1>1, <1>2, PTL DEF BoundedSpec

(* boundedFrom is exactly uniform: for the n of every call, every value    *)
(* below n comes from W \div n accepted words, in 64 bits as in five.      *)
THEOREM WordsUniformHolds == BoundedSpec => []WordsUniform
<1>1. CallInv => WordsUniform
  <2> SUFFICES ASSUME CallInv, stage \in {"draw", "slow"},
                      NEW v \in 0 .. call.n - 1
               PROVE  /\ Cardinality(Accepted(call.n, v)) = W \div call.n
                      /\ AcceptedAtOnce(call.n, v) \subseteq Accepted(call.n, v)
    BY DEF WordsUniform
  <2>1. call.n \in 1 .. W - 1
    BY DEF CallInv, DrawingCall
  <2> QED BY <2>1, AcceptedCount
<1> QED BY <1>1, CallInvHolds, PTL

(* IntInterval and UintInterval reach every value of [min, max) and no     *)
(* other, for every integer type and all bounds, the extreme ones too.     *)
THEOREM IntervalCoveredHolds == BoundedSpec => []IntervalCovered
<1>1. CallInv => IntervalCovered
  <2> SUFFICES ASSUME CallInv, stage \in {"draw", "slow"}
               PROVE  /\ call.n = call.upper - call.lower
                      /\ {Value(call, v) : v \in 0 .. call.n - 1} =
                            call.lower .. call.upper - 1
    BY DEF IntervalCovered
  <2>1. DrawingCall(call)
    BY DEF CallInv
  <2>2. /\ call.n = call.upper - call.lower /\ call.n \in 1 .. W - 1
        /\ call.lower \in Int /\ call.upper \in Int
    BY <2>1 DEF DrawingCall, SignedValues, UnsignedValues
  <2>3. {Value(call, v) : v \in 0 .. call.n - 1} =
          {call.lower + v : v \in 0 .. call.n - 1}
    BY <2>1, ValueIs
  <2>4. ASSUME NEW y \in call.lower .. call.upper - 1
        PROVE  \E v \in 0 .. call.n - 1 : y = call.lower + v
    <3>1. y - call.lower \in 0 .. call.n - 1 /\ y = call.lower + (y - call.lower)
      BY <2>2
    <3> QED BY <3>1
  <2>5. ASSUME NEW v \in 0 .. call.n - 1
        PROVE  call.lower + v \in call.lower .. call.upper - 1
    BY <2>2
  <2> QED BY <2>2, <2>3, <2>4, <2>5
<1> QED BY <1>1, CallInvHolds, PTL

(* No value of a rejected word leaks out of the loop.                      *)
THEOREM ResultFromAcceptedWordHolds == BoundedSpec => []ResultFromAcceptedWord
<1>1. CallInv => ResultFromAcceptedWord
  BY DEF CallInv
<1> QED BY <1>1, CallInvHolds, PTL

-------------------------------------------------------------------------------
(* Induction, and functions defined by recursion.                          *)

(* A set with 0 and with every successor has all natural numbers.          *)
LEMMA Reached ==
  ASSUME NEW S, 0 \in S, \A k \in Nat : k \in S => k + 1 \in S
  PROVE  \A k \in Nat : k \in S
<1>1. PICK T : T = Nat \ S
  OBVIOUS
<1>2. SUFFICES ASSUME T # {} PROVE FALSE
  BY <1>1
<1>3. PICK R : R = OpToRel(<, Nat)
  OBVIOUS
<1>4. IsWellFoundedOn(R, Nat)
  BY <1>3, NatLessThanWellFounded
<1>5. \E x \in T : \A y \in T : <<y, x>> \notin R
  BY <1>1, <1>2, <1>4, WFMin
<1>6. PICK x \in T : \A y \in T : <<y, x>> \notin R
  BY <1>5
<1>7. x \in Nat /\ x # 0 /\ x - 1 \in Nat
  BY <1>1
<1>8. <<x - 1, x>> \in R
  BY <1>3, <1>7 DEF OpToRel
<1>9. x - 1 \in S
  BY <1>1, <1>6, <1>7, <1>8
<1>10. (x - 1) + 1 = x
  BY <1>7
<1> QED BY <1>1, <1>7, <1>9, <1>10

(* f begins with a and goes on with g, up to m.                            *)
Recursive(f, a, g, m, V) ==
  f \in [0 .. m -> V] /\ f[0] = a /\ \A k \in 1 .. m : f[k] = g[<<k, f[k - 1]>>]

(* A function may be defined by recursion.                                 *)
LEMMA Recursion ==
  ASSUME NEW V, NEW a \in V, NEW m \in Nat, NEW g,
         \A k \in 1 .. m, v \in V : g[<<k, v>>] \in V
  PROVE  \E f : Recursive(f, a, g, m, V)
<1>1. PICK S : S = {n \in Nat : n <= m => \E f : Recursive(f, a, g, n, V)}
  OBVIOUS
<1>2. 0 \in S
  <2>1. PICK f : f = [k \in 0 .. 0 |-> a]
    OBVIOUS
  <2>2. Recursive(f, a, g, 0, V)
    BY <2>1 DEF Recursive
  <2> QED BY <1>1, <2>2
<1>3. ASSUME NEW n \in Nat, n \in S PROVE n + 1 \in S
  <2>1. SUFFICES ASSUME n + 1 <= m PROVE \E f : Recursive(f, a, g, n + 1, V)
    BY <1>1
  <2>2. PICK f : Recursive(f, a, g, n, V)
    BY <1>1, <1>3, <2>1
  <2>3. /\ f \in [0 .. n -> V] /\ f[0] = a
        /\ \A k \in 1 .. n : f[k] = g[<<k, f[k - 1]>>]
    BY <2>2 DEF Recursive
  <2>4. PICK v : v = g[<<n + 1, f[n]>>]
    OBVIOUS
  <2>5. v \in V
    BY <2>1, <2>3, <2>4
  <2>6. PICK h : h = [k \in 0 .. n + 1 |-> IF k = n + 1 THEN v ELSE f[k]]
    OBVIOUS
  <2>7. h[n + 1] = v /\ \A k \in 0 .. n : h[k] = f[k]
    BY <2>6
  <2>8. h \in [0 .. n + 1 -> V]
    <3>1. \A k \in 0 .. n + 1 : k = n + 1 \/ k \in 0 .. n
      OBVIOUS
    <3> QED BY <2>3, <2>5, <2>6, <2>7, <3>1
  <2>9. ASSUME NEW k \in 1 .. n + 1 PROVE h[k] = g[<<k, h[k - 1]>>]
    <3>1. CASE k = n + 1
      <4>1. k - 1 = n /\ n \in 0 .. n
        BY <3>1
      <4> QED BY <2>4, <2>7, <3>1, <4>1
    <3>2. CASE k # n + 1
      <4>1. k \in 1 .. n /\ k \in 0 .. n /\ k - 1 \in 0 .. n
        BY <3>2
      <4> QED BY <2>3, <2>7, <4>1
    <3> QED BY <3>1, <3>2
  <2>10. h[0] = a
    BY <2>3, <2>7
  <2>11. Recursive(h, a, g, n + 1, V)
    BY <2>8, <2>9, <2>10 DEF Recursive
  <2> QED BY <2>11
<1>4. m \in S
  BY <1>2, <1>3, Reached
<1> QED BY <1>1, <1>4

-------------------------------------------------------------------------------
(* Powers, and how many digits a word yields.                              *)

Powered(p, n) ==
  /\ p \in [0 .. WordBits -> Nat]
  /\ p[0] = 1
  /\ \A k \in 1 .. WordBits : p[k] = p[k - 1] * n

LEMMA PowerIs ==
  ASSUME NEW n \in Nat
  PROVE  Powered(Power(n), n)
<1> DEFINE F(p) == [k \in 0 .. WordBits |-> IF k = 0 THEN 1 ELSE p[k - 1] * n]
           prod == CHOOSE p : p = F(p)
<1>1. Power(n) = prod
  BY DEF Power
<1>2. PICK g : g = [kv \in (1 .. WordBits) \X Nat |-> kv[2] * n]
  OBVIOUS
<1>3. WordBits \in Nat
  BY WordBitsAssumption
<1>4. \A k \in 1 .. WordBits, v \in Nat : g[<<k, v>>] = v * n /\ g[<<k, v>>] \in Nat
  BY <1>2
<1>5. PICK h : Recursive(h, 1, g, WordBits, Nat)
  BY <1>3, <1>4, Recursion
<1>6. h \in [0 .. WordBits -> Nat] /\ h[0] = 1 /\ \A k \in 1 .. WordBits : h[k] = h[k - 1] * n
  <2>1. /\ h \in [0 .. WordBits -> Nat] /\ h[0] = 1
        /\ \A k \in 1 .. WordBits : h[k] = g[<<k, h[k - 1]>>]
    BY <1>5 DEF Recursive
  <2>2. \A k \in 1 .. WordBits : k - 1 \in 0 .. WordBits
    BY <1>3
  <2> QED BY <1>4, <2>1, <2>2
<1>7. h = F(h)
  <2>1. ASSUME NEW k \in 0 .. WordBits PROVE h[k] = IF k = 0 THEN 1 ELSE h[k - 1] * n
    <3>1. k # 0 => k \in 1 .. WordBits
      BY <1>3
    <3> QED BY <1>6, <3>1
  <2>2. h = [k \in 0 .. WordBits |-> h[k]]
    BY <1>6
  <2> QED BY <2>1, <2>2
<1>8. prod = F(prod)
  BY <1>7
<1> HIDE DEF prod
<1>9. prod = [k \in 0 .. WordBits |-> IF k = 0 THEN 1 ELSE prod[k - 1] * n]
  BY <1>8
<1>10. prod[0] = 1 /\ \A k \in 1 .. WordBits : prod[k] = prod[k - 1] * n
  <2>1. 0 \in 0 .. WordBits /\ \A k \in 1 .. WordBits : k \in 0 .. WordBits /\ k # 0
    BY <1>3
  <2>2. \A k \in 0 .. WordBits : prod[k] = IF k = 0 THEN 1 ELSE prod[k - 1] * n
    BY ONLY <1>9
  <2> QED BY ONLY <2>1, <2>2
<1>11. \A k \in 0 .. WordBits : prod[k] \in Nat
  <2>1. PICK S : S = {k \in Nat : k <= WordBits => prod[k] \in Nat}
    OBVIOUS
  <2>2. 0 \in S
    BY <1>10, <2>1
  <2>3. ASSUME NEW k \in Nat, k \in S PROVE k + 1 \in S
    <3>1. SUFFICES ASSUME k + 1 <= WordBits PROVE prod[k + 1] \in Nat
      BY <2>1
    <3>2. k + 1 \in 1 .. WordBits /\ (k + 1) - 1 = k /\ prod[k] \in Nat
      BY <1>3, <2>1, <2>3, <3>1
    <3>3. prod[k + 1] = prod[k] * n
      BY <1>10, <3>2
    <3> QED BY <3>2, <3>3
  <2>4. \A k \in Nat : k \in S
    BY <2>2, <2>3, Reached
  <2> QED BY <1>3, <2>1, <2>4
<1>12. prod \in [0 .. WordBits -> Nat]
  <2>1. prod = [k \in 0 .. WordBits |-> prod[k]]
    BY <1>9
  <2> QED BY <1>11, <2>1
<1> QED BY <1>1, <1>10, <1>12 DEF Powered

(* The powers of a base grow with the exponent.                            *)
LEMMA PowerGrows ==
  ASSUME NEW n \in Nat \ {0}, NEW k \in 0 .. WordBits, NEW l \in k .. WordBits
  PROVE  Power(n)[k] >= 1 /\ Power(n)[k] <= Power(n)[l]
<1> DEFINE p == Power(n)
<1>1. /\ p \in [0 .. WordBits -> Nat] /\ p[0] = 1
      /\ \A j \in 1 .. WordBits : p[j] = p[j - 1] * n
  BY PowerIs DEF Powered
<1> HIDE DEF p
<1>2. WordBits \in Nat
  BY WordBitsAssumption
<1>3. ASSUME NEW j \in 1 .. WordBits PROVE p[j - 1] \in Nat /\ p[j - 1] <= p[j]
  <2>1. p[j - 1] \in Nat /\ p[j] = p[j - 1] * n
    BY <1>1, <1>2
  <2>2. PICK a \in Nat : a = p[j - 1]
    BY <2>1
  <2>3. 1 * a <= n * a /\ n * a = a * n /\ 1 * a = a
    BY MulMonotone
  <2> QED BY <2>1, <2>2, <2>3
<1>4. ASSUME NEW i \in 0 .. WordBits
      PROVE  \A j \in Nat : i + j <= WordBits => p[i] <= p[i + j]
  <2>1. PICK S : S = {j \in Nat : i + j <= WordBits => p[i] <= p[i + j]}
    OBVIOUS
  <2>2. 0 \in S
    <3>1. i + 0 = i /\ p[i] \in Nat
      BY <1>1
    <3> QED BY <2>1, <3>1
  <2>3. ASSUME NEW j \in Nat, j \in S PROVE j + 1 \in S
    <3>1. SUFFICES ASSUME i + (j + 1) <= WordBits PROVE p[i] <= p[i + (j + 1)]
      BY <2>1
    <3>2. i + j + 1 \in 1 .. WordBits /\ (i + j + 1) - 1 = i + j /\ i + j <= WordBits
          /\ i + j \in 0 .. WordBits /\ i + (j + 1) = i + j + 1
      BY <1>2, <3>1
    <3>3. p[i] <= p[i + j] /\ p[i + j] <= p[i + j + 1]
      <4>1. p[i] <= p[i + j]
        BY <2>1, <2>3, <3>2
      <4>2. PICK m \in 1 .. WordBits : m = i + j + 1 /\ m - 1 = i + j
        BY <3>2
      <4>3. p[m - 1] <= p[m]
        BY <1>3
      <4> QED BY <4>1, <4>2, <4>3
    <3>4. p[i] \in Nat /\ p[i + j] \in Nat /\ p[i + j + 1] \in Nat
      BY <1>1, <1>2, <3>2
    <3> QED BY <3>2, <3>3, <3>4
  <2>4. \A j \in Nat : j \in S
    BY <2>2, <2>3, Reached
  <2> QED BY <2>1, <2>4
<1>5. p[k] <= p[l]
  <2>1. l - k \in Nat /\ k + (l - k) = l
    BY <1>2
  <2> QED BY <1>2, <1>4, <2>1
<1>6. p[0] <= p[k]
  <2>1. 0 \in 0 .. WordBits /\ k \in Nat /\ 0 + k = k
    BY <1>2
  <2> QED BY <1>2, <1>4, <2>1
<1>7. p[k] \in Nat
  BY <1>1
<1> QED BY <1>1, <1>5, <1>6, <1>7 DEF p

(* A set of numbers up to m has a greatest one.                            *)
LEMMA MaxIs ==
  ASSUME NEW m \in Nat, NEW S, S \subseteq 1 .. m, S # {}
  PROVE  Max(S) \in S /\ \A x \in S : Max(S) >= x
<1>1. \E x \in S : \A y \in S : x >= y
  <2>1. SUFFICES ASSUME \A x \in S : \E y \in S : y > x PROVE FALSE
    <3>1. \A x, y \in S : x >= y \/ y > x
      OBVIOUS
    <3> QED BY <3>1
  <2>2. PICK T : T = {j \in Nat : \E x \in S : x >= j}
    OBVIOUS
  <2>3. 0 \in T
    <3>1. PICK x \in S : x \in 1 .. m
      OBVIOUS
    <3>2. x >= 0
      BY <3>1
    <3> QED BY <2>2, <3>2
  <2>4. ASSUME NEW j \in Nat, j \in T PROVE j + 1 \in T
    <3>1. PICK x \in S : x >= j
      BY <2>2, <2>4
    <3>2. PICK y \in S : y > x
      BY <2>1
    <3>3. y >= j + 1
      BY <3>1, <3>2
    <3> QED BY <2>2, <3>3
  <2>5. m + 1 \in T
    <3>1. \A j \in Nat : j \in T
      BY <2>3, <2>4, Reached
    <3> QED BY <3>1
  <2> QED BY <2>2, <2>5
<1> QED BY <1>1 DEF Max

(* A batch has at least one digit, and the product of its bases fits in a  *)
(* word.                                                                   *)
LEMMA BatchFits ==
  ASSUME NEW n \in 1 .. W - 1, n <= WideAbove
  PROVE  /\ batchSpecs[n] \in 1 .. WordBits
         /\ \A k \in 0 .. batchSpecs[n] : Power(n)[k] \in 1 .. W - 1
<1>1. WordBits \in Nat \ {0} /\ W \in Nat \ {0, 1} /\ WideAbove \in Nat
  BY WordBitsAssumption, WidthAssumption, DictionariesAssumption
<1>2. n \in Nat \ {0} /\ n \in 0 .. WideAbove
  BY <1>1
<1>3. batchSpecs[n] = BatchSize(n)
  BY <1>2 DEF batchSpecs
<1>4. /\ Power(n) \in [0 .. WordBits -> Nat] /\ Power(n)[0] = 1
      /\ \A k \in 1 .. WordBits : Power(n)[k] = Power(n)[k - 1] * n
  BY <1>2, PowerIs DEF Powered
<1>5. CASE n = 1
  <2>1. BatchSize(n) = WordBits
    BY <1>5 DEF BatchSize
  <2>2. \A k \in Nat : k <= WordBits => Power(n)[k] = 1
    <3>1. PICK S : S = {k \in Nat : k <= WordBits => Power(n)[k] = 1}
      OBVIOUS
    <3>2. 0 \in S
      BY <1>4, <3>1
    <3>3. ASSUME NEW k \in Nat, k \in S PROVE k + 1 \in S
      <4>1. SUFFICES ASSUME k + 1 <= WordBits PROVE Power(n)[k + 1] = 1
        BY <3>1
      <4>2. k + 1 \in 1 .. WordBits /\ (k + 1) - 1 = k /\ k <= WordBits
        BY <1>1, <4>1
      <4>3. Power(n)[k + 1] = Power(n)[k] * n /\ Power(n)[k] = 1
        BY <1>4, <3>1, <3>3, <4>2
      <4> QED BY <1>5, <4>3
    <3> QED BY <3>1, <3>2, <3>3, Reached
  <2> QED BY <1>1, <1>3, <2>1, <2>2
<1>6. CASE n # 1
  <2> DEFINE S == {k \in Fitting(n) : k = 1 \/ Excess(Power(n)[k]) <= W \div 16}
  <2>1. BatchSize(n) = Max(S)
    BY <1>2, <1>6 DEF BatchSize
  <2>2. 1 \in S
    <3>1. 1 \in 1 .. WordBits /\ 1 - 1 = 0
      BY <1>1
    <3>2. Power(n)[1] = n /\ n < W
      <4>1. Power(n)[1] = Power(n)[0] * n
        BY <1>4, <3>1
      <4> QED BY <1>1, <1>2, <1>4, <4>1
    <3> QED BY <3>1, <3>2 DEF Fitting
  <2>3. S \subseteq 1 .. WordBits /\ \A k \in S : Power(n)[k] < W
    BY DEF Fitting
  <2> HIDE DEF S
  <2>4. Max(S) \in S
    BY <1>1, <2>2, <2>3, MaxIs
  <2>5. Max(S) \in 1 .. WordBits /\ Power(n)[Max(S)] < W
    BY <2>3, <2>4
  <2>6. ASSUME NEW k \in 0 .. Max(S) PROVE Power(n)[k] \in 1 .. W - 1
    <3>1. PICK m \in 1 .. WordBits : m = Max(S)
      BY <2>5
    <3>2. k \in 0 .. WordBits /\ m \in k .. WordBits /\ m \in 0 .. WordBits
      BY <1>1, <3>1
    <3>3. Power(n)[k] >= 1 /\ Power(n)[k] <= Power(n)[m]
      BY <1>2, <3>2, PowerGrows
    <3>4. Power(n)[k] \in Nat /\ Power(n)[m] \in Nat
      BY <1>4, <3>2
    <3> QED BY <1>1, <2>5, <3>1, <3>3, <3>4
  <2> QED BY <1>3, <2>1, <2>5, <2>6
<1> QED BY <1>5, <1>6

-------------------------------------------------------------------------------
(* Words without adjacent duplicates.                                      *)

Cells == Bytes \union {NoByte}

SamplerType(len) ==
  [out : [1 .. len -> Cells], i : Nat, last : Cells, lastIdx : Nat,
   lo : Words, prod : Int, d : Nat]

(* What the sampler has written so far: symbols of the dictionary, none    *)
(* equal to the one before it, and last remembers the newest.              *)
Filled(s, D, len) ==
  /\ s \in SamplerType(len)
  /\ s.i \in 1 .. len + 1
  /\ \A k \in 1 .. s.i - 1 : s.out[k] \in Range(D)
  /\ \A k \in 1 .. s.i - 2 : s.out[k] # s.out[k + 1]
  /\ s.i > 1 => /\ s.last = s.out[s.i - 1]
                 /\ s.last = At(D, s.lastIdx) /\ s.lastIdx < Len(D)

(* The symbols t had are symbols of s.                                     *)
Continues(s, t) ==
  /\ t.i <= s.i
  /\ \A k \in 1 .. t.i - 1 : s.out[k] = t.out[k]

Request(D, len) ==
  /\ D \in Dictionaries
  /\ len \in Nat \ {0}
  /\ ~Refuses(D, len)

Answered ==
  \/ Refuses(dict, length) /\ st = Blank(0)
  \/ length \in Nat /\ Filled(st, dict, length) /\ st.i = length + 1

Sampling ==
  /\ Request(dict, length)
  /\ Filled(st, dict, length)
  /\ pc = "first" => st.i = 1 /\ Len(dict) <= WideAbove
  /\ pc = "wide" => st.i <= length

(* Between two words the sampler stands at kept; within one it has only    *)
(* added to it, and saved is the way back.                                 *)
InBatch ==
  /\ Len(dict) >= 2 /\ Len(dict) <= WideAbove
  /\ Filled(kept, dict, length)
  /\ kept.i \in 2 .. length
  /\ Continues(st, kept)
  /\ pc = "word" => Position(st) = Position(kept)
  /\ pc = "digit" => saved = Position(kept)

IInv ==
  /\ pc \in {"idle", "first", "word", "digit", "wide", "done"}
  /\ pc = "idle" => st = Blank(0)
  /\ pc = "done" => Answered
  /\ pc \in {"first", "word", "digit", "wide"} => Sampling
  /\ pc \in {"word", "digit"} => InBatch

-------------------------------------------------------------------------------

(* The bytes of a dictionary are cells of out.                             *)
LEMMA DictionaryFacts ==
  ASSUME NEW D \in Dictionaries
  PROVE  /\ D \in Seq(Range(D))
         /\ Len(D) \in Nat /\ Len(D) < W
         /\ Range(D) \subseteq Cells
         /\ \A idx \in 0 .. Len(D) - 1 : At(D, idx) \in Range(D)
<1>1. D \in Seq(Range(D)) /\ Len(D) < W
  BY DictionariesAssumption
<1>2. Len(D) \in Nat /\ DOMAIN D = 1 .. Len(D)
  BY <1>1
<1>3. Range(D) \subseteq Cells
  BY DEF Cells, Bytes
<1>4. \A idx \in 0 .. Len(D) - 1 : At(D, idx) \in Range(D)
  BY <1>2 DEF At, Range
<1> QED BY <1>1, <1>2, <1>3, <1>4

(* A position shifted past the previous one is a position.                 *)
LEMMA ShiftedPosition ==
  ASSUME NEW D \in Dictionaries, Len(D) >= 2, NEW x \in Words, NEW l
  PROVE  /\ Hi(x, Len(D) - 1) + skipPast(Hi(x, Len(D) - 1), l) \in 0 .. Len(D) - 1
         /\ Lo(x, Len(D) - 1) \in Words
<1>1. Len(D) \in Nat /\ Len(D) - 1 \in 1 .. W - 1
  BY DictionaryFacts, WFacts
<1>2. Hi(x, Len(D) - 1) \in 0 .. Len(D) - 2 /\ Lo(x, Len(D) - 1) \in Words
  BY <1>1, MulSplit
<1>3. skipPast(Hi(x, Len(D) - 1), l) \in 0 .. 1
  BY DEF skipPast
<1> QED BY <1>1, <1>2, <1>3

(* Writing a symbol that differs from the previous one.                    *)
LEMMA WriteFills ==
  ASSUME NEW D \in Dictionaries, NEW len \in Nat, NEW s, Filled(s, D, len),
         s.i <= len, NEW idx \in 0 .. Len(D) - 1,
         s.i > 1 => At(D, idx) # s.last
  PROVE  /\ Filled(Write(s, idx, At(D, idx)), D, len)
         /\ Write(s, idx, At(D, idx)).i = s.i + 1
         /\ Continues(Write(s, idx, At(D, idx)), s)
<1> DEFINE c == At(D, idx)
           t == Write(s, idx, c)
<1>1. /\ s \in SamplerType(len) /\ s.i \in 1 .. len
      /\ \A k \in 1 .. s.i - 1 : s.out[k] \in Range(D)
      /\ \A k \in 1 .. s.i - 2 : s.out[k] # s.out[k + 1]
      /\ s.i > 1 => s.last = s.out[s.i - 1]
  BY DEF Filled, SamplerType
<1>2. c \in Range(D) /\ c \in Cells
  BY DictionaryFacts
<1>3. idx \in Nat
  BY DictionaryFacts
<1>4. s.i > 1 => c # s.last
  OBVIOUS
<1> HIDE DEF c
<1>5. /\ t \in SamplerType(len)
      /\ t.i = s.i + 1 /\ t.last = c /\ t.lastIdx = idx
      /\ t.out[s.i] = c
      /\ \A k \in 1 .. s.i - 1 : t.out[k] = s.out[k]
  <2>1. t \in SamplerType(len)
    <3> DEFINE t1 == [s EXCEPT !.out[s.i] = c]
               t2 == [t1 EXCEPT !.last = c]
               t3 == [t2 EXCEPT !.lastIdx = idx]
    <3>1. t = [t3 EXCEPT !.i = s.i + 1]
      BY DEF Write
    <3>2. t1 \in SamplerType(len)
      BY <1>1, <1>2 DEF SamplerType
    <3> HIDE DEF t1
    <3>3. t2 \in SamplerType(len)
      BY <1>2, <3>2 DEF SamplerType
    <3> HIDE DEF t2
    <3>4. t3 \in SamplerType(len)
      BY <1>3, <3>3 DEF SamplerType
    <3> HIDE DEF t3
    <3>5. s.i + 1 \in Nat
      BY <1>1
    <3>6. [t3 EXCEPT !.i = s.i + 1] \in SamplerType(len)
      BY <3>4, <3>5 DEF SamplerType
    <3> QED BY <3>1, <3>6
  <2>2. t.i = s.i + 1 /\ t.last = c /\ t.lastIdx = idx
    BY <1>1, <1>2, <1>3 DEF Write, SamplerType
  <2>3. t.out = [s.out EXCEPT ![s.i] = c] /\ s.out \in [1 .. len -> Cells]
    BY <1>1 DEF Write, SamplerType
  <2> HIDE DEF t
  <2>4. t.out[s.i] = c /\ \A k \in 1 .. s.i - 1 : t.out[k] = s.out[k]
    BY <1>1, <2>3
  <2> QED BY <2>1, <2>2, <2>4
<1> HIDE DEF t
<1>6. ASSUME NEW k \in 1 .. t.i - 1 PROVE t.out[k] \in Range(D)
  <2>1. CASE k = s.i
    BY <1>2, <1>5, <2>1
  <2>2. CASE k # s.i
    <3>1. k \in 1 .. s.i - 1
      BY <1>1, <1>5, <2>2
    <3> QED BY <1>1, <1>5, <3>1
  <2> QED BY <2>1, <2>2
<1>7. ASSUME NEW k \in 1 .. t.i - 2 PROVE t.out[k] # t.out[k + 1]
  <2>1. CASE k = s.i - 1
    <3>1. s.i > 1 /\ t.out[k] = s.last /\ t.out[k + 1] = c
      BY <1>1, <1>5, <2>1
    <3> QED BY <3>1, <1>4
  <2>2. CASE k # s.i - 1
    <3>1. k \in 1 .. s.i - 2 /\ k + 1 \in 1 .. s.i - 1 /\ k \in 1 .. s.i - 1
      BY <1>1, <1>5, <2>2
    <3>2. t.out[k] = s.out[k] /\ t.out[k + 1] = s.out[k + 1]
      BY <1>5, <3>1
    <3> QED BY <1>1, <3>1, <3>2
  <2> QED BY <2>1, <2>2
<1>8. c = At(D, idx)
  BY DEF c
<1>9. Filled(t, D, len)
  <2>1. t.i \in 1 .. len + 1
    BY <1>1, <1>5
  <2>2. t.last = t.out[t.i - 1] /\ t.last = At(D, t.lastIdx) /\ t.lastIdx < Len(D)
    BY <1>1, <1>5, <1>8, DictionaryFacts
  <2> QED BY <1>5, <1>6, <1>7, <2>1, <2>2 DEF Filled
<1>10. Continues(t, s)
  BY <1>1, <1>5 DEF Continues
<1> QED BY <1>5, <1>9, <1>10 DEF t, c

(* A digit adds one symbol or none, and takes none back.                   *)
LEMMA PeelFills ==
  ASSUME NEW D \in Dictionaries, Len(D) >= 2, NEW len \in Nat, NEW s,
         Filled(s, D, len), s.i > 1, s.i <= len
  PROVE  Filled(Peel(s, D), D, len) /\ Continues(Peel(s, D), s)
<1> DEFINE n1 == Len(D) - 1
           h == Hi(s.lo, n1)
           idx == h + skipPast(h, s.lastIdx)
           next == [s EXCEPT !.lo = Lo(s.lo, n1), !.prod = @ * n1, !.d = @ + 1]
<1>1. s \in SamplerType(len) /\ s.lo \in Words /\ n1 \in Int
  BY DictionaryFacts DEF Filled, SamplerType
<1>2. idx \in 0 .. Len(D) - 1 /\ Lo(s.lo, n1) \in Words
  BY <1>1, ShiftedPosition
<1>3. Peel(s, D) = IF At(D, idx) = s.last THEN next ELSE Write(next, idx, At(D, idx))
  BY DEF Peel
<1> HIDE DEF idx, n1
<1>4. /\ next \in SamplerType(len)
      /\ next.i = s.i /\ next.out = s.out
      /\ next.last = s.last /\ next.lastIdx = s.lastIdx
  <2>1. next \in SamplerType(len)
    <3> DEFINE n2 == [s EXCEPT !.lo = Lo(s.lo, n1)]
               n3 == [n2 EXCEPT !.prod = s.prod * n1]
    <3>1. next = [n3 EXCEPT !.d = s.d + 1]
      OBVIOUS
    <3>2. n2 \in SamplerType(len)
      BY <1>1, <1>2 DEF SamplerType
    <3> HIDE DEF n2
    <3>3. s.prod * n1 \in Int /\ s.d + 1 \in Nat
      BY <1>1 DEF SamplerType
    <3>4. n3 \in SamplerType(len)
      BY <3>2, <3>3 DEF SamplerType
    <3> HIDE DEF n3
    <3>5. [n3 EXCEPT !.d = s.d + 1] \in SamplerType(len)
      BY <3>3, <3>4 DEF SamplerType
    <3> QED BY <3>1, <3>5
  <2>2. next.i = s.i /\ next.out = s.out
    BY <1>1 DEF SamplerType
  <2>3. next.last = s.last /\ next.lastIdx = s.lastIdx
    BY <1>1 DEF SamplerType
  <2> QED BY <2>1, <2>2, <2>3
<1> HIDE DEF next
<1>5. Filled(next, D, len)
  BY <1>4 DEF Filled
<1>6. s.i \in Nat
  BY <1>1 DEF SamplerType
<1>7. Continues(next, s)
  BY <1>4, <1>6 DEF Continues
<1>8. CASE At(D, idx) = s.last
  BY <1>3, <1>5, <1>7, <1>8
<1>9. CASE At(D, idx) # s.last
  <2> DEFINE t == Write(next, idx, At(D, idx))
  <2>1. Filled(t, D, len) /\ Continues(t, next) /\ t.i = s.i + 1
    BY <1>2, <1>4, <1>5, <1>9, WriteFills
  <2> HIDE DEF t
  <2>2. Continues(t, s)
    BY <2>1, <1>4, <1>6 DEF Continues
  <2>3. Peel(s, D) = t
    BY <1>3, <1>9 DEF t
  <2> QED BY <2>1, <2>2, <2>3
<1> QED BY <1>8, <1>9

(* Taking a batch back leads to what was there before it.                  *)
LEMMA RestoreFills ==
  ASSUME NEW D, NEW len \in Nat, NEW s, NEW t, Filled(s, D, len),
         Filled(t, D, len), Continues(s, t), NEW sv, sv = Position(t)
  PROVE  /\ Filled(Restore(s, sv), D, len)
         /\ Continues(Restore(s, sv), t)
         /\ Position(Restore(s, sv)) = Position(t)
<1> DEFINE r == Restore(s, sv)
<1>1. s \in SamplerType(len) /\ t \in SamplerType(len)
  BY DEF Filled
<1>2. sv.i = t.i /\ sv.last = t.last /\ sv.lastIdx = t.lastIdx
  BY DEF Position
<1>3. /\ r \in SamplerType(len) /\ r.out = s.out
      /\ r.i = t.i /\ r.last = t.last /\ r.lastIdx = t.lastIdx
  BY <1>1, <1>2 DEF Restore, SamplerType
<1> HIDE DEF r
<1>4. t.i \in 1 .. len + 1 /\ \A k \in 1 .. t.i - 1 : r.out[k] = t.out[k]
  BY <1>3 DEF Continues, Filled
<1>5. /\ \A k \in 1 .. r.i - 1 : r.out[k] \in Range(D)
      /\ \A k \in 1 .. r.i - 2 : r.out[k] # r.out[k + 1]
      /\ r.i > 1 => /\ r.last = r.out[r.i - 1]
                     /\ r.last = At(D, r.lastIdx) /\ r.lastIdx < Len(D)
  <2>1. \A k \in 1 .. t.i - 2 : k \in 1 .. t.i - 1 /\ k + 1 \in 1 .. t.i - 1
    BY <1>4
  <2>2. t.i > 1 => t.i - 1 \in 1 .. t.i - 1
    BY <1>4
  <2>3. /\ \A k \in 1 .. t.i - 1 : t.out[k] \in Range(D)
        /\ \A k \in 1 .. t.i - 2 : t.out[k] # t.out[k + 1]
    BY DEF Filled
  <2>4. t.i > 1 => /\ t.last = t.out[t.i - 1]
                   /\ t.last = At(D, t.lastIdx) /\ t.lastIdx < Len(D)
    BY DEF Filled
  <2>5. \A k \in 1 .. t.i - 1 : r.out[k] \in Range(D)
    BY <1>4, <2>3
  <2>6. \A k \in 1 .. t.i - 2 : r.out[k] # r.out[k + 1]
    BY <1>4, <2>1, <2>3
  <2>7. t.i > 1 => /\ t.last = r.out[t.i - 1]
                   /\ t.last = At(D, t.lastIdx) /\ t.lastIdx < Len(D)
    BY <1>4, <2>2, <2>4
  <2> QED BY <1>3, <2>5, <2>6, <2>7
<1>6. Filled(r, D, len)
  BY <1>3, <1>4, <1>5 DEF Filled
<1>7. Continues(r, t)
  BY <1>3, <1>4 DEF Continues
<1> QED BY <1>3, <1>6, <1>7 DEF r, Position

(* Nothing is written yet.                                                 *)
LEMMA BlankFills ==
  ASSUME NEW D, NEW len \in Nat
  PROVE  Filled(Blank(len), D, len) /\ Blank(len).i = 1
<1>1. 0 \in Words
  BY WFacts DEF Words
<1>2. Blank(len) \in SamplerType(len) /\ Blank(len).i = 1
  BY <1>1 DEF Blank, SamplerType, Cells
<1> QED BY <1>2 DEF Filled

-------------------------------------------------------------------------------

(* A dictionary whose requests for several symbols are accepted has two.   *)
LEMMA RequestFacts ==
  ASSUME NEW D, NEW len, Request(D, len)
  PROVE  /\ Len(D) \in 1 .. W - 1
         /\ len > 1 => Len(D) >= 2
<1>1. D \in Dictionaries /\ D \in Seq(Range(D)) /\ D # <<>> /\ Len(D) < W
  BY DictionaryFacts DEF Request, Refuses
<1>2. Len(D) \in Nat \ {0} /\ DOMAIN D = 1 .. Len(D)
  BY <1>1
<1>3. ASSUME len > 1, Len(D) = 1 PROVE FALSE
  <2>1. \A k \in DOMAIN D : D[k] = D[1]
    BY <1>2, <1>3
  <2> QED BY <2>1, <1>3 DEF Request, Refuses
<1> QED BY <1>1, <1>2, <1>3, WFacts

LEMMA InitIInv == Init => IInv
BY DEF Init, IInv

LEMMA StartIInv ==
  ASSUME IInv, NEW D \in Dictionaries, NEW len \in Lengths, Start(D, len)
  PROVE  IInv'
<1>1. /\ dict' = D /\ length' = len /\ st' = Blank(len)
      /\ ~Refuses(D, len) /\ pc' \in {"first", "wide"}
      /\ pc' = "first" => Len(D) <= WideAbove
  BY DEF Start, Begin
<1>2. len \in Nat \ {0}
  BY <1>1, DictionariesAssumption DEF Refuses
<1>3. Filled(Blank(len), D, len) /\ Blank(len).i = 1
  BY <1>2, BlankFills
<1>4. Sampling'
  BY <1>1, <1>2, <1>3 DEF Sampling, Request
<1> QED BY <1>1, <1>4 DEF IInv

LEMMA RefuseIInv ==
  ASSUME IInv, NEW D \in Dictionaries, NEW len \in Lengths, Refuse(D, len)
  PROVE  IInv'
<1>1. /\ dict' = D /\ length' = len /\ st' = Blank(0)
      /\ Refuses(D, len) /\ pc' = "done"
  BY DEF Refuse, Begin, IInv
<1>3. Answered'
  BY <1>1 DEF Answered
<1> QED BY <1>1, <1>3 DEF IInv

LEMMA FirstIInv ==
  ASSUME IInv, NEW x \in Words, First(x)
  PROVE  IInv'
<1> DEFINE idx == Hi(x, Len(dict))
<1>1. /\ Sampling /\ Request(dict, length) /\ st.i = 1
      /\ Filled(st, dict, length) /\ Len(dict) <= WideAbove
  BY DEF First, IInv, Sampling
<1>2. length \in Nat \ {0} /\ dict \in Dictionaries /\ Len(dict) \in 1 .. W - 1
  BY <1>1, RequestFacts DEF Request
<1>3. idx \in 0 .. Len(dict) - 1
  BY <1>2, MulSplit
<1>4. /\ st' = Write(st, idx, At(dict, idx)) /\ kept' = st'
      /\ dict' = dict /\ length' = length
      /\ pc' = IF length = 1 \/ Len(dict) < 2 THEN "done" ELSE "word"
  BY DEF First
<1> HIDE DEF idx
<1>5. Filled(st', dict, length) /\ st'.i = 2
  BY <1>1, <1>2, <1>3, <1>4, WriteFills
<1>6. CASE length = 1
  <2>1. Answered' /\ pc' = "done"
    BY <1>2, <1>4, <1>5, <1>6 DEF Answered
  <2> QED BY <2>1 DEF IInv
<1>7. CASE length # 1
  <2>1. length > 1 /\ Len(dict) >= 2 /\ pc' = "word"
    BY <1>1, <1>2, <1>4, <1>7, RequestFacts
  <2>2. Sampling'
    BY <1>1, <1>4, <1>5, <2>1 DEF Sampling
  <2>3. Continues(st', kept')
    BY <1>4, <1>5 DEF Continues
  <2>4. InBatch'
    BY <1>1, <1>2, <1>4, <1>5, <2>1, <2>3 DEF InBatch
  <2> QED BY <2>1, <2>2, <2>4 DEF IInv
<1> QED BY <1>6, <1>7

(* A batch begins where the sampler stands.                                *)
LEMMA BeginFills ==
  ASSUME NEW D, NEW len \in Nat, NEW s, Filled(s, D, len), NEW x \in Words
  PROVE  /\ Filled(BeginBatch(s, x), D, len)
         /\ BeginBatch(s, x).i = s.i /\ BeginBatch(s, x).out = s.out
         /\ BeginBatch(s, x).last = s.last /\ BeginBatch(s, x).lastIdx = s.lastIdx
         /\ BeginBatch(s, x).lo = x /\ BeginBatch(s, x).prod = 1
         /\ BeginBatch(s, x).d = 0
<1> DEFINE s1 == [s EXCEPT !.lo = x]
           s2 == [s1 EXCEPT !.prod = 1]
           s3 == [s2 EXCEPT !.d = 0]
<1>1. BeginBatch(s, x) = s3
  BY DEF BeginBatch
<1>2. s \in SamplerType(len)
  BY DEF Filled
<1>3. s1 \in SamplerType(len)
  BY <1>2 DEF SamplerType
<1>4. s1.lo = x /\ s1.i = s.i /\ s1.out = s.out /\ s1.last = s.last /\ s1.lastIdx = s.lastIdx
  BY <1>2 DEF SamplerType
<1> HIDE DEF s1
<1>5. s2 \in SamplerType(len)
  BY <1>3 DEF SamplerType
<1>6. /\ s2.lo = x /\ s2.prod = 1 /\ s2.i = s.i /\ s2.out = s.out
      /\ s2.last = s.last /\ s2.lastIdx = s.lastIdx
  BY <1>3, <1>4 DEF SamplerType
<1> HIDE DEF s2
<1>7. s3 \in SamplerType(len)
  BY <1>5 DEF SamplerType
<1>8. /\ s3.lo = x /\ s3.prod = 1 /\ s3.d = 0 /\ s3.i = s.i /\ s3.out = s.out
      /\ s3.last = s.last /\ s3.lastIdx = s.lastIdx
  BY <1>5, <1>6 DEF SamplerType
<1> HIDE DEF s3
<1>9. Filled(s3, D, len)
  BY <1>7, <1>8 DEF Filled
<1> QED BY <1>1, <1>8, <1>9

LEMMA DrawWordIInv ==
  ASSUME IInv, NEW x \in Words, DrawWord(x)
  PROVE  IInv'
<1>1. /\ Sampling /\ InBatch /\ pc = "word" /\ pc' = "digit"
      /\ dict' = dict /\ length' = length /\ kept' = kept
      /\ st' = BeginBatch(st, x) /\ saved' = Position(st)
  BY DEF DrawWord, IInv
<1>2. length \in Nat /\ st \in SamplerType(length) /\ Filled(st, dict, length)
  BY <1>1 DEF Sampling, Request, Filled
<1>3. st'.i = st.i /\ st'.out = st.out
  BY ONLY <1>1, <1>2, x \in Words, BeginFills
<1>4. Filled(st', dict, length)
  BY ONLY <1>1, <1>2, x \in Words, BeginFills
<1>5. Sampling'
  BY <1>1, <1>3, <1>4 DEF Sampling
<1>6. Continues(st', kept)
  BY <1>1, <1>3 DEF InBatch, Continues
<1>7. InBatch'
  BY <1>1, <1>6 DEF InBatch
<1> QED BY <1>1, <1>5, <1>7 DEF IInv

LEMMA DigitIInv ==
  ASSUME IInv, Digit
  PROVE  IInv'
<1>1. /\ Sampling /\ InBatch /\ pc = "digit" /\ pc' = pc
      /\ dict' = dict /\ length' = length /\ kept' = kept /\ saved' = saved
      /\ st' = Peel(st, dict) /\ st.i <= length
  BY DEF Digit, CanPeel, IInv
<1>2. /\ length \in Nat /\ dict \in Dictionaries /\ Len(dict) >= 2
      /\ Filled(st, dict, length) /\ Continues(st, kept)
      /\ kept.i \in 2 .. length /\ st.i \in 1 .. length + 1
  BY <1>1 DEF Sampling, InBatch, Request, Filled
<1>3. st.i > 1
  BY <1>2 DEF Continues
<1>4. Filled(st', dict, length) /\ Continues(st', st)
  BY <1>1, <1>2, <1>3, PeelFills
<1>5. Continues(st', kept)
  <2>1. st'.i \in 1 .. length + 1
    BY <1>4 DEF Filled
  <2> QED BY <1>2, <1>4, <2>1 DEF Continues
<1>6. Sampling'
  BY <1>1, <1>4 DEF Sampling
<1>7. InBatch'
  BY <1>1, <1>5 DEF InBatch
<1> QED BY <1>1, <1>6, <1>7 DEF IInv

LEMMA RejectWordIInv ==
  ASSUME IInv, RejectWord
  PROVE  IInv'
<1>1. /\ Sampling /\ InBatch /\ pc = "digit" /\ pc' = "word"
      /\ dict' = dict /\ length' = length /\ kept' = kept
      /\ st' = Restore(st, saved) /\ saved = Position(kept)
  BY DEF RejectWord, BatchOver, IInv, InBatch
<1>2. /\ length \in Nat /\ Filled(st, dict, length)
      /\ Filled(kept, dict, length) /\ Continues(st, kept)
  BY <1>1 DEF Sampling, InBatch, Request
<1>3. /\ Filled(st', dict, length) /\ Continues(st', kept)
      /\ Position(st') = Position(kept)
  BY <1>1, <1>2, RestoreFills
<1>4. Sampling'
  BY <1>1, <1>3 DEF Sampling
<1>5. InBatch'
  BY <1>1, <1>3 DEF InBatch
<1> QED BY <1>1, <1>4, <1>5 DEF IInv

LEMMA AcceptWordIInv ==
  ASSUME IInv, AcceptWord
  PROVE  IInv'
<1>1. /\ Sampling /\ InBatch /\ pc = "digit"
      /\ dict' = dict /\ length' = length /\ kept' = st /\ st' = st
      /\ pc' = IF st.i > length THEN "done" ELSE "word"
  BY DEF AcceptWord, BatchOver, IInv
<1>2. /\ length \in Nat /\ Filled(st, dict, length) /\ Continues(st, kept)
      /\ kept.i \in 2 .. length /\ st.i \in 1 .. length + 1
  BY <1>1 DEF Sampling, InBatch, Request, Filled
<1>3. CASE st.i > length
  <2>1. Answered' /\ pc' = "done"
    BY <1>1, <1>2, <1>3 DEF Answered
  <2> QED BY <2>1 DEF IInv
<1>4. CASE st.i <= length
  <2>1. pc' = "word" /\ st.i \in 2 .. length
    BY <1>1, <1>2, <1>4 DEF Continues
  <2>2. Sampling'
    BY <1>1, <2>1 DEF Sampling
  <2>3. Continues(st, st)
    BY <2>1 DEF Continues
  <2>4. InBatch'
    BY <1>1, <1>2, <2>1, <2>3 DEF InBatch
  <2> QED BY <2>1, <2>2, <2>4 DEF IInv
<1> QED BY <1>2, <1>3, <1>4

LEMMA WideWriteIInv ==
  ASSUME IInv, pc = "wide", NEW idx \in 0 .. Len(dict) - 1, WideWrite(idx),
         st.i > 1 => At(dict, idx) # st.last
  PROVE  IInv'
<1>1. /\ Sampling /\ Request(dict, length) /\ Filled(st, dict, length)
      /\ dict' = dict /\ length' = length
      /\ st' = Write(st, idx, At(dict, idx))
      /\ pc' = IF st.i = length THEN "done" ELSE "wide"
  BY DEF WideWrite, IInv, Sampling
<1>2. /\ length \in Nat /\ dict \in Dictionaries
      /\ st.i \in 1 .. length
  BY <1>1 DEF Sampling, Request, Filled
<1>3. Filled(st', dict, length) /\ st'.i = st.i + 1
  BY <1>1, <1>2, WriteFills
<1>4. CASE st.i = length
  <2>1. Answered' /\ pc' = "done"
    BY <1>1, <1>2, <1>3, <1>4 DEF Answered
  <2> QED BY <2>1 DEF IInv
<1>5. CASE st.i # length
  <2>1. pc' = "wide" /\ st'.i <= length
    BY <1>1, <1>2, <1>3, <1>5
  <2>2. Sampling'
    BY <1>1, <1>3, <2>1 DEF Sampling
  <2> QED BY <2>1, <2>2 DEF IInv
<1> QED BY <1>4, <1>5

LEMMA WideIInv ==
  ASSUME IInv, NEW x \in Words, WideFirst(x) \/ WideNext(x)
  PROVE  IInv'
<1>1. pc = "wide" /\ Sampling /\ Request(dict, length)
  BY DEF WideFirst, WideNext, IInv, Sampling
<1>2. /\ length \in Nat /\ dict \in Dictionaries /\ Len(dict) \in 1 .. W - 1
      /\ st.i <= length /\ st.i \in Nat
  BY <1>1, RequestFacts DEF Request, Sampling, Filled
<1>3. CASE WideFirst(x)
  <2>1. Hi(x, Len(dict)) \in 0 .. Len(dict) - 1
    BY <1>2, MulSplit
  <2> QED BY <1>1, <1>2, <1>3, <2>1, WideWriteIInv DEF WideFirst
<1>4. CASE WideNext(x)
  <2> DEFINE n1 == Len(dict) - 1
             idx == Hi(x, n1) + skipPast(Hi(x, n1), st.lastIdx)
  <2>1. st.i > 1 /\ At(dict, idx) # st.last /\ WideWrite(idx)
    BY <1>4 DEF WideNext
  <2>2. Len(dict) >= 2
    BY <1>1, <1>2, <2>1, RequestFacts
  <2>3. idx \in 0 .. Len(dict) - 1
    BY <1>2, <2>2, ShiftedPosition
  <2> HIDE DEF idx
  <2> QED BY <1>1, <2>1, <2>3, WideWriteIInv
<1> QED BY <1>3, <1>4

LEMMA ReturnIInv ==
  ASSUME IInv, Return
  PROVE  IInv'
BY DEF Return, IInv

LEMMA StutterIInv ==
  ASSUME IInv, UNCHANGED vars
  PROVE  IInv'
BY DEF vars, IInv, Sampling, InBatch, Answered

LEMMA NextIInv == IInv /\ [Next]_vars => IInv'
<1> SUFFICES ASSUME IInv, [Next]_vars PROVE IInv'
  OBVIOUS
<1>1. CASE \E D \in Dictionaries, len \in Lengths : Refuse(D, len) \/ Start(D, len)
  BY <1>1, RefuseIInv, StartIInv
<1>2. CASE \E x \in Words : First(x) \/ DrawWord(x) \/ WideFirst(x) \/ WideNext(x)
  BY <1>2, FirstIInv, DrawWordIInv, WideIInv
<1>3. CASE Digit
  BY <1>3, DigitIInv
<1>4. CASE RejectWord
  BY <1>4, RejectWordIInv
<1>5. CASE AcceptWord
  BY <1>5, AcceptWordIInv
<1>6. CASE Return
  BY <1>6, ReturnIInv
<1>7. CASE UNCHANGED vars
  BY <1>7, StutterIInv
<1> QED BY <1>1, <1>2, <1>3, <1>4, <1>5, <1>6, <1>7 DEF Next

(* What a digit does to the batch.                                         *)
LEMMA PeelCount ==
  ASSUME NEW D, NEW len, NEW s \in SamplerType(len)
  PROVE  /\ Peel(s, D).lo = Lo(s.lo, Len(D) - 1)
         /\ Peel(s, D).prod = s.prod * (Len(D) - 1)
         /\ Peel(s, D).d = s.d + 1
<1> DEFINE n == Len(D) - 1
           next == [s EXCEPT !.lo = Lo(s.lo, n), !.prod = @ * n, !.d = @ + 1]
           at == Hi(s.lo, n) + skipPast(Hi(s.lo, n), s.lastIdx)
<1>1. Peel(s, D) = IF At(D, at) = s.last THEN next ELSE Write(next, at, At(D, at))
  BY DEF Peel
<1>2. /\ next.lo = Lo(s.lo, n) /\ next.prod = s.prod * n /\ next.d = s.d + 1
      /\ DOMAIN next = DOMAIN s
  BY DEF SamplerType
<1>3. DOMAIN s = {"out", "i", "last", "lastIdx", "lo", "prod", "d"}
  BY DEF SamplerType
<1> HIDE DEF next, at
<1>4. \A c : LET w == Write(next, at, c)
            IN  w.lo = next.lo /\ w.prod = next.prod /\ w.d = next.d
  BY <1>2, <1>3 DEF Write
<1> QED BY <1>1, <1>2, <1>4

(* What it does to the text, if its symbol differs from the previous one.  *)
LEMMA PeelWrites ==
  ASSUME NEW D, NEW len, NEW s \in SamplerType(len),
         NEW idx, idx = Hi(s.lo, Len(D) - 1) + skipPast(Hi(s.lo, Len(D) - 1), s.lastIdx),
         At(D, idx) # s.last
  PROVE  /\ Peel(s, D).i = s.i + 1
         /\ Peel(s, D).out = [s.out EXCEPT ![s.i] = At(D, idx)]
         /\ Peel(s, D).last = At(D, idx)
         /\ Peel(s, D).lastIdx = idx
<1> DEFINE n == Len(D) - 1
           next == [s EXCEPT !.lo = Lo(s.lo, n), !.prod = @ * n, !.d = @ + 1]
           c == At(D, idx)
           w == Write(next, idx, c)
<1>1. Peel(s, D) = w
  BY DEF Peel
<1>2. next.i = s.i /\ next.out = s.out /\ DOMAIN next = DOMAIN s
  BY DEF SamplerType
<1>3. DOMAIN s = {"out", "i", "last", "lastIdx", "lo", "prod", "d"}
  BY DEF SamplerType
<1> HIDE DEF next, c
<1>4. w.i = next.i + 1 /\ w.last = c /\ w.lastIdx = idx
  BY <1>2, <1>3 DEF Write
<1>5. w.out = [next.out EXCEPT ![next.i] = c]
  BY <1>2, <1>3 DEF Write
<1> HIDE DEF w
<1> QED BY <1>1, <1>2, <1>4, <1>5 DEF c

-------------------------------------------------------------------------------
(* Types.                                                                  *)

(* The product is that of the digits drawn, as many as a word has.         *)
Counted(s, D) ==
  \/ s.d = 0 /\ s.prod = 1
  \/ /\ Len(D) \in 2 .. WideAbove
     /\ s.d \in 0 .. batchSpecs[Len(D) - 1]
     /\ s.prod = Power(Len(D) - 1)[s.d]

TypeInv ==
  /\ dict \in Dictionaries \union {<<>>}
  /\ length \in Lengths \union {0}
  /\ saved \in [i : Nat, last : Cells, lastIdx : Nat]
  /\ Counted(st, dict)
  /\ Counted(kept, dict)
  /\ pc \notin {"word", "digit"} => kept = st

(* One digit more, one factor more.                                        *)
LEMMA PeelCounts ==
  ASSUME NEW D \in Dictionaries, Len(D) \in 2 .. WideAbove, NEW len \in Nat,
         NEW s \in SamplerType(len), s.i \in 1 .. len, Counted(s, D), CanPeel(s, D, len)
  PROVE  Counted(Peel(s, D), D)
<1> DEFINE n == Len(D) - 1
<1>1. n \in 1 .. W - 1 /\ n <= WideAbove /\ n \in Nat
  BY DictionaryFacts, WFacts, DictionariesAssumption
<1>2. PICK b \in 1 .. WordBits : b = batchSpecs[n]
  BY <1>1, BatchFits
<1>3. s.d \in Nat /\ s.d < b
  BY <1>2 DEF SamplerType, CanPeel
<1>4. /\ Power(n) \in [0 .. WordBits -> Nat] /\ Power(n)[0] = 1
      /\ \A k \in 1 .. WordBits : Power(n)[k] = Power(n)[k - 1] * n
  BY <1>1, PowerIs DEF Powered
<1>5. s.prod = Power(n)[s.d]
  BY <1>4 DEF Counted
<1>6. PICK p : p = Peel(s, D)
  OBVIOUS
<1>7. p.prod = s.prod * n /\ p.d = s.d + 1
  BY <1>6, PeelCount
<1>8. p.d \in 1 .. WordBits /\ p.d - 1 = s.d /\ p.d \in 0 .. b
  <2>1. WordBits \in Nat /\ b \in Nat /\ b <= WordBits
    BY WordBitsAssumption
  <2>2. PICK d \in Nat : d = s.d /\ d < b
    BY <1>3
  <2>3. d + 1 \in 1 .. WordBits /\ (d + 1) - 1 = d /\ d + 1 \in 0 .. b
    BY <2>1, <2>2
  <2> QED BY <1>7, <2>2, <2>3
<1>9. Power(n)[p.d] = Power(n)[p.d - 1] * n
  BY <1>4, <1>8
<1>10. p.prod = Power(n)[p.d]
  BY <1>5, <1>7, <1>8, <1>9
<1> QED BY <1>2, <1>6, <1>8, <1>10 DEF Counted

LEMMA BlankCounts == ASSUME NEW D, NEW len PROVE Counted(Blank(len), D)
BY DEF Counted, Blank

(* Writing and taking back leave the count as it is.                       *)
LEMMA KeepsCount ==
  ASSUME NEW D, NEW s, NEW t, Counted(s, D), t.d = s.d, t.prod = s.prod
  PROVE  Counted(t, D)
BY DEF Counted

LEMMA SamplerFields ==
  ASSUME NEW len, NEW s \in SamplerType(len), NEW sv, NEW idx, NEW c
  PROVE  /\ Write(s, idx, c).d = s.d /\ Write(s, idx, c).prod = s.prod
         /\ Restore(s, sv).d = s.d /\ Restore(s, sv).prod = s.prod
         /\ Position(s) \in [i : Nat, last : Cells, lastIdx : Nat]
BY DEF SamplerType, Write, Restore, Position

LEMMA InitTypeInv == Init => TypeInv
<1> SUFFICES ASSUME Init PROVE TypeInv
  OBVIOUS
<1>1. Position(Blank(0)) \in [i : Nat, last : Cells, lastIdx : Nat]
  BY DEF Position, Blank, Cells
<1> QED BY <1>1, BlankCounts DEF Init, TypeInv

LEMMA NextTypeInv == IInv /\ TypeInv /\ [Next]_vars => TypeInv'
<1> SUFFICES ASSUME IInv, TypeInv, [Next]_vars PROVE TypeInv'
  OBVIOUS
<1>1. ASSUME NEW D \in Dictionaries, NEW len \in Lengths, Start(D, len)
      PROVE  TypeInv'
  <2>1. /\ dict' = D /\ length' = len /\ st' = Blank(len) /\ kept' = Blank(len)
        /\ saved' = saved
    BY <1>1 DEF Start, Begin
  <2> QED BY <2>1, BlankCounts DEF TypeInv
<1>2. ASSUME NEW D \in Dictionaries, NEW len \in Lengths, Refuse(D, len)
      PROVE  TypeInv'
  <2>1. /\ dict' = D /\ length' = len /\ st' = st /\ kept' = kept
        /\ saved' = saved /\ st = Blank(0) /\ kept = st
    BY <1>2 DEF Refuse, Begin, IInv, TypeInv
  <2> QED BY <2>1, BlankCounts DEF TypeInv
<1>3. ASSUME NEW idx, NEW c, NEW len, st \in SamplerType(len),
             st' = Write(st, idx, c), kept' = st',
             dict' = dict, length' = length, saved' = saved
      PROVE  TypeInv'
  <2>1. Counted(st', dict)
    BY <1>3, SamplerFields, KeepsCount DEF TypeInv
  <2> QED BY <1>3, <2>1 DEF TypeInv
<1>4. pc \in {"first", "word", "digit", "wide"} =>
        /\ dict \in Dictionaries /\ length \in Nat /\ Filled(st, dict, length)
        /\ st \in SamplerType(length)
  BY DEF IInv, Sampling, Request, Filled
<1>5. ASSUME NEW x \in Words, First(x) PROVE TypeInv'
  BY <1>3, <1>4, <1>5 DEF First
<1>6. ASSUME NEW x \in Words, WideFirst(x) \/ WideNext(x) PROVE TypeInv'
  BY <1>3, <1>4, <1>6 DEF WideFirst, WideNext, WideWrite
<1>7. ASSUME NEW x \in Words, DrawWord(x) PROVE TypeInv'
  <2>1. /\ dict' = dict /\ length' = length /\ kept' = kept /\ pc' = "digit"
        /\ st' = BeginBatch(st, x) /\ saved' = Position(st)
        /\ st \in SamplerType(length)
    BY <1>4, <1>7 DEF DrawWord
  <2>2. st'.d = 0 /\ st'.prod = 1
    BY <2>1 DEF BeginBatch, SamplerType
  <2>3. Counted(st', dict)
    BY <2>2 DEF Counted
  <2>4. saved' \in [i : Nat, last : Cells, lastIdx : Nat]
    BY <2>1, SamplerFields
  <2> QED BY <2>1, <2>3, <2>4 DEF TypeInv
<1>8. CASE Digit
  <2>1. /\ dict' = dict /\ length' = length /\ kept' = kept /\ pc = "digit" /\ pc' = pc
        /\ st' = Peel(st, dict) /\ saved' = saved /\ CanPeel(st, dict, length)
        /\ dict \in Dictionaries /\ length \in Nat /\ st \in SamplerType(length)
    BY <1>4, <1>8 DEF Digit
  <2>2. Len(dict) \in 2 .. WideAbove /\ st.i \in 1 .. length
    <3>1. Len(dict) >= 2 /\ Len(dict) <= WideAbove
      BY <2>1 DEF IInv, InBatch
    <3>2. st.i \in 1 .. length + 1 /\ st.i <= length
      BY <1>4, <2>1 DEF Filled, CanPeel
    <3> QED BY <2>1, <3>1, <3>2, DictionaryFacts, DictionariesAssumption
  <2>3. Counted(st', dict)
    BY <2>1, <2>2, PeelCounts DEF TypeInv
  <2> QED BY <2>1, <2>3 DEF TypeInv
<1>9. CASE RejectWord
  <2>1. /\ dict' = dict /\ length' = length /\ kept' = kept /\ pc' = "word"
        /\ st' = Restore(st, saved) /\ saved' = saved
        /\ st \in SamplerType(length)
    BY <1>4, <1>9 DEF RejectWord, BatchOver
  <2>2. Counted(st', dict)
    BY <2>1, SamplerFields, KeepsCount DEF TypeInv
  <2> QED BY <2>1, <2>2 DEF TypeInv
<1>10. CASE AcceptWord
  BY <1>10 DEF AcceptWord, TypeInv
<1>11. CASE Return
  <2>1. /\ dict' = <<>> /\ length' = 0 /\ kept' = Blank(0) /\ st' = Blank(0)
        /\ saved' = Position(Blank(0))
    BY <1>11 DEF Return
  <2>2. saved' \in [i : Nat, last : Cells, lastIdx : Nat]
    BY <2>1 DEF Position, Blank, Cells
  <2> QED BY <2>1, <2>2, BlankCounts DEF TypeInv
<1>12. CASE UNCHANGED vars
  BY <1>12 DEF vars, TypeInv
<1> QED BY <1>1, <1>2, <1>5, <1>6, <1>7, <1>8, <1>9, <1>10, <1>11, <1>12 DEF Next

LEMMA InvHolds == Spec => [](IInv /\ TypeInv)
<1>1. Init => IInv /\ TypeInv
  BY InitIInv, InitTypeInv
<1>2. (IInv /\ TypeInv) /\ [Next]_vars => (IInv /\ TypeInv)'
  BY NextIInv, NextTypeInv
<1> QED BY <1>1, <1>2, PTL DEF Spec

(* A sampler with its product counted has its type.                        *)
LEMMA SamplerIs ==
  ASSUME NEW D \in Dictionaries \union {<<>>}, NEW len \in Nat, NEW s,
         Filled(s, D, len), Counted(s, D)
  PROVE  /\ Len(s.out) = len
         /\ Range(s.out) \subseteq Bytes \union {NoByte}
         /\ s.i \in 1 .. Len(s.out) + 1
         /\ s.last \in Bytes \union {NoByte}
         /\ s.lastIdx \in Nat
         /\ s.lo \in Words /\ s.prod \in Words
         /\ s.d \in 0 .. WordBits
<1>1. s \in SamplerType(len) /\ s.i \in 1 .. len + 1
  BY DEF Filled
<1>2. s.out \in [1 .. len -> Cells] /\ s.last \in Cells /\ s.lastIdx \in Nat /\ s.lo \in Words
  BY <1>1 DEF SamplerType
<1>3. s.out \in Seq(Cells) /\ Len(s.out) = len
  BY <1>2, LenProperties
<1>4. Range(s.out) \subseteq Cells
  BY <1>2 DEF Range
<1>5. W \in Nat /\ W >= 2 /\ WordBits \in Nat \ {0}
  BY WidthAssumption, WordBitsAssumption
<1>6. s.prod \in Words /\ s.d \in 0 .. WordBits
  <2>1. CASE s.d = 0 /\ s.prod = 1
    BY <1>5, <2>1 DEF Words
  <2>2. CASE ~(s.d = 0 /\ s.prod = 1)
    <3>1. /\ Len(D) \in 2 .. WideAbove
          /\ s.d \in 0 .. batchSpecs[Len(D) - 1]
          /\ s.prod = Power(Len(D) - 1)[s.d]
      BY <2>2 DEF Counted
    <3>2. Len(D) - 1 \in 1 .. W - 1 /\ Len(D) - 1 <= WideAbove
      <4>1. D # <<>>
        BY <3>1
      <4> QED BY <3>1, <4>1, DictionaryFacts, WFacts, DictionariesAssumption
    <3>3. PICK n \in 1 .. W - 1 : n = Len(D) - 1 /\ n <= WideAbove
      BY <3>2
    <3>4. /\ batchSpecs[n] \in 1 .. WordBits
          /\ \A k \in 0 .. batchSpecs[n] : Power(n)[k] \in 1 .. W - 1
      BY <3>3, BatchFits
    <3> QED BY <1>5, <3>1, <3>3, <3>4 DEF Words
  <2> QED BY <2>1, <2>2
<1> QED BY <1>1, <1>2, <1>3, <1>4, <1>6 DEF Cells

LEMMA TypeInvTypes == IInv /\ TypeInv => TypeOK
<1> SUFFICES ASSUME IInv, TypeInv PROVE TypeOK
  OBVIOUS
<1>1. ASSUME NEW s, s = Blank(0), pc \in {"idle", "done"} PROVE Sampler(s)
  <2>1. Filled(s, <<>>, 0) /\ Counted(s, <<>>) /\ s.i = 1
    BY <1>1, BlankFills, BlankCounts
  <2> QED BY <1>1, <2>1, SamplerIs DEF Sampler
<1>2. ASSUME NEW s, length \in Nat, Filled(s, dict, length), Counted(s, dict),
             pc \in {"idle", "done"} => s.i = length + 1
      PROVE  Sampler(s)
  <2>1. /\ Len(s.out) = length
        /\ Range(s.out) \subseteq Bytes \union {NoByte}
        /\ s.i \in 1 .. Len(s.out) + 1
        /\ s.last \in Bytes \union {NoByte}
        /\ s.lastIdx \in Nat
        /\ s.lo \in Words /\ s.prod \in Words
        /\ s.d \in 0 .. WordBits
    BY <1>2, SamplerIs DEF TypeInv
  <2>2. pc \in {"idle", "done"} /\ s.i = 1 => length = 0
    BY <1>2
  <2> QED BY <2>1, <2>2 DEF Sampler
<1>3. Sampler(st) /\ Sampler(kept)
  <2>1. CASE pc = "idle"
    BY <1>1, <2>1 DEF IInv, TypeInv
  <2>2. CASE pc = "done"
    <3>1. Answered /\ kept = st
      BY <2>2 DEF IInv, TypeInv
    <3>2. CASE st = Blank(0)
      BY <1>1, <2>2, <3>1, <3>2
    <3>3. CASE length \in Nat /\ Filled(st, dict, length) /\ st.i = length + 1
      <4>1. Sampler(st)
        BY <1>2, <3>3 DEF TypeInv
      <4> QED BY <3>1, <4>1
    <3> QED BY <3>1, <3>2, <3>3 DEF Answered
  <2>3. CASE pc \in {"first", "word", "digit", "wide"}
    <3>1. length \in Nat /\ Filled(st, dict, length) /\ Counted(st, dict)
      BY <2>3 DEF IInv, Sampling, Request, TypeInv
    <3>2. Sampler(st)
      BY <1>2, <2>3, <3>1
    <3>3. CASE pc \in {"word", "digit"}
      <4>1. Filled(kept, dict, length) /\ Counted(kept, dict)
        BY <3>3 DEF IInv, InBatch, TypeInv
      <4>2. Sampler(kept)
        BY <1>2, <2>3, <3>1, <4>1
      <4> QED BY <3>2, <4>2
    <3>4. CASE pc \notin {"word", "digit"}
      BY <3>2, <3>4 DEF TypeInv
    <3> QED BY <3>3, <3>4
  <2> QED BY <2>1, <2>2, <2>3 DEF IInv
<1> QED BY <1>3 DEF TypeOK, TypeInv, IInv, Cells

(* Whatever the dictionary, the product of a batch stays a word, a batch   *)
(* no longer than a word has bits, and no write is past the end.           *)
THEOREM TypeOKHolds == Spec => []TypeOK
<1>1. IInv /\ TypeInv => TypeOK
  BY TypeInvTypes
<1> QED BY <1>1, InvHolds, PTL

LEMMA IInvAdjacent == IInv => NoAdjacentDuplicates
<1> SUFFICES ASSUME IInv PROVE NoAdjacentDuplicates
  OBVIOUS
<1>1. \A k \in 1 .. st.i - 2 : st.out[k] # st.out[k + 1]
  <2>1. CASE pc = "idle"
    BY <2>1 DEF IInv, Blank
  <2>2. CASE pc = "done"
    <3>1. Answered
      BY <2>2 DEF IInv
    <3>2. CASE st = Blank(0)
      BY <3>2 DEF Blank
    <3>3. CASE length \in Nat /\ Filled(st, dict, length)
      BY <3>3 DEF Filled
    <3> QED BY <3>1, <3>2, <3>3 DEF Answered
  <2>3. CASE pc \in {"first", "word", "digit", "wide"}
    BY <2>3 DEF IInv, Sampling, Filled
  <2> QED BY <2>1, <2>2, <2>3 DEF IInv
<1>2. ASSUME pc = "done"
      PROVE  \/ Refuses(dict, length) /\ st.out = <<>>
             \/ /\ st.i = length + 1
                /\ \A k \in 1 .. length : st.out[k] \in Range(dict)
  <2>1. Answered
    BY <1>2 DEF IInv
  <2>2. CASE Refuses(dict, length) /\ st = Blank(0)
    BY <2>2 DEF Blank
  <2>3. CASE length \in Nat /\ Filled(st, dict, length) /\ st.i = length + 1
    BY <2>3 DEF Filled
  <2> QED BY <2>1, <2>2, <2>3 DEF Answered
<1> QED BY <1>1, <1>2 DEF NoAdjacentDuplicates

LEMMA IInvRestores == IInv => RejectionRestores
<1> SUFFICES ASSUME IInv, pc = "word"
             PROVE  /\ Position(st) = Position(kept)
                    /\ \A k \in 1 .. st.i - 1 : st.out[k] = kept.out[k]
                    /\ st.last = st.out[st.i - 1]
                    /\ At(dict, st.lastIdx) = st.last
  BY DEF RejectionRestores
<1>1. /\ Sampling /\ InBatch /\ Position(st) = Position(kept)
  BY DEF IInv, InBatch
<1>2. st.i = kept.i /\ Continues(st, kept) /\ kept.i > 1 /\ Filled(st, dict, length)
  BY <1>1 DEF Position, InBatch, Sampling
<1> QED BY <1>1, <1>2 DEF Continues, Filled

-------------------------------------------------------------------------------
(* Every batch is uniform: the digits of a word are those of the high half *)
(* of its product with the power of the base, and each text stands for one *)
(* such number.                                                            *)

(* Two multiplications are one by the product.                             *)
LEMMA HiLoCompose ==
  ASSUME NEW x \in Words, NEW p \in 1 .. W - 1, NEW n \in 1 .. W - 1
  PROVE  /\ Hi(x, p * n) = Hi(x, p) * n + Hi(Lo(x, p), n)
         /\ Lo(x, p * n) = Lo(Lo(x, p), n)
<1>1. PICK h \in Nat, l \in Words : h = Hi(x, p) /\ l = Lo(x, p) /\ x * p = h * W + l
  BY MulSplit, WFacts
<1>2. PICK g \in Nat, r \in Words : g = Hi(l, n) /\ r = Lo(l, n) /\ l * n = g * W + r
  BY MulSplit, WFacts
<1>3. /\ W \in Nat \ {0} /\ x \in Nat /\ p \in Nat /\ n \in Nat /\ l \in Nat
      /\ r \in 0 .. W - 1
  BY WFacts DEF Words
<1>4. x * (p * n) = (h * n + g) * W + r
  <2>1. x * (p * n) = (x * p) * n
    BY <1>3
  <2>2. (h * W + l) * n = (h * n) * W + l * n
    BY <1>3
  <2>3. (h * n + g) * W = (h * n) * W + g * W
    BY <1>3
  <2>4. (h * n) * W \in Nat /\ g * W \in Nat /\ l * n \in Nat
    BY <1>3
  <2> QED BY ONLY <1>1, <1>2, <1>3, <2>1, <2>2, <2>3, <2>4
<1>5. PICK k \in Nat : k = h * n + g
  BY <1>3
<1>6. (k * W + r) % W = r /\ (k * W + r) \div W = k
  BY <1>3, ModIs, SMTT(30)
<1> QED BY <1>1, <1>2, <1>4, <1>5, <1>6 DEF Hi, Lo

(* A number is its quotient and its remainder.                             *)
LEMMA SameDigits ==
  ASSUME NEW n \in Nat \ {0}, NEW a \in Nat, NEW b \in Nat,
         NEW c \in 0 .. n - 1, NEW d \in 0 .. n - 1
  PROVE  a * n + c = b * n + d <=> a = b /\ c = d
<1>1. (a * n + c) % n = c /\ (a * n + c) \div n = a
  BY ModIs
<1>2. (b * n + d) % n = d /\ (b * n + d) \div n = b
  BY ModIs
<1> QED BY <1>1, <1>2

(* "a bijection onto the other positions".                                 *)
LEMMA SkipPastIs ==
  ASSUME NEW l \in Nat
  PROVE  /\ \A a \in Nat : a + skipPast(a, l) # l
         /\ \A a, b \in Nat : a + skipPast(a, l) = b + skipPast(b, l) => a = b
BY DEF skipPast

(* The position of the next symbol.                                        *)
NextAt(s, D) == Hi(s.lo, Len(D) - 1) + skipPast(Hi(s.lo, Len(D) - 1), s.lastIdx)

(* With a dictionary without repetition a digit always writes.             *)
LEMMA UniqueWrites ==
  ASSUME NEW D \in Dictionaries, IsUnique(D), Len(D) >= 2, NEW len \in Nat,
         NEW s, Filled(s, D, len), s.i \in 2 .. len
  PROVE  /\ NextAt(s, D) \in 0 .. Len(D) - 1
         /\ Peel(s, D).i = s.i + 1
         /\ Peel(s, D).out = [s.out EXCEPT ![s.i] = At(D, NextAt(s, D))]
         /\ Peel(s, D).last = At(D, NextAt(s, D))
         /\ Peel(s, D).lastIdx = NextAt(s, D)
<1>1. s \in SamplerType(len) /\ s.last = At(D, s.lastIdx) /\ s.lastIdx < Len(D)
  BY DEF Filled
<1>2. s.lo \in Words /\ s.lastIdx \in Nat
  BY <1>1 DEF SamplerType
<1>3. DOMAIN D = 1 .. Len(D) /\ Len(D) \in Nat
  BY DictionaryFacts
<1>4. PICK idx : idx = NextAt(s, D)
  OBVIOUS
<1>5. idx = Hi(s.lo, Len(D) - 1) + skipPast(Hi(s.lo, Len(D) - 1), s.lastIdx)
  BY <1>4 DEF NextAt
<1>6. idx \in 0 .. Len(D) - 1
  BY <1>2, <1>5, ShiftedPosition
<1>7. idx # s.lastIdx
  <2>1. Len(D) - 1 \in 1 .. W - 1
    BY DictionaryFacts, WFacts
  <2>2. Hi(s.lo, Len(D) - 1) \in Nat
    BY <1>2, <2>1, MulSplit
  <2> QED BY <1>2, <1>5, <2>2, SkipPastIs
<1>8. At(D, idx) # s.last
  <2>1. PICK l \in Nat : l = s.lastIdx
    BY <1>2
  <2>2. idx + 1 \in DOMAIN D /\ l + 1 \in DOMAIN D /\ idx + 1 # l + 1
    BY <1>1, <1>3, <1>6, <1>7, <2>1
  <2>3. D[idx + 1] # D[l + 1]
    BY <2>2 DEF IsUnique, IsInjective
  <2> QED BY <1>1, <2>1, <2>3 DEF At
<1> QED BY <1>1, <1>4, <1>5, <1>6, <1>8, PeelWrites

(* The samplers a word can lead to.                                        *)
Samplers(D, len) == {t \in SamplerType(len) : Filled(t, D, len) /\ t.i > 1}

Step(s, D, len) == IF CanPeel(s, D, len) THEN Peel(s, D) ELSE s

(* r is what the sampler s goes through with the word x.                   *)
Reads(r, D, len, s, x) ==
  /\ r \in [0 .. WordBits -> Samplers(D, len)]
  /\ r[0] = BeginBatch(s, x)
  /\ \A k \in 1 .. WordBits : r[k] = Step(r[k - 1], D, len)

LEMMA StepKeeps ==
  ASSUME NEW D \in Dictionaries, Len(D) >= 2, NEW len \in Nat,
         NEW s \in Samplers(D, len)
  PROVE  Step(s, D, len) \in Samplers(D, len)
<1>1. s \in SamplerType(len) /\ Filled(s, D, len) /\ s.i > 1 /\ s.i \in Nat
  BY DEF Samplers, SamplerType
<1>2. CASE CanPeel(s, D, len)
  <2>1. PICK p : p = Peel(s, D)
    OBVIOUS
  <2>2. Filled(p, D, len) /\ s.i <= p.i
    BY <1>1, <1>2, <2>1, PeelFills DEF CanPeel, Continues
  <2>3. p \in SamplerType(len) /\ p.i \in Nat
    BY <2>2 DEF Filled, SamplerType
  <2>4. p.i > 1
    BY <1>1, <2>2, <2>3
  <2> QED BY <1>2, <2>1, <2>2, <2>3, <2>4 DEF Step, Samplers
<1>3. CASE ~CanPeel(s, D, len)
  BY <1>3 DEF Step
<1> QED BY <1>2, <1>3

LEMMA RunReads ==
  ASSUME dict \in Dictionaries, Len(dict) >= 2, length \in Nat,
         Filled(st, dict, length), st.i > 1, NEW x \in Words
  PROVE  \E r : Reads(r, dict, length, st, x) /\ Run(x) = r[WordBits]
<1> DEFINE D == dict
           len == length
           S == Samplers(D, len)
           a == BeginBatch(st, x)
           F(r) == [k \in 0 .. WordBits |-> IF k = 0 THEN a ELSE Step(r[k - 1], D, len)]
           run == CHOOSE r : r = F(r)
<1>1. Run(x) = run[WordBits]
  BY DEF Run, Step
<1>2. PICK g : g = [ks \in (1 .. WordBits) \X S |-> Step(ks[2], D, len)]
  OBVIOUS
<1>3. WordBits \in Nat
  BY WordBitsAssumption
<1>4. \A k \in 1 .. WordBits, s \in S :
        g[<<k, s>>] = Step(s, D, len) /\ g[<<k, s>>] \in S
  BY <1>2, StepKeeps
<1>5. a \in S
  <2>1. Filled(a, D, len) /\ a.i = st.i
    BY BeginFills
  <2> HIDE DEF a
  <2> QED BY <2>1 DEF Samplers, Filled
<1> HIDE DEF S, a
<1>6. PICK h : Recursive(h, a, g, WordBits, S)
  BY <1>3, <1>4, <1>5, Recursion
<1>7. /\ h \in [0 .. WordBits -> S] /\ h[0] = a
      /\ \A k \in 1 .. WordBits : h[k] = Step(h[k - 1], D, len)
  <2>1. /\ h \in [0 .. WordBits -> S] /\ h[0] = a
        /\ \A k \in 1 .. WordBits : h[k] = g[<<k, h[k - 1]>>]
    BY <1>6 DEF Recursive
  <2>2. \A k \in 1 .. WordBits : k - 1 \in 0 .. WordBits
    BY <1>3
  <2> QED BY <1>4, <2>1, <2>2
<1>8. h = F(h)
  <2>1. ASSUME NEW k \in 0 .. WordBits
        PROVE  h[k] = IF k = 0 THEN a ELSE Step(h[k - 1], D, len)
    <3>1. k # 0 => k \in 1 .. WordBits
      BY <1>3
    <3> QED BY <1>7, <3>1
  <2>2. h = [k \in 0 .. WordBits |-> h[k]]
    BY <1>7
  <2> QED BY <2>1, <2>2
<1>9. run = F(run)
  BY <1>8
<1> HIDE DEF run
<1>10. run = [k \in 0 .. WordBits |-> IF k = 0 THEN a ELSE Step(run[k - 1], D, len)]
  BY <1>9
<1>11. run[0] = a /\ \A k \in 1 .. WordBits : run[k] = Step(run[k - 1], D, len)
  <2>1. 0 \in 0 .. WordBits /\ \A k \in 1 .. WordBits : k \in 0 .. WordBits /\ k # 0
    BY <1>3
  <2>2. \A k \in 0 .. WordBits : run[k] = IF k = 0 THEN a ELSE Step(run[k - 1], D, len)
    BY ONLY <1>10
  <2> QED BY ONLY <2>1, <2>2
<1>12. \A k \in 0 .. WordBits : run[k] \in S
  <2>1. PICK K : K = {k \in Nat : k <= WordBits => run[k] \in S}
    OBVIOUS
  <2>2. 0 \in K
    BY <1>5, <1>11, <2>1
  <2>3. ASSUME NEW k \in Nat, k \in K PROVE k + 1 \in K
    <3>1. SUFFICES ASSUME k + 1 <= WordBits PROVE run[k + 1] \in S
      BY <2>1
    <3>2. k + 1 \in 1 .. WordBits /\ (k + 1) - 1 = k /\ run[k] \in S
      BY <1>3, <2>1, <2>3, <3>1
    <3>3. run[k + 1] = Step(run[k], D, len)
      BY <1>11, <3>2
    <3> QED BY <3>2, <3>3, StepKeeps DEF S
  <2>4. \A k \in Nat : k \in K
    BY <2>2, <2>3, Reached
  <2> QED BY <1>3, <2>1, <2>4
<1>13. run \in [0 .. WordBits -> S]
  <2>1. run = [k \in 0 .. WordBits |-> run[k]]
    BY <1>10
  <2> QED BY <1>12, <2>1
<1> QED BY <1>1, <1>11, <1>13 DEF Reads, S, a

(* A word is to be drawn for s, and the dictionary repeats nothing.        *)
Standing(D, len, s) ==
  /\ D \in Dictionaries /\ IsUnique(D) /\ Len(D) \in 2 .. WideAbove
  /\ len \in Nat /\ Filled(s, D, len) /\ s.i \in 2 .. len

(* The symbols that the word adds if it is accepted.                       *)
Added(D, len, s) ==
  LET left == len - s.i + 1
      batch == batchSpecs[Len(D) - 1]
  IN  IF left < batch THEN left ELSE batch

LEMMA AddedIs ==
  ASSUME NEW D, NEW len, NEW s, Standing(D, len, s),
         NEW m, m = Added(D, len, s), NEW p, p = Power(Len(D) - 1)
  PROVE  /\ WordBits \in Nat /\ Len(D) - 1 \in 1 .. W - 1
         /\ batchSpecs[Len(D) - 1] \in 1 .. WordBits
         /\ m \in 1 .. WordBits /\ m <= batchSpecs[Len(D) - 1]
         /\ s.i + m <= len + 1
         /\ m = batchSpecs[Len(D) - 1] \/ s.i + m = len + 1
         /\ \A k \in 0 .. m : p[k] \in 1 .. W - 1
         /\ p[0] = 1 /\ \A k \in 1 .. m : p[k] = p[k - 1] * (Len(D) - 1)
<1>1. WordBits \in Nat /\ W \in Nat /\ WideAbove \in Nat
  BY WordBitsAssumption, WFacts, DictionariesAssumption
<1>2. Len(D) \in 2 .. WideAbove /\ Len(D) \in Nat /\ Len(D) < W
  BY DictionaryFacts DEF Standing
<1>3. PICK n \in 1 .. W - 1 : n = Len(D) - 1 /\ n <= WideAbove
  BY <1>1, <1>2
<1>4. PICK b \in 1 .. WordBits : b = batchSpecs[n] /\ \A k \in 0 .. b : Power(n)[k] \in 1 .. W - 1
  BY <1>3, BatchFits
<1>5. PICK l \in Nat \ {0} : l = len - s.i + 1 /\ s.i + l = len + 1
  BY SMTT(30) DEF Standing
<1>6. m = IF l < b THEN l ELSE b
  BY <1>3, <1>4, <1>5 DEF Added
<1>7. m \in 1 .. b /\ m <= l /\ (m = b \/ m = l)
  BY <1>1, <1>6
<1>8. s.i \in Nat /\ len \in Nat
  BY DEF Standing
<1>9. s.i + m <= len + 1 /\ (m = b \/ s.i + m = len + 1)
  BY <1>1, <1>5, <1>7, <1>8
<1>10. m \in 1 .. WordBits /\ \A k \in 0 .. m : k \in 0 .. b
  BY <1>1, <1>7
<1>11. Power(n)[0] = 1 /\ \A k \in 1 .. WordBits : Power(n)[k] = Power(n)[k - 1] * n
  BY <1>1, PowerIs DEF Powered
<1>12. \A k \in 1 .. m : k \in 1 .. WordBits
  BY <1>1, <1>10
<1> QED BY <1>1, <1>3, <1>4, <1>7, <1>9, <1>10, <1>11, <1>12, SMTT(30)

(* After k digits.                                                         *)
LEMMA ReadDigits ==
  ASSUME NEW D, NEW len, NEW s, Standing(D, len, s), NEW x \in Words,
         NEW r, Reads(r, D, len, s, x), NEW m, m = Added(D, len, s),
         NEW p, p = Power(Len(D) - 1)
  PROVE  /\ \A k \in 0 .. m :
              /\ r[k].d = k /\ r[k].i = s.i + k
              /\ r[k].prod = p[k] /\ r[k].lo = Lo(x, p[k])
         /\ \A k \in 1 .. m :
              /\ r[k] = Peel(r[k - 1], D)
              /\ Filled(r[k - 1], D, len) /\ r[k - 1].i \in 2 .. len
<1> DEFINE n == Len(D) - 1
           After(k) == /\ r[k].d = k /\ r[k].i = s.i + k
                       /\ r[k].prod = p[k] /\ r[k].lo = Lo(x, p[k])
<1>0. /\ \A k \in 0 .. m : p[k] \in 1 .. W - 1
      /\ p[0] = 1 /\ \A k \in 1 .. m : p[k] = p[k - 1] * n
  BY AddedIs
<1>1. /\ WordBits \in Nat /\ n \in 1 .. W - 1 /\ batchSpecs[n] \in 1 .. WordBits
      /\ m \in 1 .. WordBits /\ m <= batchSpecs[n] /\ s.i + m <= len + 1
  BY AddedIs
<1>2. /\ D \in Dictionaries /\ IsUnique(D) /\ Len(D) >= 2 /\ len \in Nat
      /\ Filled(s, D, len) /\ s.i \in Nat /\ s.i >= 2
  BY DEF Standing
<1>3. /\ r \in [0 .. WordBits -> Samplers(D, len)] /\ r[0] = BeginBatch(s, x)
      /\ \A k \in 1 .. WordBits : r[k] = Step(r[k - 1], D, len)
  BY DEF Reads
<1>4. After(0)
  <2>1. Lo(x, 1) = x
    <3>1. x * 1 = 0 * W + x /\ x \in 0 .. W - 1 /\ W \in Nat \ {0}
      BY WFacts DEF Words
    <3>2. (0 * W + x) % W = x
      BY <3>1, ModIs
    <3> QED BY <3>1, <3>2 DEF Lo
  <2>2. r[0].d = 0 /\ r[0].i = s.i /\ r[0].prod = 1 /\ r[0].lo = x
    <3>1. PICK z : z = BeginBatch(s, x)
      OBVIOUS
    <3>2. z.d = 0 /\ z.i = s.i /\ z.prod = 1 /\ z.lo = x
      <4>1. len \in Nat /\ Filled(s, D, len)
        BY <1>2
      <4>2. /\ BeginBatch(s, x).d = 0 /\ BeginBatch(s, x).i = s.i
            /\ BeginBatch(s, x).prod = 1 /\ BeginBatch(s, x).lo = x
        BY ONLY <4>1, x \in Words, BeginFills
      <4> QED BY <3>1, <4>2
    <3> QED BY ONLY <1>3, <3>1, <3>2
  <2> QED BY <1>0, <1>1, <1>2, <2>1, <2>2
<1>5. ASSUME NEW k \in 0 .. m - 1, After(k)
      PROVE  /\ After(k + 1) /\ r[k + 1] = Peel(r[k], D)
             /\ Filled(r[k], D, len) /\ r[k].i \in 2 .. len
  <2>1. k \in 0 .. WordBits /\ k + 1 \in 1 .. WordBits /\ (k + 1) - 1 = k
        /\ k + 1 \in 1 .. m /\ k \in 0 .. m
    BY <1>1
  <2>2. PICK t : t = r[k]
    OBVIOUS
  <2>3. t \in SamplerType(len) /\ Filled(t, D, len) /\ t \in Samplers(D, len)
    BY <1>3, <2>1, <2>2 DEF Samplers
  <2>4. t.d = k /\ t.i = s.i + k /\ t.prod = p[k] /\ t.lo = Lo(x, p[k])
    BY <1>5, <2>2
  <2>5. t.i \in 2 .. len /\ t.d < batchSpecs[n]
    <3>1. PICK b \in 1 .. WordBits : b = batchSpecs[n] /\ m <= b
      BY <1>1
    <3>2. PICK l \in Nat : l = len
      BY <1>2
    <3>3. PICK i \in Nat : i = s.i /\ i >= 2
      BY <1>2
    <3>4. /\ b \in Nat /\ m \in Nat /\ k \in Nat /\ k < m /\ m <= b
          /\ i >= 2 /\ i + m <= l + 1
      BY <1>1, <3>1, <3>2, <3>3, SMTT(30)
    <3>5. i + k \in 2 .. l /\ k < b
      BY ONLY <3>4
    <3> QED BY ONLY <2>4, <3>1, <3>2, <3>3, <3>5
  <2>6. CanPeel(t, D, len)
    BY <2>5 DEF CanPeel
  <2>7. r[k + 1] = Peel(t, D)
    <3>1. r[k + 1] = Step(r[k], D, len)
      BY <1>3, <2>1
    <3> QED BY <2>2, <2>6, <3>1 DEF Step
  <2>8. PICK u : u = Peel(t, D)
    OBVIOUS
  <2>9. u.lo = Lo(t.lo, n) /\ u.prod = t.prod * n /\ u.d = t.d + 1
    BY <2>3, <2>8, PeelCount
  <2>10. u.i = t.i + 1
    BY <1>2, <2>3, <2>5, <2>8, UniqueWrites
  <2>11. p[k + 1] = p[k] * n /\ p[k] \in 1 .. W - 1
    BY <1>0, <2>1
  <2>12. Lo(x, p[k] * n) = Lo(Lo(x, p[k]), n)
    BY <1>1, <2>11, HiLoCompose
  <2>13. u.d = k + 1 /\ u.i = s.i + (k + 1) /\ u.prod = p[k + 1] /\ u.lo = Lo(x, p[k + 1])
    <3>1. u.d = k + 1 /\ u.prod = p[k + 1] /\ u.lo = Lo(x, p[k + 1])
      BY ONLY <2>4, <2>9, <2>11, <2>12
    <3>2. PICK i \in Nat, l \in Nat : i = s.i /\ l = k
      BY <1>2, <2>1
    <3>3. u.i = s.i + (k + 1)
      BY ONLY <2>4, <2>10, <3>2
    <3> QED BY ONLY <3>1, <3>3
  <2> QED BY <2>2, <2>3, <2>5, <2>7, <2>8, <2>13
<1> HIDE DEF After
<1>6. \A k \in 0 .. m : After(k)
  <2>1. PICK S : S = {k \in Nat : k <= m => After(k)}
    OBVIOUS
  <2>2. 0 \in S
    BY <1>4, <2>1
  <2>3. ASSUME NEW k \in Nat, k \in S PROVE k + 1 \in S
    <3>1. SUFFICES ASSUME k + 1 <= m PROVE After(k + 1)
      BY <2>1
    <3>2. k \in 0 .. m - 1 /\ After(k)
      BY <1>1, <2>1, <2>3, <3>1
    <3> QED BY <1>5, <3>2
  <2>4. \A k \in Nat : k \in S
    BY <2>2, <2>3, Reached
  <2> QED BY <1>1, <2>1, <2>4
<1>7. ASSUME NEW k \in 1 .. m
      PROVE  r[k] = Peel(r[k - 1], D) /\ Filled(r[k - 1], D, len) /\ r[k - 1].i \in 2 .. len
  <2>1. PICK j \in 0 .. m - 1 : j = k - 1 /\ j + 1 = k /\ j \in 0 .. m
    BY <1>1
  <2>2. r[j + 1] = Peel(r[j], D) /\ Filled(r[j], D, len) /\ r[j].i \in 2 .. len
    BY <1>5, <1>6, <2>1
  <2> QED BY <2>1, <2>2
<1> QED BY <1>6, <1>7 DEF After

(* Then the batch is over.                                                 *)
LEMMA ReadEnds ==
  ASSUME NEW D, NEW len, NEW s, Standing(D, len, s), NEW x \in Words,
         NEW r, Reads(r, D, len, s, x), NEW m, m = Added(D, len, s)
  PROVE  r[WordBits] = r[m]
<1>1. PICK p : p = Power(Len(D) - 1)
  OBVIOUS
<1>2. /\ WordBits \in Nat /\ m \in 1 .. WordBits
      /\ m = batchSpecs[Len(D) - 1] \/ s.i + m = len + 1
  BY AddedIs, <1>1
<1>3. r[m].d = m /\ r[m].i = s.i + m
  <2>1. m \in 0 .. m
    BY <1>2
  <2> QED BY <1>1, <2>1, ReadDigits
<1>4. ~CanPeel(r[m], D, len)
  <2>1. len \in Nat /\ s.i \in Nat
    BY DEF Standing
  <2> QED BY <1>2, <1>3, <2>1 DEF CanPeel
<1>5. PICK S : S = {k \in Nat : m + k <= WordBits => r[m + k] = r[m]}
  OBVIOUS
<1>6. 0 \in S
  <2>1. m + 0 = m
    BY <1>2
  <2> QED BY <1>5, <2>1
<1>7. ASSUME NEW k \in Nat, k \in S PROVE k + 1 \in S
  <2>1. SUFFICES ASSUME m + (k + 1) <= WordBits PROVE r[m + (k + 1)] = r[m]
    BY <1>5
  <2>2. PICK j \in 1 .. WordBits : j = m + (k + 1) /\ j - 1 = m + k /\ m + k <= WordBits
    BY <1>2, <2>1
  <2>3. r[j - 1] = r[m]
    BY <1>5, <1>7, <2>2
  <2>4. r[j] = Step(r[j - 1], D, len)
    BY DEF Reads
  <2> QED BY <1>4, <2>2, <2>3, <2>4 DEF Step
<1>8. WordBits - m \in S
  <2>1. WordBits - m \in Nat
    BY <1>2
  <2> QED BY <1>6, <1>7, <2>1, Reached
<1>9. m + (WordBits - m) = WordBits
  BY <1>2
<1> QED BY <1>2, <1>5, <1>8, <1>9

(* Two words add the same symbols if and only if the high halves agree.    *)
LEMMA SameTexts ==
  ASSUME NEW D, NEW len, NEW s, Standing(D, len, s),
         NEW x \in Words, NEW r, Reads(r, D, len, s, x),
         NEW y \in Words, NEW q, Reads(q, D, len, s, y),
         NEW m, m = Added(D, len, s), NEW p, p = Power(Len(D) - 1)
  PROVE  (\A j \in s.i .. s.i + m - 1 : r[m].out[j] = q[m].out[j])
           <=> Hi(x, p[m]) = Hi(y, p[m])
<1> DEFINE n == Len(D) - 1
           Alike(k) == \A j \in s.i .. s.i + k - 1 : r[k].out[j] = q[k].out[j]
           SameHi(k) == Hi(x, p[k]) = Hi(y, p[k])
           Agree(k) == /\ Alike(k) <=> SameHi(k)
                       /\ SameHi(k) => r[k].last = q[k].last /\ r[k].lastIdx = q[k].lastIdx
<1>0. /\ \A k \in 0 .. m : p[k] \in 1 .. W - 1
      /\ p[0] = 1 /\ \A k \in 1 .. m : p[k] = p[k - 1] * n
  BY AddedIs
<1>1. WordBits \in Nat /\ n \in 1 .. W - 1 /\ m \in 1 .. WordBits
  BY AddedIs
<1>2. /\ D \in Dictionaries /\ IsUnique(D) /\ Len(D) >= 2 /\ len \in Nat
      /\ Filled(s, D, len) /\ s.i \in Nat /\ s.i >= 2
  BY DEF Standing
<1>3. /\ \A k \in 0 .. m : r[k].i = s.i + k /\ r[k].lo = Lo(x, p[k])
      /\ \A k \in 1 .. m : /\ r[k] = Peel(r[k - 1], D)
                           /\ Filled(r[k - 1], D, len) /\ r[k - 1].i \in 2 .. len
  BY ReadDigits
<1>4. /\ \A k \in 0 .. m : q[k].i = s.i + k /\ q[k].lo = Lo(y, p[k])
      /\ \A k \in 1 .. m : /\ q[k] = Peel(q[k - 1], D)
                           /\ Filled(q[k - 1], D, len) /\ q[k - 1].i \in 2 .. len
  BY ReadDigits
<1>5. Agree(0)
  <2>1. ASSUME NEW z \in Words PROVE Hi(z, 1) = 0
    <3>1. z * 1 = 0 * W + z /\ z \in 0 .. W - 1 /\ W \in Nat \ {0}
      BY WFacts DEF Words
    <3>2. (0 * W + z) \div W = 0
      BY <3>1, ModIs
    <3> QED BY <3>1, <3>2 DEF Hi
  <2>2. SameHi(0)
    BY <1>0, <2>1
  <2>3. Alike(0)
    BY <1>2
  <2>4. r[0].last = q[0].last /\ r[0].lastIdx = q[0].lastIdx
    <3>1. PICK z, e : z = BeginBatch(s, x) /\ e = BeginBatch(s, y)
      OBVIOUS
    <3>2. len \in Nat /\ Filled(s, D, len)
      BY <1>2
    <3>3. /\ BeginBatch(s, x).last = s.last /\ BeginBatch(s, x).lastIdx = s.lastIdx
          /\ BeginBatch(s, y).last = s.last /\ BeginBatch(s, y).lastIdx = s.lastIdx
      BY ONLY <3>2, x \in Words, y \in Words, BeginFills
    <3>4. r[0] = z /\ q[0] = e
      BY <3>1 DEF Reads
    <3> QED BY ONLY <3>1, <3>3, <3>4
  <2> QED BY <2>2, <2>3, <2>4
<1>6. ASSUME NEW k \in 1 .. m, Agree(k - 1) PROVE Agree(k)
  <2>1. PICK j \in 0 .. m : j = k - 1 /\ j + 1 = k
    BY <1>1
  <2>2. PICK t, u : t = r[j] /\ u = q[j]
    OBVIOUS
  <2>3. /\ Filled(t, D, len) /\ t.i \in 2 .. len /\ t.i = s.i + j /\ t.lo = Lo(x, p[j])
        /\ Filled(u, D, len) /\ u.i \in 2 .. len /\ u.i = s.i + j /\ u.lo = Lo(y, p[j])
        /\ r[k] = Peel(t, D) /\ q[k] = Peel(u, D)
    BY <1>3, <1>4, <2>1, <2>2
  <2>4. /\ t.lo \in Words /\ u.lo \in Words /\ t.lastIdx \in Nat /\ u.lastIdx \in Nat
        /\ t.out \in [1 .. len -> Cells] /\ u.out \in [1 .. len -> Cells]
    BY <2>3 DEF Filled, SamplerType
  <2>5. PICK a, b \in 0 .. n - 1 : a = Hi(t.lo, n) /\ b = Hi(u.lo, n)
    <3>1. PICK e \in 1 .. W - 1 : e = n
      BY <1>1
    <3>2. Hi(t.lo, e) \in 0 .. e - 1 /\ Hi(u.lo, e) \in 0 .. e - 1
      BY <2>4, MulSplit
    <3> HIDE DEF n
    <3> QED BY ONLY <3>1, <3>2
  <2>6. PICK v, w : v = NextAt(t, D) /\ w = NextAt(u, D)
    OBVIOUS
  <2>7. v = a + skipPast(a, t.lastIdx) /\ w = b + skipPast(b, u.lastIdx)
    BY <2>5, <2>6 DEF NextAt
  <2>8. /\ v \in 0 .. Len(D) - 1 /\ w \in 0 .. Len(D) - 1
        /\ r[k].out = [t.out EXCEPT ![t.i] = At(D, v)]
        /\ r[k].last = At(D, v) /\ r[k].lastIdx = v
        /\ q[k].out = [u.out EXCEPT ![u.i] = At(D, w)]
        /\ q[k].last = At(D, w) /\ q[k].lastIdx = w
    <3>1. D \in Dictionaries /\ IsUnique(D) /\ Len(D) >= 2 /\ len \in Nat
      BY <1>2
    <3>2. /\ v \in 0 .. Len(D) - 1 /\ Peel(t, D).out = [t.out EXCEPT ![t.i] = At(D, v)]
          /\ Peel(t, D).last = At(D, v) /\ Peel(t, D).lastIdx = v
      BY ONLY <2>3, <2>6, <3>1, UniqueWrites
    <3>3. /\ w \in 0 .. Len(D) - 1 /\ Peel(u, D).out = [u.out EXCEPT ![u.i] = At(D, w)]
          /\ Peel(u, D).last = At(D, w) /\ Peel(u, D).lastIdx = w
      BY ONLY <2>3, <2>6, <3>1, UniqueWrites
    <3> QED BY ONLY <2>3, <3>2, <3>3
  <2>9. PICK g, h \in Nat : g = Hi(x, p[j]) /\ h = Hi(y, p[j])
    <3>1. PICK e \in 1 .. W - 1 : e = p[j]
      BY <1>0
    <3>2. Hi(x, e) \in 0 .. e - 1 /\ Hi(y, e) \in 0 .. e - 1
      BY MulSplit
    <3> QED BY <3>1, <3>2
  <2>10. Hi(x, p[k]) = g * n + a /\ Hi(y, p[k]) = h * n + b
    <3>1. p[k] = p[j] * n /\ p[j] \in 1 .. W - 1
      BY <1>0, <2>1
    <3>2. Hi(x, p[j] * n) = Hi(x, p[j]) * n + Hi(Lo(x, p[j]), n)
      BY <1>1, <3>1, HiLoCompose, SMTT(30)
    <3>3. Hi(y, p[j] * n) = Hi(y, p[j]) * n + Hi(Lo(y, p[j]), n)
      BY <1>1, <3>1, HiLoCompose, SMTT(30)
    <3>4. a = Hi(Lo(x, p[j]), n) /\ b = Hi(Lo(y, p[j]), n)
      BY <2>3, <2>5
    <3> QED BY <2>9, <3>1, <3>2, <3>3, <3>4
  <2>11. SameHi(k) <=> g = h /\ a = b
    <3>1. n \in Nat \ {0}
      <4>1. PICK e \in 1 .. W - 1 : e = n
        BY <1>1
      <4> HIDE DEF n
      <4> QED BY ONLY <4>1, WFacts
    <3>2. g * n + a = h * n + b <=> g = h /\ a = b
      BY <3>1, SameDigits
    <3> QED BY <2>10, <3>2
  <2>12. SameHi(j) <=> g = h
    BY <2>9
  <2>13. /\ Alike(j) <=> g = h
         /\ g = h => t.lastIdx = u.lastIdx
    BY <1>6, <2>1, <2>2, <2>12
  <2>14. Alike(k) <=> Alike(j) /\ At(D, v) = At(D, w)
    <3>1. PICK i \in 2 .. len : i = t.i /\ i = u.i /\ i = s.i + j
      BY <2>3
    <3>2. r[k].out = [t.out EXCEPT ![i] = At(D, v)] /\ q[k].out = [u.out EXCEPT ![i] = At(D, w)]
      BY <2>8, <3>1
    <3>3. i \in 1 .. len /\ i \in s.i .. s.i + k - 1
      BY <1>2, <2>1, <3>1
    <3>4. r[k].out[i] = At(D, v) /\ q[k].out[i] = At(D, w)
      BY <2>4, <3>2, <3>3
    <3>5. ASSUME NEW l \in s.i .. s.i + j - 1
          PROVE  r[k].out[l] = t.out[l] /\ q[k].out[l] = u.out[l]
      <4>1. l \in 1 .. len /\ l # i
        BY <1>2, <3>1, SMTT(30)
      <4> QED BY <2>4, <3>2, <4>1
    <3>6. \A l \in s.i .. s.i + k - 1 : l = i \/ l \in s.i .. s.i + j - 1
      BY <1>2, <2>1, <3>1, SMTT(30)
    <3>7. \A l \in s.i .. s.i + j - 1 : l \in s.i .. s.i + k - 1
      BY <1>2, <2>1, SMTT(30)
    <3>8. Alike(j) <=> \A l \in s.i .. s.i + j - 1 : t.out[l] = u.out[l]
      BY <2>2
    <3> HIDE DEF Alike
    <3>9. Alike(k) <=> \A l \in s.i .. s.i + k - 1 : r[k].out[l] = q[k].out[l]
      BY DEF Alike
    <3> QED BY <3>3, <3>4, <3>5, <3>6, <3>7, <3>8, <3>9
  <2>15. At(D, v) = At(D, w) <=> v = w
    <3>1. DOMAIN D = 1 .. Len(D) /\ Len(D) \in Nat
      BY <1>2, DictionaryFacts
    <3>2. v + 1 \in DOMAIN D /\ w + 1 \in DOMAIN D
      BY <2>8, <3>1
    <3>3. D[v + 1] = D[w + 1] => v + 1 = w + 1
      BY <1>2, <3>2 DEF IsUnique, IsInjective
    <3>4. v + 1 = w + 1 => v = w
      BY <2>8
    <3> QED BY <3>3, <3>4 DEF At
  <2>16. t.lastIdx = u.lastIdx => (v = w <=> a = b)
    <3>1. a \in Nat /\ b \in Nat
      BY <1>1
    <3> QED BY <2>4, <2>7, <3>1, SkipPastIs
  <2> HIDE DEF Alike, SameHi
  <2>17. Alike(k) <=> SameHi(k)
    BY <2>11, <2>13, <2>14, <2>15, <2>16
  <2>18. SameHi(k) => r[k].last = q[k].last /\ r[k].lastIdx = q[k].lastIdx
    BY <2>8, <2>11, <2>13, <2>16
  <2> QED BY <2>17, <2>18
<1> HIDE DEF Agree
<1>7. Agree(m)
  <2>1. PICK S : S = {k \in Nat : k <= m => Agree(k)}
    OBVIOUS
  <2>2. 0 \in S
    BY <1>5, <2>1
  <2>3. ASSUME NEW k \in Nat, k \in S PROVE k + 1 \in S
    <3>1. SUFFICES ASSUME k + 1 <= m PROVE Agree(k + 1)
      BY <2>1
    <3>2. k + 1 \in 1 .. m /\ (k + 1) - 1 = k /\ Agree(k)
      BY <1>1, <2>1, <2>3, <3>1
    <3> QED BY <1>6, <3>2
  <2>4. \A k \in Nat : k \in S
    BY <2>2, <2>3, Reached
  <2> QED BY <1>1, <2>1, <2>4
<1> QED BY <1>7 DEF Agree

(* Two parts are the same if and only if all their elements are.           *)
LEMMA SamePart ==
  ASSUME NEW len \in Nat, NEW S, NEW a \in [1 .. len -> S], NEW b \in [1 .. len -> S],
         NEW i \in Nat \ {0}, NEW m \in Nat, i + m <= len + 1
  PROVE  SubSeq(a, i, i + m - 1) = SubSeq(b, i, i + m - 1)
           <=> \A j \in i .. i + m - 1 : a[j] = b[j]
<1>1. \A c \in [1 .. len -> S] :
        SubSeq(c, i, i + m - 1) = [k \in 1 .. m |-> c[i + k - 1]]
  <2> TAKE c \in [1 .. len -> S]
  <2>1. (i + m - 1) - i + 1 = m
    OBVIOUS
  <2>2. SubSeq(c, i, i + m - 1) = [k \in 1 .. (i + m - 1) - i + 1 |-> c[i + k - 1]]
    OBVIOUS
  <2> QED BY <2>1, <2>2
<1>2. PICK u, v : u = [k \in 1 .. m |-> a[i + k - 1]] /\ v = [k \in 1 .. m |-> b[i + k - 1]]
  OBVIOUS
<1>3. u = v <=> \A k \in 1 .. m : u[k] = v[k]
  BY <1>2
<1>4. ASSUME \A k \in 1 .. m : u[k] = v[k], NEW j \in i .. i + m - 1 PROVE a[j] = b[j]
  <2>1. PICK k \in 1 .. m : k = j - i + 1 /\ i + k - 1 = j
    OBVIOUS
  <2> QED BY <1>2, <1>4, <2>1
<1>5. ASSUME \A j \in i .. i + m - 1 : a[j] = b[j], NEW k \in 1 .. m PROVE u[k] = v[k]
  <2>1. i + k - 1 \in i .. i + m - 1
    OBVIOUS
  <2> QED BY <1>2, <1>5, <2>1
<1> QED BY <1>1, <1>2, <1>3, <1>4, <1>5

(* A one-to-one correspondence keeps the size.                             *)
LEMMA SameSize ==
  ASSUME NEW S, IsFiniteSet(S), NEW T, NEW f \in [S -> T],
         \A a, b \in S : f[a] = f[b] => a = b,
         \A t \in T : \E a \in S : f[a] = t
  PROVE  Cardinality(T) = Cardinality(S)
<1>1. f \in Bijection(S, T)
  BY Fun_IsBij
<1>2. ExistsBijection(S, T)
  BY <1>1 DEF ExistsBijection
<1> QED BY <1>2, FS_Bijection

(* The words that are accepted when their digits multiply to N.            *)
AcceptedWords(N) == {x \in Words : ~Rejects(Lo(x, N), N)}

(* The texts of two words differ as the high halves do.                    *)
Tells(text, N) == \A x, y \in Words : text[x] = text[y] <=> Hi(x, N) = Hi(y, N)

TextsOf(text, A) == {text[x] : x \in A}

SharersOf(text, A, x) == {y \in A : text[y] = text[x]}

(* If texts differ as the high halves do, there are N of them, and each    *)
(* has its share of the accepted words.                                    *)
LEMMA EqualShares ==
  ASSUME NEW N \in 1 .. W - 1, NEW text, Tells(text, N),
         NEW A, A = AcceptedWords(N)
  PROVE  /\ Cardinality(TextsOf(text, A)) = N
         /\ \A x \in A : /\ IsFiniteSet(SharersOf(text, A, x))
                         /\ Cardinality(SharersOf(text, A, x)) = W \div N
<1>1. /\ N \in Nat /\ W \in Nat \ {0} /\ A \subseteq Words
      /\ \A x \in Words : Hi(x, N) \in 0 .. N - 1
  BY WFacts, MulSplit DEF AcceptedWords
<1>2. ASSUME NEW v \in 0 .. N - 1
      PROVE  /\ Accepted(N, v) = {x \in A : Hi(x, N) = v}
             /\ Accepted(N, v) # {}
  <2>1. Accepted(N, v) = {x \in A : Hi(x, N) = v}
    BY DEF Accepted, AcceptedWords
  <2>2. Cardinality(Accepted(N, v)) = W \div N
    BY AcceptedCount
  <2>3. W \div N # 0
    <3>1. PICK q \in Nat, t \in 0 .. N - 1 : q = W \div N /\ W = q * N + t
      BY ThresholdIs
    <3>2. q = 0 => q * N = 0
      BY <1>1
    <3>3. q = 0 => W = t
      BY ONLY <1>1, <3>1, <3>2
    <3> QED BY <1>1, <3>1, <3>3
  <2> QED BY <2>1, <2>2, <2>3, FS_EmptySet
<1>3. Cardinality(TextsOf(text, A)) = N
  <2> DEFINE T == {text[x] : x \in A}
             first(v) == CHOOSE x : x \in Accepted(N, v)
  <2>1. ASSUME NEW v \in 0 .. N - 1
        PROVE  first(v) \in A /\ first(v) \in Words /\ Hi(first(v), N) = v
    <3>1. first(v) \in Accepted(N, v)
      BY <1>2
    <3> QED BY <1>1, <1>2, <3>1
  <2> HIDE DEF first
  <2>2. PICK f : f = [v \in 0 .. N - 1 |-> text[first(v)]]
    OBVIOUS
  <2>3. f \in [0 .. N - 1 -> T]
    BY <2>1, <2>2
  <2>4. \A v, w \in 0 .. N - 1 : f[v] = f[w] => v = w
    BY <2>1, <2>2 DEF Tells
  <2>5. ASSUME NEW t \in T PROVE \E v \in 0 .. N - 1 : f[v] = t
    <3>1. PICK x \in A : t = text[x]
      OBVIOUS
    <3>2. PICK v \in 0 .. N - 1 : v = Hi(x, N)
      BY <1>1
    <3>3. text[x] = text[first(v)]
      BY <1>1, <2>1, <3>2 DEF Tells
    <3> QED BY <2>2, <3>1, <3>3
  <2>6. IsFiniteSet(0 .. N - 1) /\ Cardinality(0 .. N - 1) = N
    <3>1. 0 \in Int /\ N - 1 \in Int /\ ~(0 > N - 1) /\ (N - 1) - 0 + 1 = N
      BY <1>1
    <3> QED BY ONLY <3>1, FS_Interval
  <2> HIDE DEF T
  <2>7. Cardinality(T) = Cardinality(0 .. N - 1)
    BY ONLY <2>3, <2>4, <2>5, <2>6, SameSize
  <2> QED BY <2>6, <2>7 DEF T, TextsOf
<1>4. ASSUME NEW x \in A
      PROVE  /\ IsFiniteSet(SharersOf(text, A, x))
             /\ Cardinality(SharersOf(text, A, x)) = W \div N
  <2>1. PICK v \in 0 .. N - 1 : v = Hi(x, N)
    BY <1>1
  <2>2. SharersOf(text, A, x) = Accepted(N, v)
    BY <1>1, <1>2, <2>1 DEF Tells, SharersOf
  <2>3. IsFiniteSet(Words)
    BY <1>1, FS_Interval DEF Words
  <2>4. Accepted(N, v) \in SUBSET Words
    BY DEF Accepted
  <2> QED BY <2>2, <2>3, <2>4, FS_Subset, AcceptedCount
<1> QED BY <1>3, <1>4

(* What the words add, were they accepted.                                 *)
AddedTexts(m) == [x \in Words |-> SubSeq(Run(x).out, st.i, st.i + m - 1)]

(* A word that is drawn while the dictionary repeats nothing: what it      *)
(* writes is a text of Added symbols, and it counts when it is accepted.   *)
LEMMA RunIs ==
  ASSUME pc = "word", IInv, IsUnique(dict),
         NEW m, m = Added(dict, length, st), NEW N, N = Power(Len(dict) - 1)[m]
  PROVE  /\ N \in 1 .. W - 1
         /\ \A x \in Words :
              /\ Run(x).i - 1 = st.i + m - 1
              /\ BatchRejected(Run(x)) <=> Rejects(Lo(x, N), N)
         /\ Tells(AddedTexts(m), N)
<1>1. Standing(dict, length, st)
  <2>1. Sampling /\ InBatch
    BY DEF IInv
  <2>2. st.i = kept.i
    BY <2>1 DEF InBatch, Position
  <2>3. /\ dict \in Dictionaries /\ length \in Nat /\ Filled(st, dict, length)
        /\ Len(dict) \in Nat /\ WideAbove \in Nat
    BY <2>1, DictionaryFacts, DictionariesAssumption DEF Sampling, Request
  <2> QED BY <2>1, <2>2, <2>3 DEF Standing, InBatch
<1>2. /\ dict \in Dictionaries /\ Len(dict) >= 2 /\ length \in Nat
      /\ Filled(st, dict, length) /\ st.i > 1 /\ st.i \in Nat
  BY <1>1 DEF Standing
<1>3. PICK p : p = Power(Len(dict) - 1)
  OBVIOUS
<1>4. /\ WordBits \in Nat /\ m \in 1 .. WordBits /\ st.i + m <= length + 1
      /\ \A k \in 0 .. m : p[k] \in 1 .. W - 1
  BY <1>1, <1>3, AddedIs
<1>5. N = p[m] /\ N \in 1 .. W - 1
  BY <1>3, <1>4
<1>6. \A x \in Words : \E r : Reads(r, dict, length, st, x) /\ Run(x) = r[WordBits]
  BY ONLY <1>2, RunReads
<1>7. ASSUME NEW x \in Words, NEW r, Reads(r, dict, length, st, x), Run(x) = r[WordBits]
      PROVE  /\ Run(x) = r[m]
             /\ r[m].i = st.i + m /\ r[m].prod = N /\ r[m].lo = Lo(x, N)
             /\ r[m].out \in [1 .. length -> Cells]
  <2>1. Run(x) = r[m]
    BY <1>1, <1>7, ReadEnds
  <2>2. m \in 0 .. m /\ m \in 0 .. WordBits
    BY <1>4
  <2>3. r[m].i = st.i + m /\ r[m].prod = p[m] /\ r[m].lo = Lo(x, p[m])
    BY <1>1, <1>3, <1>7, <2>2, ReadDigits
  <2>4. r[m] \in SamplerType(length)
    BY <1>7, <2>2 DEF Reads, Samplers
  <2>5. r[m].out \in [1 .. length -> Cells]
    BY <2>4 DEF SamplerType
  <2> QED BY <1>5, <2>1, <2>3, <2>5
<1>8. ASSUME NEW x \in Words
      PROVE  /\ Run(x).i - 1 = st.i + m - 1
             /\ BatchRejected(Run(x)) <=> Rejects(Lo(x, N), N)
  <2>1. PICK r : Reads(r, dict, length, st, x) /\ Run(x) = r[WordBits]
    BY <1>6
  <2>2. PICK e : e = Run(x) /\ e.i = st.i + m /\ e.prod = N /\ e.lo = Lo(x, N)
    BY <1>7, <2>1
  <2>3. e.i - 1 = st.i + m - 1
    BY <1>2, <1>4, <2>2
  <2>4. BatchRejected(e) <=> Rejects(Lo(x, N), N)
    <3>1. PICK l \in Words, t \in 0 .. N - 1 : l = Lo(x, N) /\ t = Threshold(N)
      BY <1>5, MulSplit, ThresholdIs
    <3>2. BatchRejected(e) <=> l < N /\ l < t
      BY <2>2, <3>1 DEF BatchRejected, Excess
    <3>3. Rejects(Lo(x, N), N) <=> l < t
      BY <3>1 DEF Rejects
    <3>4. l < t => l < N
      <4>1. PICK n \in Nat : n = N
        BY <1>5, WFacts
      <4>2. l \in Int /\ t \in Int /\ t <= n - 1
        BY <3>1, <4>1 DEF Words
      <4> QED BY ONLY <4>1, <4>2
    <3> QED BY <3>2, <3>3, <3>4
  <2> QED BY <2>2, <2>3, <2>4
<1>9. ASSUME NEW x \in Words, NEW y \in Words
      PROVE  SubSeq(Run(x).out, st.i, st.i + m - 1) = SubSeq(Run(y).out, st.i, st.i + m - 1)
               <=> Hi(x, N) = Hi(y, N)
  <2>1. PICK r : Reads(r, dict, length, st, x) /\ Run(x) = r[WordBits]
    BY <1>6
  <2>2. PICK q : Reads(q, dict, length, st, y) /\ Run(y) = q[WordBits]
    BY <1>6
  <2>3. (\A j \in st.i .. st.i + m - 1 : r[m].out[j] = q[m].out[j]) <=> Hi(x, N) = Hi(y, N)
    BY <1>1, <1>3, <1>5, <2>1, <2>2, SameTexts
  <2>4. PICK a, b : a = r[m].out /\ b = q[m].out
    OBVIOUS
  <2>5. Run(x).out = a /\ Run(y).out = b
    BY <1>7, <2>1, <2>2, <2>4
  <2>6. a \in [1 .. length -> Cells] /\ b \in [1 .. length -> Cells]
    BY <1>7, <2>1, <2>2, <2>4
  <2>7. PICK i \in Nat : i = st.i /\ i >= 1 /\ i + m <= length + 1
    BY <1>2, <1>4
  <2>8. SubSeq(a, i, i + m - 1) = SubSeq(b, i, i + m - 1)
          <=> \A j \in i .. i + m - 1 : a[j] = b[j]
    <3>1. PICK l \in Nat : l = length
      BY <1>2
    <3>2. m \in Nat /\ i \in Nat \ {0} /\ i + m <= l + 1
      BY <1>4, <2>7, <3>1
    <3>3. a \in [1 .. l -> Cells] /\ b \in [1 .. l -> Cells]
      BY <2>6, <3>1
    <3> QED BY ONLY <3>2, <3>3, SamePart
  <2>9. (\A j \in i .. i + m - 1 : a[j] = b[j]) <=> Hi(x, N) = Hi(y, N)
    BY ONLY <2>3, <2>4, <2>7
  <2> QED BY ONLY <2>5, <2>7, <2>8, <2>9
<1>10. Tells(AddedTexts(m), N)
  BY <1>9 DEF Tells, AddedTexts
<1> QED BY <1>5, <1>8, <1>10

LEMMA IInvUniform == IInv => BatchUniform
<1> SUFFICES ASSUME IInv, pc = "word", IsUnique(dict)
             PROVE  LET n1 == Len(dict) - 1
                        left == length - st.i + 1
                        m == IF left < batchSpecs[n1] THEN left ELSE batchSpecs[n1]
                        accepted == AcceptedEnds
                        texts == {SubSeq(e[2].out, st.i, e[2].i - 1) : e \in accepted}
                    IN  /\ Cardinality(texts) = Power(n1)[m]
                        /\ \A t \in texts :
                             Cardinality({e \in accepted :
                                            SubSeq(e[2].out, st.i, e[2].i - 1) = t})
                               = W \div Power(n1)[m]
  BY DEF BatchUniform
<1>1. PICK m : m = Added(dict, length, st)
  OBVIOUS
<1>2. PICK N : N = Power(Len(dict) - 1)[m]
  OBVIOUS
<1>3. PICK run : run = [x \in Words |-> Run(x)]
  OBVIOUS
<1>4. PICK text : text = AddedTexts(m)
  OBVIOUS
<1>5. PICK A : A = AcceptedWords(N)
  OBVIOUS
<1> DEFINE Text(e) == SubSeq(e[2].out, st.i, e[2].i - 1)
           texts == {Text(e) : e \in AcceptedEnds}
<1>6. N \in 1 .. W - 1 /\ Tells(text, N)
  BY <1>1, <1>2, <1>4, RunIs
<1>7. ASSUME NEW x \in Words
      PROVE  /\ BatchRejected(run[x]) <=> Rejects(Lo(x, N), N)
             /\ SubSeq(run[x].out, st.i, run[x].i - 1) = text[x]
  <2>1. run[x] = Run(x)
    BY <1>3
  <2>2. /\ Run(x).i - 1 = st.i + m - 1
        /\ BatchRejected(Run(x)) <=> Rejects(Lo(x, N), N)
    BY <1>1, <1>2, RunIs
  <2>3. text[x] = SubSeq(Run(x).out, st.i, st.i + m - 1)
    BY <1>4 DEF AddedTexts
  <2> QED BY ONLY <2>1, <2>2, <2>3
<1>8. \A x \in A : x \in Words
  BY <1>5 DEF AcceptedWords
<1>9. AcceptedEnds = {<<x, run[x]>> : x \in A}
  <2>1. Ends = {<<x, run[x]>> : x \in Words}
    BY <1>3 DEF Ends
  <2>2. \A x \in Words : x \in A <=> ~BatchRejected(run[x])
    BY <1>5, <1>7 DEF AcceptedWords
  <2> QED BY ONLY <1>8, <2>1, <2>2 DEF AcceptedEnds
<1>10. \A x \in A : Text(<<x, run[x]>>) = text[x]
  BY <1>7, <1>8
<1> HIDE DEF Text
<1>11. texts = TextsOf(text, A)
  BY ONLY <1>9, <1>10 DEF TextsOf
<1>12. /\ Cardinality(TextsOf(text, A)) = N
       /\ \A x \in A : /\ IsFiniteSet(SharersOf(text, A, x))
                       /\ Cardinality(SharersOf(text, A, x)) = W \div N
  BY ONLY <1>5, <1>6, EqualShares
<1>13. ASSUME NEW t \in texts
       PROVE  Cardinality({e \in AcceptedEnds : Text(e) = t}) = W \div N
  <2>1. PICK x \in A : t = text[x]
    BY <1>11 DEF TextsOf
  <2>2. PICK S : S = {y \in A : text[y] = text[x]}
    OBVIOUS
  <2>3. PICK T : T = {e \in AcceptedEnds : Text(e) = t}
    OBVIOUS
  <2>4. PICK f : f = [y \in S |-> <<y, run[y]>>]
    OBVIOUS
  <2>5. f \in [S -> T]
    BY ONLY <1>9, <1>10, <2>1, <2>2, <2>3, <2>4
  <2>6. \A a, b \in S : f[a] = f[b] => a = b
    BY ONLY <2>4
  <2>7. \A e \in T : \E a \in S : f[a] = e
    BY ONLY <1>9, <1>10, <2>1, <2>2, <2>3, <2>4
  <2>8. IsFiniteSet(S) /\ Cardinality(S) = W \div N
    BY <1>12, <2>2 DEF SharersOf
  <2>9. Cardinality(T) = Cardinality(S)
    BY ONLY <2>5, <2>6, <2>7, <2>8, SameSize
  <2> QED BY <2>3, <2>8, <2>9
<1>14. /\ Cardinality(texts) = N
       /\ \A t \in texts : Cardinality({e \in AcceptedEnds : Text(e) = t}) = W \div N
  BY <1>11, <1>12, <1>13
<1> QED BY <1>1, <1>2, <1>14 DEF Text, Added

(* From wherever a word is drawn with a dictionary without repetition, the *)
(* accepted words add all (n-1)^m continuations of the same length m, each *)
(* by equally many words: whatever the dictionary, the length and the      *)
(* symbols written so far.                                                 *)
THEOREM BatchUniformHolds == Spec => []BatchUniform
<1>1. IInv => BatchUniform
  BY IInvUniform
<1> QED BY <1>1, InvHolds, PTL

(* A word has no adjacent duplicates at any moment of its drawing, and     *)
(* when it is returned it is complete and made of the dictionary's bytes.  *)
THEOREM NoAdjacentDuplicatesHolds == Spec => []NoAdjacentDuplicates
<1>1. Init => IInv
  BY InitIInv
<1>2. IInv /\ [Next]_vars => IInv'
  BY NextIInv
<1>3. IInv => NoAdjacentDuplicates
  BY IInvAdjacent
<1> QED BY <1>1, <1>2, <1>3, PTL DEF Spec

(* Whenever the next random word is drawn, the sampler is where the last   *)
(* accepted word left it, whatever the rejected ones in between wrote.     *)
THEOREM RejectionRestoresHolds == Spec => []RejectionRestores
<1>1. Init => IInv
  BY InitIInv
<1>2. IInv /\ [Next]_vars => IInv'
  BY NextIInv
<1>3. IInv => RejectionRestores
  BY IInvRestores
<1> QED BY <1>1, <1>2, <1>3, PTL DEF Spec
================================================================================
