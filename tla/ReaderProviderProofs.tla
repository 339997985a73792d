------------------------- MODULE ReaderProviderProofs -------------------------
(***************************************************************************)
(* For any number of goroutines, any word size and any lengths, whatever   *)
(* the reader serves: no byte is given out twice, a value has all its      *)
(* bytes or an error is raised, and a call that is alone gets the next     *)
(* bytes of the stream.                                                    *)
(***************************************************************************)
EXTENDS ReaderProvider, SequenceTheorems, FiniteSetTheorems, TLAPS

-------------------------------------------------------------------------------
(* The inductive invariant.                                                *)

Kinds == {"Read", "Sum", "Sum32", "Sum64", "fill"}
CallRecords == [kind : Kinds, len : Nat, chunk : Nat, from : Nat, alone : BOOLEAN]
ResultRecords == [call : CallRecords, bytes : Seq(Nat),
                  err : Errors \union {"panic", "ErrUnexpectedEOF"}, upto : Nat]

Types ==
  /\ taken \in Nat
  /\ call \in [Goroutines -> CallRecords \union {NoCall}]
  /\ buf \in [Goroutines -> Seq(Nat)]
  /\ err \in [Goroutines -> Errors]
  /\ out \in [Goroutines -> Seq(Nat)]
  /\ results \in Seq(ResultRecords)

Ordered(s) == \A i, j \in DOMAIN s : i < j => s[i] < s[j]

UpTo(s, t) == \A i \in DOMAIN s : s[i] \in 0 .. t

(* Who holds which bytes: BytesOnceInOrder, and none that the reader has   *)
(* not handed out.                                                         *)
Separate ==
  /\ BytesOnceInOrder
  /\ \A h \in Holdings : UpTo(Held(h), taken)

PrefixLen(c) == IF c.kind = "Sum" THEN 1 ELSE 0

(* A slice is filled word by word; every other call is one ReadFull.       *)
WellFormed(c) ==
  /\ c \in CallRecords
  /\ c.chunk = IF c.kind = "fill" THEN BytesPerWord ELSE c.len

(* What a call c has, with o written for the caller and b in its buffer:   *)
(* nothing but the reader's bytes behind the caller's own, and only whole  *)
(* words of them before the last.                                          *)
Progress(c, o, b) ==
  /\ WellFormed(c)
  /\ Len(o) \in PrefixLen(c) .. PrefixLen(c) + c.len
  /\ \A i \in DOMAIN o : o[i] = CallersByte <=> i <= PrefixLen(c)
  /\ Len(b) <= c.chunk
  /\ \A i \in DOMAIN b : b[i] # CallersByte
  /\ Len(o) < PrefixLen(c) + c.len =>
       \E q \in Nat : Len(o) = PrefixLen(c) + q * c.chunk

UsedUp(c) == IF c.kind = "fill" THEN RoundUp(c.len) ELSE c.len

(* What a call that nobody else overlaps has: all bytes since it began.    *)
Contiguous(c, o, b, t) ==
  /\ \A i \in DOMAIN o : i > PrefixLen(c) => o[i] = c.from + i - PrefixLen(c)
  /\ Len(o) = PrefixLen(c) + c.len => t = c.from + UsedUp(c)
  /\ Len(o) < PrefixLen(c) + c.len =>
       /\ t = c.from + Len(o) - PrefixLen(c) + Len(b)
       /\ \A i \in DOMAIN b : b[i] = c.from + Len(o) - PrefixLen(c) + i

(* WholeOrError and AloneIsContiguous, of one result.                      *)
WholeResult(r) ==
  LET got == Cardinality(Bytes(r.bytes))
  IN  /\ r.err = "nil" => got = r.call.len
      /\ r.err # "nil" => got < r.call.len
      /\ r.err = "panic" => r.call.kind # "Read" /\ got % BytesPerWord = 0
      /\ r.err \notin {"nil", "panic"} => r.call.kind = "Read"
      /\ r.err = "EOF" => got = 0
      /\ r.err = "ErrUnexpectedEOF" => got > 0

ContiguousResult(r) ==
  r.err = "nil" /\ r.call.alone =>
    /\ \A b \in Bytes(r.bytes) : b \in r.call.from + 1 .. r.call.from + r.call.len
    /\ r.upto = r.call.from + UsedUp(r.call)

ReaderInv ==
  /\ Types
  /\ Separate
  /\ \A g \in Goroutines \ Active : buf[g] = <<>> /\ err[g] = "nil" /\ out[g] = <<>>
  /\ \A g \in Active : Progress(call[g], out[g], buf[g])
  /\ \A g \in Active : call[g].alone =>
       Active = {g} /\ Contiguous(call[g], out[g], buf[g], taken)
  /\ \A i \in DOMAIN results :
       WholeResult(results[i]) /\ ContiguousResult(results[i])
-------------------------------------------------------------------------------
(* Sequences of bytes.                                                     *)

(* A concatenation of two ordered sequences, the first below the second.   *)
LEMMA JoinOrdered ==
  ASSUME NEW s \in Seq(Nat), NEW t \in Seq(Nat), Ordered(s), Ordered(t),
         \A i \in DOMAIN s, j \in DOMAIN t : s[i] < t[j]
  PROVE  /\ Ordered(s \o t)
         /\ \A i \in DOMAIN (s \o t) :
              (\E j \in DOMAIN s : (s \o t)[i] = s[j]) \/ (\E j \in DOMAIN t : (s \o t)[i] = t[j])
<1> DEFINE u == s \o t
<1>1. /\ u \in Seq(Nat) /\ Len(u) = Len(s) + Len(t)
      /\ \A i \in 1 .. Len(s) + Len(t) : u[i] = IF i <= Len(s) THEN s[i] ELSE t[i - Len(s)]
  BY ConcatProperties
<1>2. /\ Len(s) \in Nat /\ Len(t) \in Nat
      /\ DOMAIN s = 1 .. Len(s) /\ DOMAIN t = 1 .. Len(t)
      /\ DOMAIN u = 1 .. Len(s) + Len(t)
  <2> HIDE DEF u
  <2> QED BY <1>1
<1> HIDE DEF u
<1>3. ASSUME NEW i \in DOMAIN u, i <= Len(s)
      PROVE  i \in DOMAIN s /\ u[i] = s[i]
  BY <1>1, <1>2, <1>3
<1>4. ASSUME NEW i \in DOMAIN u, ~(i <= Len(s))
      PROVE  i - Len(s) \in DOMAIN t /\ u[i] = t[i - Len(s)]
  BY <1>1, <1>2, <1>4
<1>5. Ordered(u)
  <2> SUFFICES ASSUME NEW i \in DOMAIN u, NEW j \in DOMAIN u, i < j
               PROVE  u[i] < u[j]
    BY DEF Ordered
  <2>1. CASE j <= Len(s)
    <3>1. i <= Len(s)
      BY <2>1, <1>2
    <3> QED BY <2>1, <3>1, <1>3 DEF Ordered
  <2>2. CASE i <= Len(s) /\ ~(j <= Len(s))
    BY <2>2, <1>3, <1>4
  <2>3. CASE ~(i <= Len(s)) /\ ~(j <= Len(s))
    <3>1. i - Len(s) < j - Len(s)
      BY <1>2
    <3> QED BY <2>3, <3>1, <1>4 DEF Ordered
  <2>4. i <= Len(s) \/ ~(j <= Len(s)) \/ j <= Len(s)
    OBVIOUS
  <2> QED BY <2>1, <2>2, <2>3, <2>4
<1>6. \A i \in DOMAIN u :
        (\E j \in DOMAIN s : u[i] = s[j]) \/ (\E j \in DOMAIN t : u[i] = t[j])
  BY <1>3, <1>4
<1> QED BY <1>5, <1>6 DEF u

(* A stretch v of the sequence u, from behind position k.                  *)
LEMMA PartOrdered ==
  ASSUME NEW u \in Seq(Nat), NEW v \in Seq(Nat), NEW k \in Nat, NEW t \in Nat,
         k + Len(v) <= Len(u), \A i \in 1 .. Len(v) : v[i] = u[k + i],
         Ordered(u), UpTo(u, t)
  PROVE  Ordered(v) /\ UpTo(v, t) /\ Bytes(v) \subseteq Bytes(u)
<1>1. /\ Len(u) \in Nat /\ Len(v) \in Nat
      /\ DOMAIN u = 1 .. Len(u) /\ DOMAIN v = 1 .. Len(v)
  OBVIOUS
<1>2. \A i \in DOMAIN v : k + i \in DOMAIN u /\ v[i] = u[k + i]
  BY <1>1
<1>3. Ordered(v)
  <2> SUFFICES ASSUME NEW i \in DOMAIN v, NEW j \in DOMAIN v, i < j
               PROVE  v[i] < v[j]
    BY DEF Ordered
  <2>1. k + i < k + j
    BY <1>1
  <2> QED BY <2>1, <1>2 DEF Ordered
<1>4. UpTo(v, t)
  BY <1>2 DEF UpTo
<1>5. Bytes(v) \subseteq Bytes(u)
  BY <1>2 DEF Bytes
<1> QED BY <1>3, <1>4, <1>5

(* A strictly increasing sequence has as many bytes of the reader as it    *)
(* has elements behind the caller's.                                       *)
LEMMA CountBytes ==
  ASSUME NEW s \in Seq(Nat), NEW p \in 0 .. Len(s), Ordered(s),
         \A i \in DOMAIN s : s[i] = CallersByte <=> i <= p
  PROVE  Cardinality(Bytes(s)) = Len(s) - p
<1> DEFINE n == Len(s) - p
           f == [i \in 1 .. n |-> s[p + i]]
<1>1. Len(s) \in Nat /\ p \in Nat /\ n \in Nat /\ DOMAIN s = 1 .. Len(s)
  OBVIOUS
<1>2. \A i \in 1 .. n : p + i \in DOMAIN s /\ f[i] = s[p + i] /\ ~(p + i <= p)
  BY <1>1
<1>3. f \in [1 .. n -> Bytes(s)]
  <2>1. \A i \in 1 .. n : s[p + i] \in Bytes(s)
    BY <1>2 DEF Bytes
  <2> QED BY <2>1
<1>4. \A i, j \in 1 .. n : i # j => f[i] # f[j]
  <2> SUFFICES ASSUME NEW i \in 1 .. n, NEW j \in 1 .. n, i # j
               PROVE  f[i] # f[j]
    OBVIOUS
  <2> DEFINE a == p + i
             c == p + j
  <2>0. a \in DOMAIN s /\ c \in DOMAIN s /\ f[i] = s[a] /\ f[j] = s[c]
    BY <1>2
  <2>1. a \in Nat /\ c \in Nat /\ (a < c \/ c < a)
    BY <1>1
  <2> HIDE DEF a, c, f
  <2>2. s[a] \in Nat /\ s[c] \in Nat
    BY <2>0
  <2>3. s[a] < s[c] \/ s[c] < s[a]
    BY <2>0, <2>1 DEF Ordered
  <2> QED BY <2>0, <2>2, <2>3
<1>5. \A b \in Bytes(s) : \E i \in 1 .. n : f[i] = b
  <2> SUFFICES ASSUME NEW b \in Bytes(s) PROVE \E i \in 1 .. n : f[i] = b
    OBVIOUS
  <2>1. PICK j \in DOMAIN s : s[j] = b /\ b # CallersByte
    BY DEF Bytes
  <2>2. ~(j <= p)
    BY <2>1
  <2>3. j - p \in 1 .. n /\ p + (j - p) = j
    BY <2>2, <1>1
  <2> QED BY <2>1, <2>3, <1>2
<1> HIDE DEF f, n
<1>6. f \in Bijection(1 .. n, Bytes(s))
  BY <1>3, <1>4, <1>5, Zenon DEF Bijection, Injection, Surjection, IsInjective
<1>7. ExistsBijection(1 .. n, Bytes(s))
  BY <1>6 DEF ExistsBijection
<1>8. Cardinality(Bytes(s)) = n
  BY <1>1, <1>7, FS_CountingElements
<1> QED BY <1>8 DEF n

-------------------------------------------------------------------------------
(* Who holds what.                                                         *)

(* A step that gives one holder x new bytes of the reader, or bytes of one *)
(* that ends with the step, keeps the holders apart.                       *)
LEMMA OneHolderChanges ==
  ASSUME Separate, NEW x, NEW y,
         taken \in Nat, taken' \in Nat, taken <= taken',
         \A h \in Holdings' : h # x => h \in Holdings /\ h # y /\ Held(h)' = Held(h),
         x \in Holdings' =>
           /\ Ordered(Held(x)')
           /\ UpTo(Held(x)', taken')
           /\ \A b \in Bytes(Held(x)') : b > taken \/ (y \in Holdings /\ b \in Bytes(Held(y)))
  PROVE  Separate'
<1>1. \A h \in Holdings' : UpTo(Held(h)', taken')
  BY DEF Separate, UpTo
<1>2. \A h \in Holdings' : Ordered(Held(h)')
  BY DEF Separate, BytesOnceInOrder, Ordered
<1>3. ASSUME NEW h \in Holdings', h # x, x \in Holdings'
      PROVE  Bytes(Held(x)') \intersect Bytes(Held(h)') = {}
  <2>1. h \in Holdings /\ h # y /\ Held(h)' = Held(h)
    BY <1>3
  <2>2. \A b \in Bytes(Held(h)) : b \in 0 .. taken
    BY <2>1 DEF Separate, UpTo, Bytes
  <2>3. ASSUME NEW b \in Bytes(Held(x)'), b \in Bytes(Held(h)) PROVE FALSE
    <3>1. b \in 0 .. taken
      BY <2>2, <2>3
    <3>2. y \in Holdings /\ b \in Bytes(Held(y))
      BY <3>1, <1>3
    <3>3. Bytes(Held(y)) \intersect Bytes(Held(h)) = {}
      BY <3>2, <2>1 DEF Separate, BytesOnceInOrder
    <3> QED BY <3>2, <3>3, <2>3
  <2>4. Bytes(Held(h)') = Bytes(Held(h))
    BY <2>1
  <2> QED BY <2>3, <2>4
<1>4. \A h1, h2 \in Holdings' :
        h1 # h2 => Bytes(Held(h1)') \intersect Bytes(Held(h2)') = {}
  <2> SUFFICES ASSUME NEW h1 \in Holdings', NEW h2 \in Holdings', h1 # h2
               PROVE  Bytes(Held(h1)') \intersect Bytes(Held(h2)') = {}
    OBVIOUS
  <2>1. CASE h1 = x
    BY <2>1, <1>3
  <2>2. CASE h2 = x
    BY <2>2, <1>3
  <2>3. CASE h1 # x /\ h2 # x
    <3>1. /\ h1 \in Holdings /\ h2 \in Holdings
          /\ Held(h1)' = Held(h1) /\ Held(h2)' = Held(h2)
      BY <2>3
    <3>2. Bytes(Held(h1)) \intersect Bytes(Held(h2)) = {}
      BY <3>1 DEF Separate, BytesOnceInOrder
    <3> QED BY <3>1, <3>2
  <2> QED BY <2>1, <2>2, <2>3
<1> QED BY <1>1, <1>2, <1>4 DEF Separate, BytesOnceInOrder, Ordered, UpTo, Bytes
-------------------------------------------------------------------------------
(* One call, step by step.                                                 *)

(* The numbers of a call, and how its ReadFulls are sized.                 *)
LEMMA Sizes ==
  ASSUME NEW c, WellFormed(c)
  PROVE  /\ BytesPerWord \in Nat /\ BytesPerWord > 0
         /\ c \in CallRecords /\ c.kind \in Kinds
         /\ c.len \in Nat /\ c.chunk \in Nat /\ c.from \in Nat
         /\ c.chunk = (IF c.kind = "fill" THEN BytesPerWord ELSE c.len)
         /\ PrefixLen(c) \in {0, 1} /\ PrefixLen(c) \in Nat
         /\ c.kind # "Sum" => PrefixLen(c) = 0
  BY ReaderAssumption DEF WellFormed, CallRecords, PrefixLen

(* Between two full words the next multiple is the higher of them.         *)
LEMMA RoundUpTo ==
  ASSUME NEW q \in Nat, NEW n \in Nat,
         q * BytesPerWord < n, n <= q * BytesPerWord + BytesPerWord
  PROVE  RoundUp(n) = q * BytesPerWord + BytesPerWord
<1> DEFINE m == q * BytesPerWord
           r == n - m - 1
<1>1. BytesPerWord \in Nat /\ BytesPerWord > 0
  BY ReaderAssumption
<1>2. m \in Nat
  BY <1>1
<1>3. m < n /\ n <= m + BytesPerWord
  OBVIOUS
<1>4. r \in 0 .. BytesPerWord - 1 /\ n + BytesPerWord - 1 = m + BytesPerWord + r
  <2> HIDE DEF m
  <2> QED BY <1>1, <1>2, <1>3
<1>5. (q + 1) * BytesPerWord = m + BytesPerWord
  BY <1>1
<1>6. ((q + 1) * BytesPerWord + r) \div BytesPerWord = q + 1
  <2> HIDE DEF r
  <2> QED BY <1>1, <1>4
<1>7. (n + BytesPerWord - 1) \div BytesPerWord = q + 1
  BY <1>4, <1>5, <1>6
<1> QED BY <1>5, <1>7 DEF RoundUp

(* What one call of the reader yields.                                     *)
LEMMA ServedBytes ==
  ASSUME NEW t \in Nat, NEW k \in Nat, NEW s, s = [i \in 1 .. k |-> t + i]
  PROVE  /\ s \in Seq(Nat) /\ Len(s) = k /\ DOMAIN s = 1 .. k
         /\ \A i \in 1 .. k : s[i] = t + i
         /\ Ordered(s)
<1>1. s \in [1 .. k -> Nat]
  OBVIOUS
<1>2. s \in Seq(Nat) /\ Len(s) = k /\ DOMAIN s = 1 .. k
  BY <1>1
<1>3. \A i \in 1 .. k : s[i] = t + i
  OBVIOUS
<1> QED BY <1>2, <1>3 DEF Ordered

(* The reader's next bytes end up behind those in the buffer.              *)
LEMMA ServeKeepsProgress ==
  ASSUME NEW c, NEW o \in Seq(Nat), NEW b \in Seq(Nat), NEW t \in Nat, NEW k \in Nat,
         Progress(c, o, b), Len(b) + k <= c.chunk, Len(o) < PrefixLen(c) + c.len,
         NEW s, s = [i \in 1 .. k |-> t + i]
  PROVE  /\ b \o s \in Seq(Nat)
         /\ Progress(c, o, b \o s)
         /\ Contiguous(c, o, b, t) => Contiguous(c, o, b \o s, t + k)
<1> DEFINE u == b \o s
<1>1. /\ s \in Seq(Nat) /\ Len(s) = k
      /\ \A i \in 1 .. k : s[i] = t + i
  BY ServedBytes
<1>2. /\ u \in Seq(Nat) /\ Len(u) = Len(b) + k
      /\ \A i \in 1 .. Len(b) + k : u[i] = IF i <= Len(b) THEN b[i] ELSE s[i - Len(b)]
  BY <1>1, ConcatProperties
<1>3. /\ Len(b) \in Nat /\ DOMAIN b = 1 .. Len(b) /\ Len(o) \in Nat
      /\ DOMAIN u = 1 .. Len(b) + k
  <2> HIDE DEF u
  <2> QED BY <1>2
<1> HIDE DEF u
<1>4. \A i \in 1 .. Len(b) : i \in DOMAIN b /\ u[i] = b[i]
  BY <1>2, <1>3
<1>5. \A i \in 1 .. k : u[Len(b) + i] = t + i
  <2> SUFFICES ASSUME NEW i \in 1 .. k PROVE u[Len(b) + i] = t + i
    OBVIOUS
  <2>1. /\ Len(b) + i \in 1 .. Len(b) + k /\ ~(Len(b) + i <= Len(b))
        /\ (Len(b) + i) - Len(b) = i
    BY <1>3
  <2> QED BY <2>1, <1>1, <1>2
<1>6. ASSUME NEW j \in DOMAIN u, ~(j \in 1 .. Len(b))
      PROVE  \E i \in 1 .. k : j = Len(b) + i
  <2> DEFINE lb == Len(b)
  <2>1. lb \in Nat /\ j \in 1 .. lb + k /\ ~(j \in 1 .. lb)
    BY <1>3, <1>6
  <2> HIDE DEF lb
  <2>2. j - lb \in 1 .. k /\ j = lb + (j - lb)
    BY <2>1
  <2>3. \E i \in 1 .. k : j = lb + i
    BY <2>2
  <2> QED BY <2>3 DEF lb
<1>7. Progress(c, o, u)
  <2>1. \A j \in DOMAIN u : u[j] # CallersByte
    <3> SUFFICES ASSUME NEW j \in DOMAIN u PROVE u[j] # CallersByte
      OBVIOUS
    <3>1. CASE j \in 1 .. Len(b)
      BY <3>1, <1>4 DEF Progress
    <3>2. ASSUME NEW i \in 1 .. k, j = Len(b) + i PROVE u[j] # CallersByte
      <4>1. u[j] = t + i
        BY <3>2, <1>5
      <4> QED BY <4>1 DEF CallersByte
    <3> QED BY <3>1, <3>2, <1>6
  <2> QED BY <2>1, <1>2 DEF Progress
<1>8. ASSUME Contiguous(c, o, b, t) PROVE Contiguous(c, o, u, t + k)
  <2> DEFINE a == c.from + Len(o) - PrefixLen(c)
  <2>0. WellFormed(c)
    BY DEF Progress
  <2>1. c.from \in Nat /\ PrefixLen(c) \in Nat /\ c.len \in Nat /\ a \in Int
    BY <2>0, <1>3, Sizes
  <2>2. t = a + Len(b) /\ \A i \in DOMAIN b : b[i] = a + i
    BY <1>8 DEF Contiguous
  <2> HIDE DEF a
  <2>3. t + k = a + Len(u)
    BY <2>1, <2>2, <1>2, <1>3
  <2>4. \A j \in DOMAIN u : u[j] = a + j
    <3> SUFFICES ASSUME NEW j \in DOMAIN u PROVE u[j] = a + j
      OBVIOUS
    <3>1. CASE j \in 1 .. Len(b)
      BY <3>1, <2>2, <1>4
    <3>2. ASSUME NEW i \in 1 .. k, j = Len(b) + i PROVE u[j] = a + j
      <4>1. u[j] = t + i
        BY <3>2, <1>5
      <4> QED BY <4>1, <3>2, <2>1, <2>2, <1>3
    <3> QED BY <3>1, <3>2, <1>6
  <2>5. ~(Len(o) = PrefixLen(c) + c.len)
    BY <2>1, <1>3
  <2> QED BY <2>3, <2>4, <2>5, <1>8 DEF a, Contiguous
<1> QED BY <1>2, <1>7, <1>8 DEF u

Shorter(m, n) == IF m < n THEN m ELSE n

(* The bytes v of the buffer b were added to o.                            *)
Delivered(c, o, b, t, v) ==
  /\ v \in Seq(Nat) /\ Len(v) <= Len(b) /\ \A i \in 1 .. Len(v) : v[i] = b[i]
  /\ o \o v \in Seq(Nat)
  /\ Progress(c, o \o v, <<>>)
  /\ Contiguous(c, o, b, t) => Contiguous(c, o \o v, <<>>, t)

(* Before its last word a slice has only whole words, and every other call *)
(* nothing: the n bytes taken of the word are all of it, or all that is    *)
(* missing.                                                                *)
LEMMA DeliverKeepsProgress ==
  ASSUME NEW c, NEW o \in Seq(Nat), NEW b \in Seq(Nat), NEW t \in Nat, NEW n \in Nat,
         Progress(c, o, b), Len(b) = c.chunk, Len(o) < PrefixLen(c) + c.len,
         NEW left \in Nat, left = c.len + PrefixLen(c) - Len(o),
         n = Shorter(left, c.chunk),
         NEW v, v = SubSeq(b, 1, n)
  PROVE  Delivered(c, o, b, t, v)
<1> DEFINE u == o \o v
           p == PrefixLen(c)
           len == c.len
           chunk == c.chunk
           from == c.from
           lo == Len(o)
<1>0. WellFormed(c)
  BY DEF Progress
<1>1. /\ BytesPerWord \in Nat /\ BytesPerWord > 0
      /\ len \in Nat /\ chunk \in Nat /\ from \in Nat /\ p \in Nat /\ lo \in Nat
      /\ DOMAIN o = 1 .. lo /\ DOMAIN b = 1 .. chunk
      /\ p <= lo /\ lo < p + len
      /\ left = len + p - lo
  BY <1>0, Sizes DEF Progress
<1>2. n <= chunk /\ n <= left /\ (n = chunk \/ n = left)
  <2>1. n = IF left < chunk THEN left ELSE chunk
    BY DEF Shorter
  <2> HIDE DEF chunk
  <2> QED BY <2>1, <1>1
<1>3. v \in Seq(Nat) /\ Len(v) = n /\ \A i \in 1 .. n : v[i] = b[i]
  <2> HIDE DEF chunk
  <2>0. chunk \in Nat /\ DOMAIN b = 1 .. chunk /\ n <= chunk
    BY <1>1, <1>2
  <2>1. \A i \in 1 .. n : b[i] \in Nat
    <3>1. \A i \in 1 .. n : i \in DOMAIN b
      BY ONLY <2>0, n \in Nat
    <3> QED BY <3>1
  <2>2. /\ v \in Seq(Nat)
        /\ Len(v) = IF 1 <= n THEN n - 1 + 1 ELSE 0
        /\ \A i \in 1 .. n - 1 + 1 : v[i] = b[1 + i - 1]
    BY <2>1, SubSeqProperties
  <2>3. n - 1 + 1 = n /\ \A i \in 1 .. n : 1 + i - 1 = i
    OBVIOUS
  <2> QED BY <2>2, <2>3
<1>4. /\ u \in Seq(Nat) /\ Len(u) = lo + n
      /\ \A i \in 1 .. lo + n : u[i] = IF i <= lo THEN o[i] ELSE v[i - lo]
  <2>1. /\ o \o v \in Seq(Nat)
        /\ Len(o \o v) = Len(o) + Len(v)
        /\ \A i \in 1 .. Len(o) + Len(v) :
             (o \o v)[i] = IF i <= Len(o) THEN o[i] ELSE v[i - Len(o)]
    BY <1>3, ConcatProperties
  <2> QED BY <2>1, <1>3
<1>5. DOMAIN u = 1 .. lo + n
  <2> HIDE DEF u
  <2> QED BY <1>4
<1>8. PICK q \in Nat : lo = p + q * chunk
  BY <1>1 DEF Progress
<1>p. /\ \A i \in DOMAIN o : o[i] = CallersByte <=> i <= p
      /\ \A i \in DOMAIN b : b[i] # CallersByte
  BY DEF Progress
<1>k. IF c.kind = "fill" THEN chunk = BytesPerWord ELSE chunk = len
  BY <1>0, Sizes
<1>c. Contiguous(c, o, b, t) =>
        /\ t = from + lo - p + chunk
        /\ \A i \in DOMAIN b : b[i] = from + lo - p + i
        /\ \A i \in DOMAIN o : i > p => o[i] = from + i - p
  BY <1>1 DEF Contiguous
<1> HIDE DEF u, p, len, chunk, from, lo
<1>6. \A i \in 1 .. lo : i \in DOMAIN o /\ u[i] = o[i]
  <2> TAKE i \in 1 .. lo
  <2>1. i \in 1 .. lo + n /\ i <= lo
    BY <1>1
  <2> QED BY <2>1, <1>1, <1>4
<1>7. ASSUME NEW i \in DOMAIN u, ~(i \in 1 .. lo)
      PROVE  i - lo \in DOMAIN b /\ u[i] = b[i - lo] /\ ~(i <= lo)
  <2>0. ~(i <= lo) /\ i \in 1 .. lo + n
    BY <1>1, <1>5, <1>7
  <2>1. i - lo \in 1 .. n
    BY <2>0, <1>1
  <2>2. i - lo \in DOMAIN b
    BY <2>1, <1>1, <1>2
  <2>3. u[i] = v[i - lo]
    BY <2>0, <1>4
  <2> QED BY <2>0, <2>1, <2>2, <2>3, <1>3
<1>9. (q + 1) * chunk = q * chunk + chunk /\ q * chunk \in Nat
  BY <1>1
<1>10. /\ \A i \in DOMAIN u : u[i] = CallersByte <=> i <= p
       /\ Len(u) \in p .. p + len
       /\ Len(u) < p + len => \E r \in Nat : Len(u) = p + r * chunk
  <2>1. \A i \in DOMAIN u : u[i] = CallersByte <=> i <= p
    <3> SUFFICES ASSUME NEW i \in DOMAIN u PROVE u[i] = CallersByte <=> i <= p
      OBVIOUS
    <3>1. CASE i \in 1 .. lo
      BY <3>1, <1>6, <1>p
    <3>2. CASE ~(i \in 1 .. lo)
      <4>1. u[i] # CallersByte /\ ~(i <= lo)
        BY <3>2, <1>7, <1>p
      <4>2. i \in 1 .. lo + n
        BY <1>5
      <4>3. ~(i <= p)
        BY <4>1, <4>2, <1>1
      <4> QED BY <4>1, <4>3
    <3> QED BY <3>1, <3>2
  <2>2. Len(u) \in p .. p + len
    <3>0. /\ lo \in Nat /\ p \in Nat /\ len \in Nat /\ left \in Nat /\ n \in Nat
          /\ p <= lo /\ left = len + p - lo /\ n <= left
      BY <1>1, <1>2
    <3>1. p <= lo + n /\ lo + n <= p + len /\ lo + n \in Nat
      BY ONLY <3>0
    <3>2. Len(u) = lo + n
      BY <1>4
    <3> QED BY <3>1, <3>2, <1>1
  <2>3. ASSUME Len(u) < p + len
        PROVE  \E r \in Nat : Len(u) = p + r * chunk
    <3> DEFINE m == q * chunk
               m1 == (q + 1) * chunk
    <3>1. n = chunk
      BY <2>3, <1>1, <1>2, <1>4
    <3>2. m \in Nat /\ m1 = m + chunk /\ lo = p + m
      BY <1>8, <1>9
    <3>3. Len(u) = p + m1
      <4> HIDE DEF m, m1
      <4> QED BY <3>1, <3>2, <1>1, <1>4
    <3> QED BY <3>3
  <2> QED BY <2>1, <2>2, <2>3
<1>11. ASSUME Contiguous(c, o, b, t)
       PROVE  /\ \A i \in DOMAIN u : i > p => u[i] = from + i - p
              /\ Len(u) = p + len =>
                   t = from + IF c.kind = "fill" THEN RoundUp(len) ELSE len
              /\ Len(u) < p + len => t = from + Len(u) - p + 0
  <2>1. /\ t = from + lo - p + chunk
        /\ \A i \in DOMAIN b : b[i] = from + lo - p + i
        /\ \A i \in DOMAIN o : i > p => o[i] = from + i - p
    BY <1>11, <1>c
  <2>2. \A i \in DOMAIN u : i > p => u[i] = from + i - p
    <3> SUFFICES ASSUME NEW i \in DOMAIN u, i > p PROVE u[i] = from + i - p
      OBVIOUS
    <3>1. CASE i \in 1 .. lo
      BY <3>1, <2>1, <1>6
    <3>2. CASE ~(i \in 1 .. lo)
      <4>1. u[i] = from + lo - p + (i - lo)
        BY <3>2, <2>1, <1>7
      <4>2. i \in 1 .. lo + n
        BY <1>5
      <4> QED BY <4>1, <4>2, <1>1
    <3> QED BY <3>1, <3>2
  <2>3. ASSUME Len(u) = p + len
        PROVE  t = from + IF c.kind = "fill" THEN RoundUp(len) ELSE len
    <3> DEFINE m == q * chunk
    <3>1. m \in Nat /\ lo = p + m
      BY <1>8, <1>9
    <3>2. m < len /\ len <= m + chunk /\ t = from + (m + chunk)
      <4> HIDE DEF m
      <4> QED BY <3>1, <2>1, <2>3, <1>1, <1>2, <1>4
    <3>3. CASE c.kind = "fill"
      <4>1. chunk = BytesPerWord
        BY <3>3, <1>k
      <4>2. RoundUp(len) = m + chunk
        BY <4>1, <3>1, <3>2, <1>1, RoundUpTo
      <4> QED BY <4>2, <3>2, <3>3
    <3>4. CASE c.kind # "fill"
      <4>1. chunk = len
        BY <3>4, <1>k
      <4>2. m = 0
        <5>1. CASE q = 0
          BY <5>1, <1>1
        <5>2. CASE q # 0
          <6>1. PICK j \in Nat : q = j + 1
            <7>1. q - 1 \in Nat /\ q = (q - 1) + 1
              BY <5>2
            <7> QED BY <7>1
          <6>2. m = j * chunk + chunk /\ j * chunk \in Nat
            BY <6>1, <1>1
          <6> DEFINE w == j * chunk
          <6>3. m = w + chunk /\ w \in Nat
            BY <6>2
          <6> HIDE DEF w, m
          <6> QED BY <6>3, <4>1, <3>2, <1>1
        <5> QED BY <5>1, <5>2
      <4> HIDE DEF m
      <4> QED BY <4>1, <4>2, <3>2, <3>4, <1>1
    <3> QED BY <3>3, <3>4
  <2>4. ASSUME Len(u) < p + len PROVE t = from + Len(u) - p + 0
    <3>1. n = chunk
      BY <2>4, <1>1, <1>2, <1>4
    <3> QED BY <3>1, <2>1, <1>1, <1>4
  <2> QED BY <2>2, <2>3, <2>4
<1>12. Len(<<>>) = 0 /\ DOMAIN <<>> = {}
  OBVIOUS
<1>13. Progress(c, u, <<>>)
  <2>1. 0 <= chunk
    BY <1>1
  <2> QED BY <2>1, <1>0, <1>10, <1>12 DEF Progress, p, len, chunk
<1>14. Contiguous(c, o, b, t) => Contiguous(c, u, <<>>, t)
  BY <1>11, <1>12 DEF Contiguous, UsedUp, p, len, from
<1>15. n <= Len(b)
  BY <1>2 DEF chunk
<1> QED BY <1>3, <1>4, <1>13, <1>14, <1>15 DEF u, Delivered
-------------------------------------------------------------------------------
(* How calls end.                                                          *)

(* A call that returns has all its bytes, in one stretch if it was alone.  *)
LEMMA ReturnIsWhole ==
  ASSUME NEW c, NEW o \in Seq(Nat), NEW b \in Seq(Nat), NEW t \in Nat,
         Progress(c, o, b), Ordered(o), Len(o) = PrefixLen(c) + c.len,
         c.alone => Contiguous(c, o, b, t),
         NEW r, r = [call |-> c, bytes |-> o, err |-> "nil", upto |-> t]
  PROVE  r \in ResultRecords /\ WholeResult(r) /\ ContiguousResult(r)
<1> DEFINE p == PrefixLen(c)
           len == c.len
<1>1. /\ WellFormed(c) /\ c \in CallRecords /\ c.from \in Nat
      /\ len \in Nat /\ p \in Nat
  BY Sizes DEF Progress
<1>2. r \in ResultRecords
  BY <1>1 DEF ResultRecords, Errors
<1>3. r.call = c /\ r.bytes = o /\ r.err = "nil" /\ r.upto = t
  OBVIOUS
<1>4. Len(o) \in Nat /\ Len(o) = p + len /\ DOMAIN o = 1 .. p + len
  OBVIOUS
<1>5. \A i \in DOMAIN o : o[i] = CallersByte <=> i <= p
  BY DEF Progress
<1>6. Cardinality(Bytes(o)) = len
  <2> HIDE DEF p, len
  <2>1. p \in 0 .. Len(o)
    BY <1>1, <1>4
  <2>2. Cardinality(Bytes(o)) = Len(o) - p
    BY <2>1, <1>5, CountBytes
  <2>3. Len(o) - p = len
    <3> DEFINE lo == Len(o)
    <3>1. lo = p + len
      BY <1>4
    <3> HIDE DEF lo
    <3>2. lo - p = len
      BY <3>1, <1>1
    <3> QED BY <3>2 DEF lo
  <2> QED BY <2>2, <2>3
<1>7. WholeResult(r)
  BY <1>3, <1>6 DEF WholeResult
<1>8. ASSUME c.alone PROVE ContiguousResult(r)
  <2>1. /\ \A i \in DOMAIN o : i > p => o[i] = c.from + i - p
        /\ t = c.from + UsedUp(c)
    BY <1>8 DEF Contiguous
  <2>2. ASSUME NEW x \in Bytes(o) PROVE x \in c.from + 1 .. c.from + len
    <3>1. PICK i \in DOMAIN o : o[i] = x /\ x # CallersByte
      BY <2>2 DEF Bytes
    <3> DEFINE from == c.from
    <3>2. x = from + i - p /\ ~(i <= p) /\ i \in 1 .. p + len /\ from \in Nat
      <4>1. ~(i <= p)
        BY <3>1, <1>5
      <4>2. i > p
        BY <4>1, <1>1, <1>4
      <4> QED BY <3>1, <4>1, <4>2, <2>1, <1>1, <1>4
    <3> HIDE DEF from, p, len
    <3>3. x \in from + 1 .. from + len
      <4>1. /\ from \in Nat /\ p \in Nat /\ len \in Nat
            /\ i \in Int /\ ~(i <= p) /\ i <= p + len /\ x = from + i - p
        BY <3>2, <1>1
      <4>2. x \in Int /\ x >= from + 1 /\ x <= from + len
        BY ONLY <4>1
      <4> QED BY ONLY <4>1, <4>2
    <3> QED BY <3>3 DEF from
  <2> QED BY <2>1, <2>2, <1>3 DEF ContiguousResult
<1>9. ~c.alone => ContiguousResult(r)
  BY <1>3 DEF ContiguousResult
<1> QED BY <1>2, <1>7, <1>8, <1>9

(* Whole words leave no rest.                                              *)
LEMMA WholeWords ==
  ASSUME NEW q \in Nat
  PROVE  (q * BytesPerWord) % BytesPerWord = 0
  BY ReaderAssumption

(* A call that panics leaves only whole words in a slice, and no word.     *)
LEMMA PanicKeepsWords ==
  ASSUME NEW c, NEW o \in Seq(Nat), NEW b \in Seq(Nat), NEW t \in Nat,
         Progress(c, o, b), Ordered(o), Len(o) < PrefixLen(c) + c.len,
         c.kind # "Read",
         NEW r, r = [call |-> c, bytes |-> o, err |-> "panic", upto |-> t]
  PROVE  r \in ResultRecords /\ WholeResult(r) /\ ContiguousResult(r)
<1> DEFINE p == PrefixLen(c)
           len == c.len
           chunk == c.chunk
           lo == Len(o)
<1>1. /\ WellFormed(c) /\ c \in CallRecords
      /\ len \in Nat /\ p \in Nat /\ chunk \in Nat /\ lo \in Nat
      /\ BytesPerWord \in Nat /\ BytesPerWord > 0
      /\ IF c.kind = "fill" THEN chunk = BytesPerWord ELSE chunk = len
  BY Sizes DEF Progress
<1>2. r \in ResultRecords
  BY <1>1 DEF ResultRecords, Errors
<1>3. r.call = c /\ r.bytes = o /\ r.err = "panic" /\ r.upto = t
  OBVIOUS
<1>4. /\ \A i \in DOMAIN o : o[i] = CallersByte <=> i <= p
      /\ p <= lo /\ lo < p + len
  BY <1>1 DEF Progress
<1>5. PICK q \in Nat : lo = p + q * chunk
  BY DEF Progress
<1>6. Cardinality(Bytes(o)) = lo - p
  <2>1. p \in 0 .. Len(o)
    BY <1>1, <1>4
  <2> HIDE DEF p
  <2> QED BY <2>1, <1>4, CountBytes
<1> DEFINE m == q * chunk
<1>7. m \in Nat /\ lo = p + m
  BY <1>1, <1>5
<1>8. lo - p = m /\ m < len
  <2> HIDE DEF m, p, lo, len
  <2> QED BY <1>1, <1>4, <1>7
<1>9. m % BytesPerWord = 0
  <2>1. CASE c.kind = "fill"
    <3>1. m = q * BytesPerWord
      BY <2>1, <1>1
    <3> HIDE DEF m
    <3> QED BY <3>1, WholeWords
  <2>2. CASE c.kind # "fill"
    <3>1. chunk = len
      BY <2>2, <1>1
    <3>2. m = 0
      <4>1. CASE q = 0
        BY <4>1, <1>1
      <4>2. CASE q # 0
        <5>1. PICK j \in Nat : q = j + 1
          <6>1. q - 1 \in Nat /\ q = (q - 1) + 1
            BY <4>2
          <6> QED BY <6>1
        <5> DEFINE w == j * chunk
        <5> HIDE DEF chunk
        <5>2. m = w + chunk /\ w \in Nat
          BY <5>1, <1>1
        <5> HIDE DEF w, m, len
        <5> QED BY <5>2, <3>1, <1>1, <1>8
      <4> QED BY <4>1, <4>2
    <3> HIDE DEF m
    <3> QED BY <3>2, <1>1
  <2> QED BY <2>1, <2>2
<1>10. WholeResult(r)
  <2> HIDE DEF m
  <2> QED BY <1>3, <1>6, <1>8, <1>9 DEF WholeResult
<1>11. ContiguousResult(r)
  BY <1>3 DEF ContiguousResult
<1> QED BY <1>2, <1>10, <1>11

(* A Read with an error is short; EOF means that it has nothing at all,    *)
(* ErrUnexpectedEOF that it has something.                                 *)
LEMMA ReadErrorIsShort ==
  ASSUME NEW c, NEW o \in Seq(Nat), NEW b \in Seq(Nat), NEW t \in Nat,
         Progress(c, o, b), Ordered(b), Len(b) < c.chunk, c.kind = "Read",
         NEW e \in {"EOF", "failure", "ErrUnexpectedEOF"},
         e = "EOF" => b = <<>>, e = "ErrUnexpectedEOF" => b # <<>>,
         NEW r, r = [call |-> c, bytes |-> b, err |-> e, upto |-> t]
  PROVE  r \in ResultRecords /\ WholeResult(r) /\ ContiguousResult(r)
<1>1. WellFormed(c) /\ c \in CallRecords /\ c.chunk = c.len /\ c.len \in Nat
  BY Sizes DEF Progress
<1>2. r \in ResultRecords
  BY <1>1 DEF ResultRecords, Errors
<1>3. r.call = c /\ r.bytes = b /\ r.err = e /\ r.upto = t
  OBVIOUS
<1>4. Cardinality(Bytes(b)) = Len(b)
  <2>1. Len(b) \in Nat /\ 0 \in 0 .. Len(b) /\ DOMAIN b = 1 .. Len(b)
    BY ONLY b \in Seq(Nat)
  <2>2. \A i \in DOMAIN b : b[i] # CallersByte
    BY DEF Progress
  <2>3. \A i \in DOMAIN b : b[i] = CallersByte <=> i <= 0
    BY ONLY <2>1, <2>2
  <2>4. Cardinality(Bytes(b)) = Len(b) - 0
    BY ONLY b \in Seq(Nat), Ordered(b), <2>1, <2>3, CountBytes
  <2> QED BY ONLY <2>1, <2>4
<1>5. (b = <<>> => Len(b) = 0) /\ (b # <<>> => Len(b) > 0)
  BY ONLY b \in Seq(Nat), EmptySeq
<1>6. WholeResult(r)
  <2>1. e \notin {"nil", "panic"}
    OBVIOUS
  <2> QED BY <2>1, <1>1, <1>3, <1>4, <1>5 DEF WholeResult
<1>7. ContiguousResult(r)
  <2>1. e # "nil"
    OBVIOUS
  <2> QED BY <2>1, <1>3 DEF ContiguousResult
<1> QED BY <1>2, <1>6, <1>7
-------------------------------------------------------------------------------
(* What a step makes of the bytes a call holds.                            *)

(* Concatenation is associative.                                           *)
LEMMA ConcatNat ==
  \A s, t, u \in Seq(Nat) : (s \o t) \o u = s \o (t \o u)
<1> SUFFICES ASSUME NEW s \in Seq(Nat), NEW t \in Seq(Nat), NEW u \in Seq(Nat)
             PROVE  (s \o t) \o u = s \o (t \o u)
  OBVIOUS
<1> QED BY ConcatAssociative, SMTT(30)

(* It grows by what the reader serves ...                                  *)
LEMMA ServeExtends ==
  ASSUME NEW u \in Seq(Nat), NEW t \in Nat, NEW k \in Nat, Ordered(u), UpTo(u, t),
         NEW s, s = [i \in 1 .. k |-> t + i]
  PROVE  /\ Ordered(u \o s) /\ UpTo(u \o s, t + k)
         /\ \A x \in Bytes(u \o s) : x > t \/ x \in Bytes(u)
<1>1. /\ s \in Seq(Nat) /\ Ordered(s) /\ DOMAIN s = 1 .. k
      /\ \A i \in 1 .. k : s[i] = t + i
  BY ServedBytes
<1>2. \A i \in DOMAIN u : u[i] \in 0 .. t
  BY DEF UpTo
<1>3. \A i \in DOMAIN u, j \in DOMAIN s : u[i] < s[j]
  BY <1>1, <1>2
<1> DEFINE w == u \o s
<1>4. /\ Ordered(w)
      /\ \A i \in DOMAIN w : (\E j \in DOMAIN u : w[i] = u[j]) \/ (\E j \in DOMAIN s : w[i] = s[j])
  BY <1>1, <1>3, JoinOrdered
<1> HIDE DEF w
<1>5. UpTo(w, t + k)
  <2> SUFFICES ASSUME NEW i \in DOMAIN w PROVE w[i] \in 0 .. t + k
    BY DEF UpTo
  <2>1. ASSUME NEW j \in DOMAIN u, w[i] = u[j] PROVE w[i] \in 0 .. t + k
    BY <2>1, <1>2
  <2>2. ASSUME NEW j \in DOMAIN s, w[i] = s[j] PROVE w[i] \in 0 .. t + k
    BY <2>2, <1>1
  <2> QED BY <2>1, <2>2, <1>4
<1>6. \A x \in Bytes(w) : x > t \/ x \in Bytes(u)
  <2> SUFFICES ASSUME NEW x \in Bytes(w) PROVE x > t \/ x \in Bytes(u)
    OBVIOUS
  <2>1. PICK i \in DOMAIN w : w[i] = x /\ x # CallersByte
    BY DEF Bytes
  <2>2. ASSUME NEW j \in DOMAIN u, w[i] = u[j] PROVE x \in Bytes(u)
    BY <2>1, <2>2 DEF Bytes
  <2>3. ASSUME NEW j \in DOMAIN s, w[i] = s[j] PROVE x > t
    BY <2>1, <2>3, <1>1
  <2> QED BY <2>2, <2>3, <1>4
<1> QED BY <1>4, <1>5, <1>6 DEF w

(* ... and shrinks to a part when a word is delivered or the call ends.    *)
LEMMA PartsOfHeld ==
  ASSUME NEW o \in Seq(Nat), NEW b \in Seq(Nat), NEW t \in Nat,
         Ordered(o \o b), UpTo(o \o b, t)
  PROVE  /\ Ordered(o) /\ UpTo(o, t) /\ Bytes(o) \subseteq Bytes(o \o b)
         /\ Ordered(b) /\ UpTo(b, t) /\ Bytes(b) \subseteq Bytes(o \o b)
         /\ \A v \in Seq(Nat) :
              Len(v) <= Len(b) /\ (\A i \in 1 .. Len(v) : v[i] = b[i]) =>
                /\ Ordered(o \o v) /\ UpTo(o \o v, t)
                /\ Bytes(o \o v) \subseteq Bytes(o \o b)
<1> DEFINE u == o \o b
           lo == Len(o)
           lb == Len(b)
<1>1. /\ u \in Seq(Nat) /\ Len(u) = lo + lb /\ lo \in Nat /\ lb \in Nat
      /\ \A i \in 1 .. lo + lb : u[i] = IF i <= lo THEN o[i] ELSE b[i - lo]
  BY ConcatProperties, LenProperties
<1>2. Ordered(u) /\ UpTo(u, t)
  OBVIOUS
<1> HIDE DEF u
<1>3. Ordered(o) /\ UpTo(o, t) /\ Bytes(o) \subseteq Bytes(u)
  <2>1. 0 \in Nat /\ 0 + Len(o) <= Len(u)
    BY <1>1
  <2>2. \A i \in 1 .. Len(o) : o[i] = u[0 + i]
    <3> SUFFICES ASSUME NEW i \in 1 .. lo PROVE o[i] = u[0 + i]
      OBVIOUS
    <3> HIDE DEF lo, lb
    <3>1. 0 + i = i /\ i \in 1 .. lo + lb /\ i <= lo
      BY <1>1
    <3> QED BY <3>1, <1>1
  <2> QED BY <2>1, <2>2, <1>1, <1>2, PartOrdered
<1>4. Ordered(b) /\ UpTo(b, t) /\ Bytes(b) \subseteq Bytes(u)
  <2>1. lo \in Nat /\ lo + Len(b) <= Len(u)
    BY <1>1
  <2>2. \A i \in 1 .. Len(b) : b[i] = u[lo + i]
    <3> SUFFICES ASSUME NEW i \in 1 .. lb PROVE b[i] = u[lo + i]
      OBVIOUS
    <3> HIDE DEF lo, lb
    <3>1. lo + i \in 1 .. lo + lb /\ ~(lo + i <= lo) /\ (lo + i) - lo = i
      BY <1>1
    <3> QED BY <3>1, <1>1
  <2> HIDE DEF lo
  <2> QED BY <2>1, <2>2, <1>1, <1>2, PartOrdered
<1>5. ASSUME NEW v \in Seq(Nat), Len(v) <= Len(b),
             \A i \in 1 .. Len(v) : v[i] = b[i]
      PROVE  Ordered(o \o v) /\ UpTo(o \o v, t) /\ Bytes(o \o v) \subseteq Bytes(u)
  <2> DEFINE w == o \o v
             lv == Len(v)
  <2>1. /\ w \in Seq(Nat) /\ Len(w) = lo + lv /\ lv \in Nat /\ lv <= lb
        /\ \A i \in 1 .. lo + lv : w[i] = IF i <= lo THEN o[i] ELSE v[i - lo]
    BY <1>5, ConcatProperties, LenProperties
  <2>2. \A i \in 1 .. lv : v[i] = b[i]
    BY <1>5
  <2> HIDE DEF w, lo, lb, lv
  <2>3. \A i \in 1 .. lo + lv : w[i] = u[i]
    <3> SUFFICES ASSUME NEW i \in 1 .. lo + lv PROVE w[i] = u[i]
      OBVIOUS
    <3>1. i \in 1 .. lo + lb
      BY <1>1, <2>1
    <3>2. CASE i <= lo
      BY <3>1, <3>2, <1>1, <2>1
    <3>3. CASE ~(i <= lo)
      <4>1. i - lo \in 1 .. lv
        BY <3>3, <1>1, <2>1
      <4> QED BY <4>1, <3>1, <3>3, <1>1, <2>1, <2>2
    <3> QED BY <3>2, <3>3
  <2>4. 0 \in Nat /\ 0 + Len(w) <= Len(u) /\ \A i \in 1 .. Len(w) : w[i] = u[0 + i]
    <3>1. \A i \in 1 .. lo + lv : 0 + i = i
      OBVIOUS
    <3> QED BY <3>1, <1>1, <2>1, <2>3
  <2>5. Ordered(w) /\ UpTo(w, t) /\ Bytes(w) \subseteq Bytes(u)
    BY <2>1, <2>4, <1>1, <1>2, PartOrdered
  <2> QED BY <2>5 DEF w
<1> QED BY <1>3, <1>4, <1>5 DEF u

(* The holders, before a step and after it, and what they hold.            *)
LEMMA HeldFacts ==
  /\ \A h \in Holdings : \/ \E i \in DOMAIN results : h = <<"ended", i>>
                         \/ \E g \in Active : h = <<"active", g>>
  /\ \A h \in Holdings' : \/ \E i \in DOMAIN results' : h = <<"ended", i>>
                          \/ \E g \in Active' : h = <<"active", g>>
  /\ \A i : /\ <<"ended", i>> \in Holdings <=> i \in DOMAIN results
            /\ <<"ended", i>> \in Holdings' <=> i \in DOMAIN results'
            /\ Held(<<"ended", i>>) = results[i].bytes
            /\ Held(<<"ended", i>>)' = results'[i].bytes
  /\ \A g : /\ <<"active", g>> \in Holdings <=> g \in Active
            /\ <<"active", g>> \in Holdings' <=> g \in Active'
            /\ Held(<<"active", g>>) = out[g] \o buf[g]
            /\ Held(<<"active", g>>)' = out'[g] \o buf'[g]
  /\ \A i, g : <<"ended", i>> # <<"active", g>>
<1>1. /\ \A h \in Holdings : \/ \E i \in DOMAIN results : h = <<"ended", i>>
                             \/ \E g \in Active : h = <<"active", g>>
      /\ \A h \in Holdings' : \/ \E i \in DOMAIN results' : h = <<"ended", i>>
                              \/ \E g \in Active' : h = <<"active", g>>
  BY DEF Holdings
<1>2. \A i, g : <<"ended", i>> # <<"active", g>>
  OBVIOUS
<1>3. \A i : /\ <<"ended", i>> \in Holdings <=> i \in DOMAIN results
             /\ <<"ended", i>> \in Holdings' <=> i \in DOMAIN results'
  BY <1>2 DEF Holdings
<1>4. \A i : /\ Held(<<"ended", i>>) = results[i].bytes
             /\ Held(<<"ended", i>>)' = results'[i].bytes
  BY DEF Held
<1>5. \A g : /\ <<"active", g>> \in Holdings <=> g \in Active
             /\ <<"active", g>> \in Holdings' <=> g \in Active'
  BY <1>2 DEF Holdings
<1>6. \A g : /\ Held(<<"active", g>>) = out[g] \o buf[g]
             /\ Held(<<"active", g>>)' = out'[g] \o buf'[g]
  BY DEF Held
<1> QED BY <1>1, <1>2, <1>3, <1>4, <1>5, <1>6
-------------------------------------------------------------------------------
(* The steps.                                                              *)

(* What the invariant says of a call in progress.                          *)
LEMMA CallFacts ==
  ASSUME ReaderInv, NEW g \in Active
  PROVE  /\ g \in Goroutines /\ call[g] # NoCall
         /\ taken \in Nat /\ out[g] \in Seq(Nat) /\ buf[g] \in Seq(Nat) /\ err[g] \in Errors
         /\ call[g] \in CallRecords
         /\ Progress(call[g], out[g], buf[g])
         /\ call[g].alone => Contiguous(call[g], out[g], buf[g], taken)
         /\ Left(g) = call[g].len + PrefixLen(call[g]) - Len(out[g])
         /\ Left(g) \in Nat
         /\ Left(g) > 0 <=> Len(out[g]) < PrefixLen(call[g]) + call[g].len
         /\ Left(g) = 0 <=> Len(out[g]) = PrefixLen(call[g]) + call[g].len
         /\ Ordered(out[g] \o buf[g]) /\ UpTo(out[g] \o buf[g], taken)
<1>1. /\ g \in Goroutines /\ call[g] # NoCall
      /\ taken \in Nat /\ out[g] \in Seq(Nat) /\ buf[g] \in Seq(Nat) /\ err[g] \in Errors
      /\ call[g] \in CallRecords
      /\ Progress(call[g], out[g], buf[g])
      /\ call[g].alone => Contiguous(call[g], out[g], buf[g], taken)
  BY DEF ReaderInv, Types, Active
<1>2. Left(g) = call[g].len + PrefixLen(call[g]) - Len(out[g])
  <2>1. Len(Prefix(g)) = PrefixLen(call[g])
    BY DEF Prefix, PrefixLen
  <2> QED BY <2>1 DEF Left
<1>3. /\ Left(g) \in Nat
      /\ Left(g) > 0 <=> Len(out[g]) < PrefixLen(call[g]) + call[g].len
      /\ Left(g) = 0 <=> Len(out[g]) = PrefixLen(call[g]) + call[g].len
  <2> DEFINE p == PrefixLen(call[g])
             n == call[g].len
             lo == Len(out[g])
  <2>1. p \in Nat /\ n \in Nat /\ lo \in p .. p + n /\ Left(g) = n + p - lo
    <3>1. WellFormed(call[g])
      BY <1>1 DEF Progress
    <3> QED BY <3>1, <1>1, <1>2, Sizes DEF Progress
  <2> HIDE DEF p, n, lo
  <2>2. Left(g) \in Nat /\ (Left(g) > 0 <=> lo < p + n) /\ (Left(g) = 0 <=> lo = p + n)
    BY <2>1
  <2> QED BY <2>2 DEF p, n, lo
<1>4. Ordered(out[g] \o buf[g]) /\ UpTo(out[g] \o buf[g], taken)
  <2>1. <<"active", g>> \in Holdings /\ Held(<<"active", g>>) = out[g] \o buf[g]
    BY HeldFacts
  <2>2. Separate
    BY DEF ReaderInv
  <2> QED BY <2>1, <2>2 DEF Separate, BytesOnceInOrder, Ordered
<1> QED BY <1>1, <1>2, <1>3, <1>4

(* A step of g within its call keeps what all others have.                 *)
LEMMA WithinCall ==
  ASSUME ReaderInv, NEW g \in Active, UNCHANGED <<call, results>>,
         NEW o \in Seq(Nat), NEW b \in Seq(Nat), NEW e \in Errors,
         out' = [out EXCEPT ![g] = o],
         buf' = [buf EXCEPT ![g] = b],
         err' = [err EXCEPT ![g] = e],
         taken' \in Nat, taken <= taken',
         Progress(call[g], o, b),
         Contiguous(call[g], out[g], buf[g], taken) => Contiguous(call[g], o, b, taken'),
         Ordered(o \o b), UpTo(o \o b, taken'),
         \A x \in Bytes(o \o b) : x > taken \/ x \in Bytes(out[g] \o buf[g])
  PROVE  ReaderInv'
<1>1. /\ g \in Goroutines /\ taken \in Nat
      /\ call[g].alone => Contiguous(call[g], out[g], buf[g], taken)
  BY CallFacts
<1>2. Active' = Active /\ call' = call /\ results' = results
  BY DEF Active
<1>3. /\ out'[g] = o /\ buf'[g] = b /\ err'[g] = e
      /\ \A h \in Goroutines : h # g =>
           out'[h] = out[h] /\ buf'[h] = buf[h] /\ err'[h] = err[h]
  BY <1>1 DEF ReaderInv, Types
<1>4. Types'
  BY <1>1, <1>2 DEF ReaderInv, Types
<1>5. Separate'
  <2> DEFINE x == <<"active", g>>
  <2>1. x \in Holdings /\ x \in Holdings' /\ Held(x) = out[g] \o buf[g] /\ Held(x)' = o \o b
    BY <1>2, <1>3, HeldFacts
  <2>2. ASSUME NEW h \in Holdings', h # x
        PROVE  h \in Holdings /\ h # x /\ Held(h)' = Held(h)
    <3>1. ASSUME NEW i \in DOMAIN results', h = <<"ended", i>>
          PROVE  h \in Holdings /\ Held(h)' = Held(h)
      BY <3>1, <1>2, HeldFacts
    <3>2. ASSUME NEW f \in Active', h = <<"active", f>>
          PROVE  h \in Holdings /\ Held(h)' = Held(h)
      <4>1. f # g /\ f \in Active /\ f \in Goroutines
        BY <2>2, <3>2, <1>2 DEF Active
      <4>2. out'[f] = out[f] /\ buf'[f] = buf[f]
        BY <4>1, <1>3
      <4>3. /\ <<"active", f>> \in Holdings
            /\ Held(<<"active", f>>) = out[f] \o buf[f]
            /\ Held(<<"active", f>>)' = out'[f] \o buf'[f]
        BY <4>1, HeldFacts
      <4>4. Held(<<"active", f>>)' = Held(<<"active", f>>)
        BY <4>2, <4>3
      <4> QED BY <3>2, <4>3, <4>4
    <3> QED BY <2>2, <3>1, <3>2, HeldFacts
  <2>3. Separate
    BY DEF ReaderInv
  <2> HIDE DEF x
  <2>4. /\ Ordered(Held(x)') /\ UpTo(Held(x)', taken')
        /\ \A y \in Bytes(Held(x)') : y > taken \/ (x \in Holdings /\ y \in Bytes(Held(x)))
    BY <2>1
  <2> QED BY <1>1, <2>2, <2>3, <2>4, OneHolderChanges
<1>6. \A h \in Goroutines \ Active' : buf'[h] = <<>> /\ err'[h] = "nil" /\ out'[h] = <<>>
  <2> SUFFICES ASSUME NEW h \in Goroutines \ Active
               PROVE  buf'[h] = <<>> /\ err'[h] = "nil" /\ out'[h] = <<>>
    BY <1>2
  <2>1. h # g
    OBVIOUS
  <2> QED BY <2>1, <1>3 DEF ReaderInv
<1>7. ASSUME NEW h \in Active'
      PROVE  Progress(call'[h], out'[h], buf'[h])
  <2>1. h \in Active /\ h \in Goroutines
    BY <1>2 DEF Active
  <2>2. CASE h = g
    BY <2>2, <1>2, <1>3
  <2>3. CASE h # g
    BY <2>1, <2>3, <1>2, <1>3 DEF ReaderInv
  <2> QED BY <2>2, <2>3
<1>8. ASSUME NEW h \in Active', call'[h].alone
      PROVE  Active' = {h} /\ Contiguous(call'[h], out'[h], buf'[h], taken')
  <2>1. Active = {h} /\ h = g
    BY <1>2, <1>8 DEF ReaderInv
  <2>2. Contiguous(call[g], o, b, taken')
    BY <2>1, <1>1, <1>2, <1>8
  <2> QED BY <2>1, <2>2, <1>2, <1>3
<1>9. \A i \in DOMAIN results' : WholeResult(results'[i]) /\ ContiguousResult(results'[i])
  BY <1>2 DEF ReaderInv
<1> QED BY <1>4, <1>5, <1>6, <1>7, <1>8, <1>9 DEF ReaderInv

(* The reader serves some bytes, and perhaps an error.                     *)
LEMMA ServeKeeps ==
  ASSUME ReaderInv, NEW g \in Goroutines, NEW k, NEW e \in Errors, Serve(g, k, e)
  PROVE  ReaderInv'
<1> DEFINE s == [i \in 1 .. k |-> taken + i]
           c == call[g]
           b == buf[g] \o s
<1>1. /\ g \in Active /\ Left(g) > 0
      /\ k \in 0 .. c.chunk - Len(buf[g])
      /\ taken' = taken + k
      /\ buf' = [buf EXCEPT ![g] = b]
      /\ err' = [err EXCEPT ![g] = e]
      /\ UNCHANGED <<call, out, results>>
  BY DEF Serve, Reading
<1>2. /\ taken \in Nat /\ out[g] \in Seq(Nat) /\ buf[g] \in Seq(Nat)
      /\ Progress(c, out[g], buf[g])
      /\ Len(out[g]) < PrefixLen(c) + c.len
      /\ Ordered(out[g] \o buf[g]) /\ UpTo(out[g] \o buf[g], taken)
  BY <1>1, CallFacts
<1>3. k \in Nat /\ Len(buf[g]) + k <= c.chunk
  <2>1. c.chunk \in Nat /\ Len(buf[g]) \in Nat
    <3>1. WellFormed(c)
      BY <1>2 DEF Progress
    <3> QED BY <3>1, <1>2, Sizes
  <2> HIDE DEF c
  <2> QED BY <2>1, <1>1
<1> HIDE DEF c, s
<1>4. /\ b \in Seq(Nat) /\ Progress(c, out[g], b)
      /\ Contiguous(c, out[g], buf[g], taken) => Contiguous(c, out[g], b, taken + k)
  BY <1>2, <1>3, ServeKeepsProgress DEF s
<1>5. out[g] \o b = (out[g] \o buf[g]) \o s
  <2>1. s \in Seq(Nat)
    BY <1>2, <1>3, ServedBytes DEF s
  <2> DEFINE og == out[g]
             bg == buf[g]
  <2>2. og \in Seq(Nat) /\ bg \in Seq(Nat)
    BY <1>2
  <2> HIDE DEF og, bg
  <2>3. (og \o bg) \o s = og \o (bg \o s)
    BY ONLY <2>1, <2>2, ConcatNat
  <2> QED BY <2>3 DEF og, bg
<1>6. /\ Ordered(out[g] \o b) /\ UpTo(out[g] \o b, taken + k)
      /\ \A x \in Bytes(out[g] \o b) : x > taken \/ x \in Bytes(out[g] \o buf[g])
  <2> DEFINE u == out[g] \o buf[g]
  <2>1. u \in Seq(Nat)
    BY <1>2, ConcatProperties
  <2>2. Ordered(u) /\ UpTo(u, taken)
    BY <1>2
  <2>3. out[g] \o b = u \o s
    BY <1>5
  <2> HIDE DEF u, b
  <2>4. /\ Ordered(u \o s) /\ UpTo(u \o s, taken + k)
        /\ \A x \in Bytes(u \o s) : x > taken \/ x \in Bytes(u)
    BY <2>1, <2>2, <1>2, <1>3, ServeExtends DEF s
  <2> QED BY <2>3, <2>4 DEF u
<1>7. taken + k \in Nat /\ taken <= taken + k
  BY <1>2, <1>3
<1>8. out' = [out EXCEPT ![g] = out[g]]
  BY <1>1 DEF ReaderInv, Types
<1> HIDE DEF b
<1> QED BY <1>1, <1>2, <1>4, <1>6, <1>7, <1>8, WithinCall DEF c

(* A full buffer reaches the caller's slice.                               *)
LEMMA DeliverKeeps ==
  ASSUME ReaderInv, NEW g \in Goroutines, Deliver(g)
  PROVE  ReaderInv'
<1> DEFINE c == call[g]
           n == IF Left(g) < c.chunk THEN Left(g) ELSE c.chunk
           v == SubSeq(buf[g], 1, n)
           o == out[g] \o v
<1>1. /\ g \in Active /\ Left(g) > 0 /\ Len(buf[g]) = c.chunk
      /\ out' = [out EXCEPT ![g] = o]
      /\ buf' = [buf EXCEPT ![g] = <<>>]
      /\ err' = [err EXCEPT ![g] = "nil"]
      /\ UNCHANGED <<taken, call, results>>
  BY DEF Deliver, Filled
<1>2. /\ taken \in Nat /\ out[g] \in Seq(Nat) /\ buf[g] \in Seq(Nat)
      /\ Progress(c, out[g], buf[g])
      /\ Left(g) \in Nat /\ Left(g) = c.len + PrefixLen(c) - Len(out[g])
      /\ Len(out[g]) < PrefixLen(c) + c.len
      /\ Ordered(out[g] \o buf[g]) /\ UpTo(out[g] \o buf[g], taken)
  BY <1>1, CallFacts
<1>3. n \in Nat
  <2>1. c.chunk \in Nat
    <3>1. WellFormed(c)
      BY <1>2 DEF Progress
    <3> QED BY <3>1, Sizes
  <2> QED BY <2>1, <1>2
<1>4. Delivered(c, out[g], buf[g], taken, v)
  <2> DEFINE l == Left(g)
             m == n
             w == v
             og == out[g]
             bg == buf[g]
  <2>1. /\ m = Shorter(l, c.chunk)
        /\ w = SubSeq(bg, 1, m)
        /\ l = c.len + PrefixLen(c) - Len(og) /\ l \in Nat /\ m \in Nat
        /\ Len(bg) = c.chunk /\ Len(og) < PrefixLen(c) + c.len
        /\ og \in Seq(Nat) /\ bg \in Seq(Nat) /\ Progress(c, og, bg) /\ taken \in Nat
    BY <1>1, <1>2, <1>3 DEF Shorter
  <2> HIDE DEF l, m, w, v, n, o, c, og, bg
  <2>2. Delivered(c, og, bg, taken, w)
    BY ONLY <2>1, DeliverKeepsProgress
  <2> QED BY <2>2 DEF w, og, bg
<1>5. /\ Ordered(o) /\ UpTo(o, taken) /\ Bytes(o) \subseteq Bytes(out[g] \o buf[g])
  <2> HIDE DEF v, n
  <2> QED BY <1>2, <1>4, PartsOfHeld DEF Delivered
<1> HIDE DEF o, c, n, v
<1>6. o \o <<>> = o /\ o \in Seq(Nat) /\ <<>> \in Seq(Nat)
  BY <1>4, ConcatEmptySeq, EmptySeq DEF Delivered, o
<1>7. "nil" \in Errors /\ taken' = taken /\ taken <= taken
  BY <1>1, <1>2 DEF Errors
<1>8. /\ Progress(c, o, <<>>)
      /\ Contiguous(c, out[g], buf[g], taken) => Contiguous(c, o, <<>>, taken)
  BY <1>4 DEF Delivered, o
<1> QED BY <1>1, <1>2, <1>5, <1>6, <1>7, <1>8, WithinCall DEF c
(* A call that begins has nothing but what was in its slice before.        *)
LEMMA NewCall ==
  ASSUME NEW c, WellFormed(c),
         NEW o, o = IF c.kind = "Sum" THEN <<CallersByte>> ELSE <<>>
  PROVE  /\ o \in Seq(Nat) /\ o \o <<>> = o
         /\ Progress(c, o, <<>>) /\ Contiguous(c, o, <<>>, c.from)
         /\ Ordered(o) /\ Bytes(o) = {}
         /\ \A t \in Nat : UpTo(o, t)
<1> DEFINE p == PrefixLen(c)
           len == c.len
           from == c.from
<1>1. /\ BytesPerWord \in Nat /\ BytesPerWord > 0 /\ c \in CallRecords
      /\ len \in Nat /\ c.chunk \in Nat /\ from \in Nat /\ p \in Nat
      /\ c.chunk = (IF c.kind = "fill" THEN BytesPerWord ELSE len)
  BY Sizes
<1>2. o \in Seq(Nat) /\ Len(o) = p /\ DOMAIN o = 1 .. p /\ \A i \in 1 .. p : o[i] = 0
  <2>1. CASE c.kind = "Sum"
    <3>1. o = <<0>> /\ p = 1
      BY <2>1 DEF CallersByte, PrefixLen
    <3> HIDE DEF p
    <3> QED BY <3>1
  <2>2. CASE c.kind # "Sum"
    <3>1. o = <<>> /\ p = 0
      BY <2>2 DEF PrefixLen
    <3> HIDE DEF p
    <3> QED BY <3>1
  <2> QED BY <2>1, <2>2
<1>3. o \o <<>> = o
  BY <1>2, ConcatEmptySeq
<1>4. Len(<<>>) = 0 /\ DOMAIN <<>> = {}
  OBVIOUS
<1>5. p <= 1
  BY DEF PrefixLen
<1>6. Ordered(o) /\ Bytes(o) = {} /\ \A t \in Nat : UpTo(o, t)
  <2> HIDE DEF p
  <2>1. Ordered(o)
    BY <1>1, <1>2, <1>5 DEF Ordered
  <2>2. Bytes(o) = {}
    BY <1>2 DEF Bytes, CallersByte
  <2>3. \A t \in Nat : UpTo(o, t)
    BY <1>2 DEF UpTo
  <2> QED BY <2>1, <2>2, <2>3
<1>7. Progress(c, o, <<>>)
  <2> HIDE DEF p
  <2>1. \A i \in DOMAIN o : o[i] = CallersByte <=> i <= p
    BY <1>1, <1>2 DEF CallersByte
  <2>2. p = p + 0 * c.chunk
    BY <1>1
  <2>3. p \in p .. p + len /\ 0 <= c.chunk
    BY <1>1
  <2> QED BY <2>1, <2>2, <2>3, <1>2, <1>4 DEF Progress, p
<1>8. Contiguous(c, o, <<>>, from)
  <2>1. \A i \in DOMAIN o : ~(i > p)
    <3> HIDE DEF p
    <3> QED BY <1>1, <1>2
  <2>2. ASSUME len = 0 PROVE UsedUp(c) = 0
    <3>1. RoundUp(0) = 0
      <4>1. (0 + BytesPerWord - 1) \div BytesPerWord = 0
        BY <1>1
      <4> QED BY <4>1, <1>1 DEF RoundUp
    <3> QED BY <2>2, <3>1 DEF UsedUp
  <2>3. p = p + len => from = from + UsedUp(c)
    <3> DEFINE used == UsedUp(c)
    <3> HIDE DEF p, len, used, from
    <3>1. len = 0 => used = 0
      BY <2>2 DEF used
    <3> QED BY <3>1, <1>1 DEF used
  <2>4. from = from + p - p + 0
    <3> HIDE DEF p, from
    <3> QED BY <1>1
  <2> QED BY <2>1, <2>3, <2>4, <1>2, <1>4 DEF Contiguous, p, len, from
<1> QED BY <1>2, <1>3, <1>6, <1>7, <1>8 DEF from

(* That another call overlaps it changes nothing else about a call.        *)
LEMMA Overlapped ==
  ASSUME NEW c \in CallRecords, NEW o, NEW b, Progress(c, o, b),
         NEW d, d = [c EXCEPT !.alone = FALSE]
  PROVE  d \in CallRecords /\ Progress(d, o, b) /\ d.alone = FALSE /\ d # NoCall
<1>1. /\ d \in CallRecords /\ d.kind = c.kind /\ d.len = c.len /\ d.chunk = c.chunk
      /\ d.from = c.from /\ d.alone = FALSE /\ c.kind \in Kinds
  BY DEF CallRecords
<1>2. d # NoCall
  BY <1>1 DEF NoCall
<1>3. PrefixLen(d) = PrefixLen(c)
  BY <1>1 DEF PrefixLen
<1>4. WellFormed(d)
  BY <1>1 DEF WellFormed, Progress
<1>5. Progress(d, o, b)
  BY <1>1, <1>3, <1>4 DEF Progress
<1> QED BY <1>1, <1>2, <1>5

(* A call begins: those in progress have company from now on.              *)
LEMMA BeginKeeps ==
  ASSUME ReaderInv, NEW g \in Goroutines, NEW kind, NEW len, NEW chunk, NEW prefix,
         Begin(g, kind, len, chunk, prefix),
         WellFormed([kind |-> kind, len |-> len, chunk |-> chunk,
                     from |-> taken, alone |-> Active = {}]),
         prefix = IF kind = "Sum" THEN <<CallersByte>> ELSE <<>>
  PROVE  ReaderInv'
<1> DEFINE c == [kind |-> kind, len |-> len, chunk |-> chunk,
                 from |-> taken, alone |-> Active = {}]
<1>1. /\ call[g] = NoCall
      /\ call' = [h \in Goroutines |-> IF h = g THEN c
                    ELSE IF h \in Active THEN [call[h] EXCEPT !.alone = FALSE] ELSE NoCall]
      /\ out' = [out EXCEPT ![g] = prefix]
      /\ taken' = taken /\ buf' = buf /\ err' = err /\ results' = results
  BY DEF Begin
<1>2. WellFormed(c) /\ c.kind = kind /\ c.from = taken /\ c.alone = (Active = {})
  OBVIOUS
<1> HIDE DEF c
<1>3. c \in CallRecords /\ c # NoCall
  BY <1>2 DEF WellFormed, CallRecords, NoCall, Kinds
<1>4. /\ prefix \in Seq(Nat) /\ prefix \o <<>> = prefix
      /\ Progress(c, prefix, <<>>) /\ Contiguous(c, prefix, <<>>, taken)
      /\ Ordered(prefix) /\ Bytes(prefix) = {} /\ \A t \in Nat : UpTo(prefix, t)
  BY <1>2, NewCall
<1>5. /\ g \notin Active /\ buf[g] = <<>> /\ err[g] = "nil" /\ out[g] = <<>>
      /\ taken \in Nat
  BY <1>1 DEF Active, ReaderInv, Types
<1>6. ASSUME NEW h \in Active
      PROVE  /\ h \in Goroutines /\ h # g
             /\ call'[h] \in CallRecords /\ call'[h] # NoCall /\ call'[h].alone = FALSE
             /\ Progress(call'[h], out'[h], buf'[h])
             /\ out'[h] = out[h]
  <2>1. h \in Goroutines /\ h # g /\ call[h] \in CallRecords /\ Progress(call[h], out[h], buf[h])
    BY <1>5, CallFacts
  <2>2. call'[h] = [call[h] EXCEPT !.alone = FALSE] /\ out'[h] = out[h] /\ buf'[h] = buf[h]
    BY <2>1, <1>1 DEF ReaderInv, Types
  <2>3. /\ call'[h] \in CallRecords /\ call'[h] # NoCall /\ call'[h].alone = FALSE
        /\ Progress(call'[h], out[h], buf[h])
    BY <2>1, <2>2, Overlapped
  <2> QED BY <2>1, <2>2, <2>3
<1>7. call'[g] = c /\ out'[g] = prefix /\ buf'[g] = <<>>
  BY <1>1, <1>5 DEF ReaderInv, Types
<1>8. ASSUME NEW h \in Goroutines, h # g, h \notin Active
      PROVE  call'[h] = NoCall /\ out'[h] = out[h] /\ buf'[h] = buf[h] /\ err'[h] = err[h]
  BY <1>1, <1>8 DEF ReaderInv, Types
<1>9. Active' = Active \union {g}
  <2>1. g \in Active'
    BY <1>3, <1>7 DEF Active
  <2>2. \A h \in Active : h \in Active'
    BY <1>6 DEF Active
  <2>3. \A h \in Active' : h \in Active \/ h = g
    <3> SUFFICES ASSUME NEW h \in Goroutines, h # g, h \notin Active PROVE call'[h] = NoCall
      BY DEF Active
    <3> QED BY <1>8
  <2> QED BY <2>1, <2>2, <2>3
<1>10. Types'
  <2>1. call' \in [Goroutines -> CallRecords \union {NoCall}]
    <3>1. \A h \in Goroutines : call'[h] \in CallRecords \union {NoCall}
      BY <1>3, <1>6, <1>7, <1>8
    <3> QED BY <3>1, <1>1
  <2>2. out' \in [Goroutines -> Seq(Nat)]
    BY <1>1, <1>4 DEF ReaderInv, Types
  <2> QED BY <2>1, <2>2, <1>1 DEF ReaderInv, Types
<1>11. Separate'
  <2> DEFINE x == <<"active", g>>
  <2>1. x \notin Holdings /\ x \in Holdings' /\ Held(x)' = prefix
    BY <1>4, <1>5, <1>7, <1>9, HeldFacts
  <2>2. ASSUME NEW h \in Holdings', h # x
        PROVE  h \in Holdings /\ h # x /\ Held(h)' = Held(h)
    <3>1. ASSUME NEW i \in DOMAIN results', h = <<"ended", i>>
          PROVE  h \in Holdings /\ Held(h)' = Held(h)
      BY <3>1, <1>1, HeldFacts
    <3>2. ASSUME NEW f \in Active', h = <<"active", f>>
          PROVE  h \in Holdings /\ Held(h)' = Held(h)
      <4>1. f # g /\ f \in Active
        BY <2>2, <3>2, <1>9
      <4>2. out'[f] = out[f] /\ buf'[f] = buf[f]
        BY <4>1, <1>1, <1>6
      <4>3. /\ <<"active", f>> \in Holdings
            /\ Held(<<"active", f>>) = out[f] \o buf[f]
            /\ Held(<<"active", f>>)' = out'[f] \o buf'[f]
        BY <4>1, HeldFacts
      <4>4. Held(<<"active", f>>)' = Held(<<"active", f>>)
        BY <4>2, <4>3
      <4> QED BY <3>2, <4>3, <4>4
    <3> QED BY <2>2, <3>1, <3>2, HeldFacts
  <2>3. Separate
    BY DEF ReaderInv
  <2> HIDE DEF x
  <2>4. taken \in Nat /\ taken' \in Nat /\ taken <= taken'
    BY <1>1, <1>5
  <2>5. /\ Ordered(Held(x)') /\ UpTo(Held(x)', taken')
        /\ \A y \in Bytes(Held(x)') : y > taken \/ (x \in Holdings /\ y \in Bytes(Held(x)))
    BY <2>1, <2>4, <1>4
  <2> QED BY <2>2, <2>3, <2>4, <2>5, OneHolderChanges
<1>12. \A h \in Goroutines \ Active' : buf'[h] = <<>> /\ err'[h] = "nil" /\ out'[h] = <<>>
  BY <1>8, <1>9 DEF ReaderInv
<1>13. ASSUME NEW h \in Active'
       PROVE  Progress(call'[h], out'[h], buf'[h])
  BY <1>4, <1>6, <1>7, <1>9
<1>14. ASSUME NEW h \in Active', call'[h].alone
       PROVE  Active' = {h} /\ Contiguous(call'[h], out'[h], buf'[h], taken')
  <2>1. h = g
    BY <1>6, <1>9, <1>14
  <2>2. Active = {}
    BY <2>1, <1>2, <1>7, <1>14
  <2> QED BY <2>1, <2>2, <1>1, <1>4, <1>7, <1>9
<1>15. \A i \in DOMAIN results' : WholeResult(results'[i]) /\ ContiguousResult(results'[i])
  BY <1>1 DEF ReaderInv
<1> QED BY <1>10, <1>11, <1>12, <1>13, <1>14, <1>15 DEF ReaderInv
(* A call ends: what is left of its bytes is its result's.                 *)
LEMMA EndKeeps ==
  ASSUME ReaderInv, NEW g \in Active, NEW bytes, NEW e, End(g, bytes, e),
         NEW r, r = [call |-> call[g], bytes |-> bytes, err |-> e, upto |-> taken],
         r \in ResultRecords, WholeResult(r), ContiguousResult(r),
         Ordered(bytes), UpTo(bytes, taken), Bytes(bytes) \subseteq Bytes(out[g] \o buf[g])
  PROVE  ReaderInv'
<1>0. PICK n : n = Len(results) + 1
  OBVIOUS
<1>1. /\ results' = Append(results, r)
      /\ call' = [call EXCEPT ![g] = NoCall]
      /\ buf' = [buf EXCEPT ![g] = <<>>]
      /\ err' = [err EXCEPT ![g] = "nil"]
      /\ out' = [out EXCEPT ![g] = <<>>]
      /\ taken' = taken
  BY DEF End
<1>2. g \in Goroutines /\ taken \in Nat /\ results \in Seq(ResultRecords)
  BY DEF Active, ReaderInv, Types
<1>3. /\ results' \in Seq(ResultRecords) /\ n \in Nat /\ n > 0
      /\ DOMAIN results = 1 .. n - 1 /\ DOMAIN results' = 1 .. n
      /\ results'[n] = r
      /\ \A i \in DOMAIN results : results'[i] = results[i]
  <2>1. /\ results' \in Seq(ResultRecords)
        /\ Len(results') = Len(results) + 1
        /\ \A i \in 1 .. Len(results) : results'[i] = results[i]
        /\ results'[Len(results) + 1] = r
    BY ONLY <1>1, <1>2, r \in ResultRecords, AppendProperties
  <2>2. Len(results) \in Nat /\ DOMAIN results = 1 .. Len(results)
        /\ DOMAIN results' = 1 .. Len(results')
    BY ONLY <1>2, <2>1, LenProperties
  <2> QED BY <2>1, <2>2, <1>0
<1>4. /\ call'[g] = NoCall /\ buf'[g] = <<>> /\ err'[g] = "nil" /\ out'[g] = <<>>
      /\ \A h \in Goroutines : h # g =>
           /\ call'[h] = call[h] /\ buf'[h] = buf[h]
           /\ err'[h] = err[h] /\ out'[h] = out[h]
  BY <1>1, <1>2 DEF ReaderInv, Types
<1>5. Active' = Active \ {g}
  BY <1>4 DEF Active
<1>6. Types'
  <2>1. "nil" \in Errors /\ <<>> \in Seq(Nat)
    BY DEF Errors
  <2> QED BY <2>1, <1>1, <1>2, <1>3 DEF ReaderInv, Types
<1>7. Separate'
  <2> DEFINE x == <<"ended", n>>
             y == <<"active", g>>
  <2>1. /\ y \in Holdings /\ Held(y) = out[g] \o buf[g]
        /\ x \in Holdings' /\ Held(x)' = bytes
    <3>1. n \in DOMAIN results' /\ results'[n].bytes = bytes
      <4>1. n \in DOMAIN results' /\ results'[n] = r
        BY <1>3
      <4> QED BY <4>1
    <3>2. x \in Holdings' /\ Held(x)' = results'[n].bytes
      BY <3>1, HeldFacts
    <3>3. y \in Holdings /\ Held(y) = out[g] \o buf[g]
      BY HeldFacts
    <3> QED BY <3>1, <3>2, <3>3
  <2>2. ASSUME NEW h \in Holdings', h # x
        PROVE  h \in Holdings /\ h # y /\ Held(h)' = Held(h)
    <3>1. ASSUME NEW i \in DOMAIN results', h = <<"ended", i>>
          PROVE  h \in Holdings /\ h # y /\ Held(h)' = Held(h)
      <4>1. i \in DOMAIN results
        <5>1. i # n /\ i \in 1 .. n /\ n \in Nat
          BY <2>2, <3>1, <1>3
        <5>2. i \in 1 .. n - 1
          BY ONLY <5>1
        <5> QED BY <5>2, <1>3
      <4>2. results'[i] = results[i]
        BY <4>1, <1>3
      <4>3. /\ <<"ended", i>> \in Holdings /\ <<"ended", i>> # y
            /\ Held(<<"ended", i>>) = results[i].bytes
            /\ Held(<<"ended", i>>)' = results'[i].bytes
        BY <4>1, HeldFacts
      <4>4. Held(<<"ended", i>>)' = Held(<<"ended", i>>)
        BY <4>2, <4>3
      <4> QED BY <3>1, <4>3, <4>4
    <3>2. ASSUME NEW f \in Active', h = <<"active", f>>
          PROVE  h \in Holdings /\ h # y /\ Held(h)' = Held(h)
      <4>1. f # g /\ f \in Active /\ f \in Goroutines
        BY <1>5, <3>2 DEF Active
      <4>2. out'[f] = out[f] /\ buf'[f] = buf[f]
        BY <4>1, <1>4
      <4>3. /\ <<"active", f>> \in Holdings /\ <<"active", f>> # y
            /\ Held(<<"active", f>>) = out[f] \o buf[f]
            /\ Held(<<"active", f>>)' = out'[f] \o buf'[f]
        BY <4>1, HeldFacts
      <4>4. Held(<<"active", f>>)' = Held(<<"active", f>>)
        BY <4>2, <4>3
      <4> QED BY <3>2, <4>3, <4>4
    <3> QED BY <2>2, <3>1, <3>2, HeldFacts
  <2>3. Separate
    BY DEF ReaderInv
  <2> HIDE DEF x, y
  <2>4. taken \in Nat /\ taken' \in Nat /\ taken <= taken'
    BY <1>1, <1>2
  <2>5. /\ Ordered(Held(x)') /\ UpTo(Held(x)', taken')
        /\ \A b \in Bytes(Held(x)') : b > taken \/ (y \in Holdings /\ b \in Bytes(Held(y)))
    BY <2>1, <1>1
  <2>6. \A h \in Holdings' : h # x => h \in Holdings /\ h # y /\ Held(h)' = Held(h)
    BY <2>2
  <2> QED BY ONLY <2>3, <2>4, <2>5, <2>6, OneHolderChanges
<1>8. \A h \in Goroutines \ Active' : buf'[h] = <<>> /\ err'[h] = "nil" /\ out'[h] = <<>>
  BY <1>4, <1>5 DEF ReaderInv
<1>9. ASSUME NEW h \in Active'
      PROVE  h \in Active /\ h # g /\ Progress(call'[h], out'[h], buf'[h])
  <2>1. h \in Active /\ h # g /\ h \in Goroutines
    BY <1>5 DEF Active
  <2> QED BY <2>1, <1>4 DEF ReaderInv
<1>10. ASSUME NEW h \in Active', call'[h].alone
       PROVE  Active' = {h} /\ Contiguous(call'[h], out'[h], buf'[h], taken')
  <2>1. h \in Active /\ h # g /\ h \in Goroutines
    BY <1>9 DEF Active
  <2>2. call[h].alone
    BY <2>1, <1>4, <1>10
  <2>3. Active = {h}
    BY <2>1, <2>2 DEF ReaderInv
  <2> QED BY <2>1, <2>3
<1>11. \A i \in DOMAIN results' : WholeResult(results'[i]) /\ ContiguousResult(results'[i])
  <2> SUFFICES ASSUME NEW i \in DOMAIN results'
               PROVE  WholeResult(results'[i]) /\ ContiguousResult(results'[i])
    OBVIOUS
  <2>1. CASE i = n
    BY <2>1, <1>3
  <2>2. CASE i # n
    <3>1. i \in 1 .. n /\ n \in Nat
      BY <1>3
    <3>2. i \in 1 .. n - 1
      BY ONLY <3>1, <2>2
    <3>3. i \in DOMAIN results
      BY <3>2, <1>3
    <3> QED BY <3>3, <1>3 DEF ReaderInv
  <2> QED BY <2>1, <2>2
<1> QED BY <1>6, <1>7, <1>8, <1>9, <1>10, <1>11 DEF ReaderInv

(* A call returns with all its bytes.                                      *)
LEMMA ReturnKeeps ==
  ASSUME ReaderInv, NEW g \in Goroutines, Return(g)
  PROVE  ReaderInv'
<1> DEFINE r == [call |-> call[g], bytes |-> out[g], err |-> "nil", upto |-> taken]
<1>1. g \in Active /\ Left(g) = 0 /\ End(g, out[g], "nil")
  BY DEF Return
<1>2. /\ taken \in Nat /\ out[g] \in Seq(Nat) /\ buf[g] \in Seq(Nat)
      /\ Progress(call[g], out[g], buf[g])
      /\ call[g].alone => Contiguous(call[g], out[g], buf[g], taken)
      /\ Len(out[g]) = PrefixLen(call[g]) + call[g].len
      /\ Ordered(out[g] \o buf[g]) /\ UpTo(out[g] \o buf[g], taken)
  BY <1>1, CallFacts
<1>3. Ordered(out[g]) /\ UpTo(out[g], taken) /\ Bytes(out[g]) \subseteq Bytes(out[g] \o buf[g])
  BY <1>2, PartsOfHeld
<1>4. r \in ResultRecords /\ WholeResult(r) /\ ContiguousResult(r)
  BY <1>2, <1>3, ReturnIsWhole
<1> HIDE DEF r
<1>5. r = [call |-> call[g], bytes |-> out[g], err |-> "nil", upto |-> taken]
  BY DEF r
<1> QED BY <1>1, <1>3, <1>4, <1>5, EndKeeps

(* A call that fails was still reading: its buffer is not full.            *)
LEMMA FailedFacts ==
  ASSUME ReaderInv, NEW g \in Goroutines, Failed(g)
  PROVE  /\ g \in Active /\ err[g] \in {"EOF", "failure"}
         /\ Len(out[g]) < PrefixLen(call[g]) + call[g].len
         /\ Len(buf[g]) < call[g].chunk
<1>1. g \in Active /\ Left(g) > 0 /\ Len(buf[g]) # call[g].chunk /\ err[g] # "nil"
  BY DEF Failed, Filled
<1>2. /\ err[g] \in Errors /\ buf[g] \in Seq(Nat)
      /\ Progress(call[g], out[g], buf[g])
      /\ Len(out[g]) < PrefixLen(call[g]) + call[g].len
  BY <1>1, CallFacts
<1>3. Len(buf[g]) < call[g].chunk
  <2> DEFINE lb == Len(buf[g])
             k == call[g].chunk
  <2>1. WellFormed(call[g])
    BY <1>2 DEF Progress
  <2>2. lb \in Nat /\ k \in Nat /\ lb <= k /\ lb # k
    BY <2>1, <1>1, <1>2, Sizes DEF Progress
  <2> HIDE DEF lb, k
  <2>3. lb < k
    BY <2>2
  <2> QED BY <2>3 DEF lb, k
<1> QED BY <1>1, <1>2, <1>3 DEF Errors

(* Read returns an error with the bytes it has.                            *)
LEMMA ReadFailsKeeps ==
  ASSUME ReaderInv, NEW g \in Goroutines, ReadFails(g)
  PROVE  ReaderInv'
<1> DEFINE e == FullError(g)
           r == [call |-> call[g], bytes |-> buf[g], err |-> e, upto |-> taken]
<1>1. Failed(g) /\ call[g].kind = "Read" /\ End(g, buf[g], e)
  BY DEF ReadFails
<1>2. /\ g \in Active /\ err[g] \in {"EOF", "failure"} /\ Len(buf[g]) < call[g].chunk
  BY <1>1, FailedFacts
<1>3. /\ taken \in Nat /\ out[g] \in Seq(Nat) /\ buf[g] \in Seq(Nat)
      /\ Progress(call[g], out[g], buf[g])
      /\ Ordered(out[g] \o buf[g]) /\ UpTo(out[g] \o buf[g], taken)
  BY <1>2, CallFacts
<1>4. Ordered(buf[g]) /\ UpTo(buf[g], taken) /\ Bytes(buf[g]) \subseteq Bytes(out[g] \o buf[g])
  BY <1>3, PartsOfHeld
<1>5. /\ e \in {"EOF", "failure", "ErrUnexpectedEOF"}
      /\ e = "EOF" => buf[g] = <<>>
      /\ e = "ErrUnexpectedEOF" => buf[g] # <<>>
  BY <1>2 DEF FullError
<1> HIDE DEF e
<1>6. r \in ResultRecords /\ WholeResult(r) /\ ContiguousResult(r)
  BY <1>1, <1>2, <1>3, <1>4, <1>5, ReadErrorIsShort
<1> HIDE DEF r
<1>7. r = [call |-> call[g], bytes |-> buf[g], err |-> e, upto |-> taken]
  BY DEF r
<1> QED BY <1>1, <1>2, <1>4, <1>6, <1>7, EndKeeps

(* A word, or a slice filled word by word, fails by panicking.             *)
LEMMA WordPanicsKeeps ==
  ASSUME ReaderInv, NEW g \in Goroutines, WordPanics(g)
  PROVE  ReaderInv'
<1> DEFINE r == [call |-> call[g], bytes |-> out[g], err |-> "panic", upto |-> taken]
<1>1. Failed(g) /\ call[g].kind # "Read" /\ End(g, out[g], "panic")
  BY DEF WordPanics
<1>2. g \in Active /\ Len(out[g]) < PrefixLen(call[g]) + call[g].len
  BY <1>1, FailedFacts
<1>3. /\ taken \in Nat /\ out[g] \in Seq(Nat) /\ buf[g] \in Seq(Nat)
      /\ Progress(call[g], out[g], buf[g])
      /\ Ordered(out[g] \o buf[g]) /\ UpTo(out[g] \o buf[g], taken)
  BY <1>2, CallFacts
<1>4. Ordered(out[g]) /\ UpTo(out[g], taken) /\ Bytes(out[g]) \subseteq Bytes(out[g] \o buf[g])
  BY <1>3, PartsOfHeld
<1>5. r \in ResultRecords /\ WholeResult(r) /\ ContiguousResult(r)
  BY <1>1, <1>2, <1>3, <1>4, PanicKeepsWords
<1> HIDE DEF r
<1>6. r = [call |-> call[g], bytes |-> out[g], err |-> "panic", upto |-> taken]
  BY DEF r
<1> QED BY <1>1, <1>2, <1>4, <1>5, <1>6, EndKeeps
(* The calls the provider offers begin as BeginKeeps has it.               *)
LEMMA CallsBegin ==
  ASSUME ReaderInv, NEW g \in Goroutines,
         \/ \E n \in Lengths : Read(g, n) \/ FillRandomBytes(g, n)
         \/ Sum(g) \/ Sum32(g) \/ Sum64(g)
  PROVE  ReaderInv'
<1>1. /\ BytesPerWord \in Nat /\ BytesPerHalf \in Nat
      /\ \A n \in Lengths : n \in Nat
      /\ taken \in Nat
  BY ReaderAssumption DEF ReaderInv, Types
<1>2. ASSUME NEW n \in Lengths, Read(g, n) PROVE ReaderInv'
  <2>1. WellFormed([kind |-> "Read", len |-> n, chunk |-> n,
                    from |-> taken, alone |-> Active = {}])
    BY <1>1 DEF WellFormed, CallRecords, Kinds
  <2>2. Begin(g, "Read", n, n, <<>>)
    BY <1>2 DEF Read
  <2>3. <<>> = IF "Read" = "Sum" THEN <<CallersByte>> ELSE <<>>
    OBVIOUS
  <2> QED BY <2>1, <2>2, <2>3, BeginKeeps
<1>3. ASSUME NEW n \in Lengths, FillRandomBytes(g, n) PROVE ReaderInv'
  <2>1. WellFormed([kind |-> "fill", len |-> n, chunk |-> BytesPerWord,
                    from |-> taken, alone |-> Active = {}])
    BY <1>1 DEF WellFormed, CallRecords, Kinds
  <2>2. Begin(g, "fill", n, BytesPerWord, <<>>)
    BY <1>3 DEF FillRandomBytes
  <2>3. <<>> = IF "fill" = "Sum" THEN <<CallersByte>> ELSE <<>>
    OBVIOUS
  <2> QED BY <2>1, <2>2, <2>3, BeginKeeps
<1>4. ASSUME Sum(g) PROVE ReaderInv'
  <2>1. WellFormed([kind |-> "Sum", len |-> BytesPerWord, chunk |-> BytesPerWord,
                    from |-> taken, alone |-> Active = {}])
    BY <1>1 DEF WellFormed, CallRecords, Kinds
  <2>2. Begin(g, "Sum", BytesPerWord, BytesPerWord, <<CallersByte>>)
    BY <1>4 DEF Sum
  <2>3. <<CallersByte>> = IF "Sum" = "Sum" THEN <<CallersByte>> ELSE <<>>
    OBVIOUS
  <2> QED BY <2>1, <2>2, <2>3, BeginKeeps
<1>5. ASSUME Sum32(g) PROVE ReaderInv'
  <2>1. WellFormed([kind |-> "Sum32", len |-> BytesPerHalf, chunk |-> BytesPerHalf,
                    from |-> taken, alone |-> Active = {}])
    BY <1>1 DEF WellFormed, CallRecords, Kinds
  <2>2. Begin(g, "Sum32", BytesPerHalf, BytesPerHalf, <<>>)
    BY <1>5 DEF Sum32
  <2>3. <<>> = IF "Sum32" = "Sum" THEN <<CallersByte>> ELSE <<>>
    OBVIOUS
  <2> QED BY <2>1, <2>2, <2>3, BeginKeeps
<1>6. ASSUME Sum64(g) PROVE ReaderInv'
  <2>1. WellFormed([kind |-> "Sum64", len |-> BytesPerWord, chunk |-> BytesPerWord,
                    from |-> taken, alone |-> Active = {}])
    BY <1>1 DEF WellFormed, CallRecords, Kinds
  <2>2. Begin(g, "Sum64", BytesPerWord, BytesPerWord, <<>>)
    BY <1>6 DEF Sum64
  <2>3. <<>> = IF "Sum64" = "Sum" THEN <<CallersByte>> ELSE <<>>
    OBVIOUS
  <2> QED BY <2>1, <2>2, <2>3, BeginKeeps
<1> QED BY <1>2, <1>3, <1>4, <1>5, <1>6

-------------------------------------------------------------------------------

(* ReaderInv holds in every reachable state.                               *)
LEMMA ReaderInvInductive == Spec => []ReaderInv
<1>1. Init => ReaderInv
  <2> SUFFICES ASSUME Init PROVE ReaderInv
    OBVIOUS
  <2>1. /\ taken = 0
        /\ call = [g \in Goroutines |-> NoCall]
        /\ buf = [g \in Goroutines |-> <<>>]
        /\ err = [g \in Goroutines |-> "nil"]
        /\ out = [g \in Goroutines |-> <<>>]
        /\ results = <<>>
    BY DEF Init
  <2>2. Active = {}
    BY <2>1 DEF Active
  <2>3. Types
    <3>1. <<>> \in Seq(Nat) /\ <<>> \in Seq(ResultRecords) /\ "nil" \in Errors
      BY DEF Errors
    <3> QED BY <2>1, <3>1 DEF Types
  <2>4. DOMAIN results = {}
    BY <2>1
  <2>5. Holdings = {}
    BY <2>2, <2>4 DEF Holdings
  <2>6. Separate
    BY <2>5 DEF Separate, BytesOnceInOrder
  <2>7. \A g \in Goroutines \ Active : buf[g] = <<>> /\ err[g] = "nil" /\ out[g] = <<>>
    BY <2>1
  <2> QED BY <2>2, <2>3, <2>4, <2>6, <2>7 DEF ReaderInv
<1>2. ReaderInv /\ [Next]_vars => ReaderInv'
  <2> SUFFICES ASSUME ReaderInv, [Next]_vars PROVE ReaderInv'
    OBVIOUS
  <2>1. ASSUME NEW g \in Goroutines,
               \/ \E n \in Lengths : Read(g, n) \/ FillRandomBytes(g, n)
               \/ Sum(g) \/ Sum32(g) \/ Sum64(g)
        PROVE  ReaderInv'
    BY <2>1, CallsBegin
  <2>2. ASSUME NEW g \in Goroutines, NEW k \in 0 .. call[g].chunk, NEW e \in Errors,
               Serve(g, k, e)
        PROVE  ReaderInv'
    BY <2>2, ServeKeeps
  <2>3. ASSUME NEW g \in Goroutines, Deliver(g) PROVE ReaderInv'
    BY <2>3, DeliverKeeps
  <2>4. ASSUME NEW g \in Goroutines, Return(g) PROVE ReaderInv'
    BY <2>4, ReturnKeeps
  <2>5. ASSUME NEW g \in Goroutines, ReadFails(g) PROVE ReaderInv'
    BY <2>5, ReadFailsKeeps
  <2>6. ASSUME NEW g \in Goroutines, WordPanics(g) PROVE ReaderInv'
    BY <2>6, WordPanicsKeeps
  <2>7. CASE Finished \/ UNCHANGED vars
    <3>1. UNCHANGED vars
      BY <2>7 DEF Finished
    <3>2. taken' = taken /\ call' = call /\ buf' = buf /\ err' = err /\ out' = out /\ results' = results
      BY <3>1 DEF vars
    <3>3. Active' = Active
      BY <3>2 DEF Active
    <3>4. Holdings' = Holdings /\ \A h : Held(h)' = Held(h)
      BY <3>2, <3>3 DEF Holdings, Held
    <3>5. Separate'
      BY <3>2, <3>4 DEF ReaderInv, Separate, BytesOnceInOrder
    <3> QED BY <3>2, <3>3, <3>5 DEF ReaderInv, Types
  <2> QED BY <2>1, <2>2, <2>3, <2>4, <2>5, <2>6, <2>7 DEF Next
<1> QED BY <1>1, <1>2, PTL DEF Spec

(* No byte of the reader is in two calls or twice in one, however their    *)
(* io.ReadFull loops interleave, and every call's bytes are in order.      *)
THEOREM BytesOnceInOrderHolds == Spec => []BytesOnceInOrder
<1>1. ReaderInv => BytesOnceInOrder
  BY DEF ReaderInv, Separate
<1> QED BY <1>1, ReaderInvInductive, PTL

(* A result without an error has as many bytes of the reader as the call   *)
(* is for; with one it has fewer, and reports it the way its method does.  *)
THEOREM WholeOrErrorHolds == Spec => []WholeOrError
<1>1. ASSUME ReaderInv PROVE WholeOrError
  <2> SUFFICES ASSUME NEW i \in DOMAIN results
               PROVE  LET r == results[i]
                          got == Cardinality(Bytes(r.bytes))
                      IN  CASE r.err = "nil" -> got = r.call.len
                            [] r.err = "panic" ->
                                 /\ r.call.kind # "Read"
                                 /\ got < r.call.len
                                 /\ got % BytesPerWord = 0
                            [] OTHER ->
                                 /\ r.call.kind = "Read"
                                 /\ got < r.call.len
                                 /\ (r.err = "EOF") => got = 0
                                 /\ (r.err = "ErrUnexpectedEOF") => got > 0
    BY DEF WholeOrError
  <2>1. WholeResult(results[i])
    BY <1>1 DEF ReaderInv
  <2> QED BY <2>1 DEF WholeResult
<1> QED BY <1>1, ReaderInvInductive, PTL

(* A call nobody overlaps gets the bytes right behind those handed out     *)
(* before it, and uses up no more of the stream than its length, rounded   *)
(* up to whole words when a slice is filled.                               *)
THEOREM AloneIsContiguousHolds == Spec => []AloneIsContiguous
<1>1. ReaderInv => AloneIsContiguous
  BY DEF ReaderInv, ContiguousResult, UsedUp, AloneIsContiguous
<1> QED BY <1>1, ReaderInvInductive, PTL
================================================================================
