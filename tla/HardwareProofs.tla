---------------------------- MODULE HardwareProofs ----------------------------
(***************************************************************************)
(* For every table of OUIs, every word a provider may yield, every memory  *)
(* and every place in it for dst and the inputs: an address has the bits   *)
(* of its kind, and the EUI-64 of a MAC is that of the MAC passed.  For    *)
(* every number of goroutines, keys and buffers: bluetoothHash hashes the  *)
(* caller's own arguments, no scratch buffer is shared, and the key of an  *)
(* undisturbed call stays cached.                                          *)
(***************************************************************************)
EXTENDS Hardware, RPACache, SequenceTheorems, FiniteSetTheorems, TLAPS

-------------------------------------------------------------------------------
(* The inductive invariant.                                                *)

Target == FixedBytes(call.capacity, Size(call.kind))

(* The memory FromMACAddress leaves.                                       *)
Encapsulated(c, m, b) ==
  LET e == PutModifiedEUI64(m, b, c.at, 6)
  IN  IF c.kind = "EUI64FromMAC" THEN [e EXCEPT ![b] = FlipLocal(@)] ELSE e

(* A call that made an address made it from a word its kind does not       *)
(* reject and an OUI of the table, or from the MAC.                        *)
Made ==
  /\ result = [at |-> Target, len |-> Size(call.kind)]
  /\ call.kind \in FromMAC => mem = Encapsulated(call, before, Target)
  /\ call.kind \notin FromMAC =>
       /\ word \in Words /\ ~Rejects(call.kind, word) /\ oui \in DOMAIN OUIs
       /\ mem = IF call.kind = "MACPrefix" THEN PutPrefix(before, Target, call, word)
                ELSE Write(before, Target, Address(call, word, oui))

(* Until then memory is what it was.                                       *)
HardwareInv ==
  /\ pc \in {"idle", "draw", "redraw", "done"}
  /\ call \in Calls /\ before \in Inputs
  /\ pc # "done" => mem = before /\ result = Nil
  /\ pc \in {"draw", "redraw"} => ~Refuses(call)
  /\ pc = "redraw" => oui \in DOMAIN OUIs
  /\ pc = "done" => result = Nil \/ (~Refuses(call) /\ Made)

-------------------------------------------------------------------------------
(* realOUI's index is one of the table's.                                  *)
LEMMA OUIInTable ==
  ASSUME NEW x \in Words
  PROVE  OUIOf(x) \in DOMAIN OUIs
<1> DEFINE m == Len(OUIs)
<1>1. m \in Nat \ {0} /\ DOMAIN OUIs = 1 .. m
  BY HardwareAssumption
<1>2. \A k \in 0 .. 7 : x[k] \in Nat
  <2>1. x \in [0 .. 7 -> Byte]
    BY HardwareAssumption
  <2>2. \A k \in 0 .. 7 : x[k] \in Byte
    BY ONLY <2>1
  <2>3. Byte \subseteq Nat
    BY DEF Byte
  <2> QED BY ONLY <2>2, <2>3
<1> HIDE DEF m
<1>3. \A n \in Nat : n % m \in 0 .. m - 1
  BY <1>1
<1> DEFINE u == (x[7] * 256 + x[6]) % m
           v == (u * 256 + x[5]) % m
           w == v * 256 + x[4]
<1>4. u \in Nat
  BY <1>2, <1>3
<1>5. v \in Nat
  <2> HIDE DEF u
  <2>1. u * 256 + x[5] \in Nat
    BY <1>2, <1>4
  <2> QED BY <2>1, <1>3
<1>6. w \in Nat
  <2> HIDE DEF v
  <2> QED BY <1>2, <1>5
<1>7. OUIOf(x) = (w % m) + 1
  BY DEF OUIOf, RealOUI, m
<1> HIDE DEF w
<1>8. w % m \in 0 .. m - 1
  BY <1>3, <1>6
<1> QED BY <1>1, <1>7, <1>8

(* HardwareInv holds in every reachable state.                             *)
LEMMA HardwareInvInductive == Spec => []HardwareInv
<1>1. Init => HardwareInv
  BY DEF Init, HardwareInv
<1>2. HardwareInv /\ [Next]_vars => HardwareInv'
  <2> SUFFICES ASSUME HardwareInv, [Next]_vars PROVE HardwareInv'
    OBVIOUS
  <2>1. CASE Begin
    BY <2>1 DEF Begin, HardwareInv
  <2>2. CASE FromMACAddress
    <3>1. /\ pc = "draw" /\ call.kind \in FromMAC /\ pc' = "done"
          /\ mem' = Encapsulated(call, mem, Target)
          /\ result' = [at |-> Target, len |-> 8]
          /\ UNCHANGED <<call, oui, word, before>>
      <4>1. Size(call.kind) = 8
        BY <2>2 DEF FromMACAddress, FromMAC, Size
      <4> QED BY <2>2, <4>1 DEF FromMACAddress, Finish, Encapsulated, Target
    <3>2. /\ mem = before /\ ~Refuses(call) /\ call \in Calls /\ before \in Inputs
      BY <3>1 DEF HardwareInv
    <3>3. Size(call.kind) = 8 /\ Target' = Target
      BY <3>1 DEF FromMAC, Size, Target
    <3>4. Made'
      BY <3>1, <3>2, <3>3 DEF Made
    <3> QED BY <3>1, <3>2, <3>4 DEF HardwareInv
  <2>3. ASSUME NEW x \in Words, Draw(x) PROVE HardwareInv'
    <3> DEFINE o == IF pc = "draw" THEN OUIOf(x) ELSE oui
    <3>1. /\ pc \in {"draw", "redraw"} /\ call.kind \notin FromMAC
          /\ oui' = o /\ word' = x
          /\ IF Rejects(call.kind, x)
             THEN pc' = "redraw" /\ UNCHANGED <<mem, result>>
             ELSE Finish(Target, IF call.kind = "MACPrefix" THEN PutPrefix(mem, Target, call, x)
                                 ELSE Write(mem, Target, Address(call, x, o)))
          /\ UNCHANGED <<call, before>>
      BY <2>3 DEF Draw, Target
    <3>2. /\ mem = before /\ result = Nil /\ ~Refuses(call) /\ call \in Calls
          /\ before \in Inputs
      BY <3>1 DEF HardwareInv
    <3>3. o \in DOMAIN OUIs
      BY <3>1, OUIInTable DEF HardwareInv
    <3> HIDE DEF o
    <3>4. CASE Rejects(call.kind, x)
      BY <3>1, <3>2, <3>3, <3>4 DEF HardwareInv
    <3>5. CASE ~Rejects(call.kind, x)
      <4>1. /\ pc' = "done" /\ result' = [at |-> Target, len |-> Size(call.kind)]
            /\ mem' = IF call.kind = "MACPrefix" THEN PutPrefix(mem, Target, call, x)
                      ELSE Write(mem, Target, Address(call, x, o))
        BY <3>1, <3>5 DEF Finish
      <4>2. Target' = Target
        BY <3>1 DEF Target
      <4>3. Made'
        BY <3>1, <3>2, <3>3, <3>5, <4>1, <4>2 DEF Made
      <4> QED BY <3>1, <3>2, <4>1, <4>3 DEF HardwareInv
    <3> QED BY <3>4, <3>5
  <2>4. CASE Finished \/ UNCHANGED vars
    <3>1. UNCHANGED vars
      BY <2>4 DEF Finished
    <3> QED BY <3>1 DEF vars, HardwareInv, Made, Target
  <2> QED BY <2>1, <2>2, <2>3, <2>4 DEF Next
<1> QED BY <1>1, <1>2, PTL DEF Spec
-------------------------------------------------------------------------------
(* Runs of bytes.                                                          *)

(* s is the n bytes of x from the hi-th down.                              *)
RunDown(s, x, hi, n) ==
  s \in Seq(Byte) /\ Len(s) = n /\ \A i \in 1 .. n : s[i] = x[hi + 1 - i]

(* s is the n bytes of x from the lowest up.                               *)
RunUp(s, x, n) ==
  s \in Seq(Byte) /\ Len(s) = n /\ \A i \in 1 .. n : s[i] = x[i - 1]

(* The bytes hi down to lo of a word.                                      *)
LEMMA BigEndianIs ==
  ASSUME NEW x \in [0 .. 7 -> Byte], NEW hi \in 0 .. 7, NEW lo \in 0 .. hi,
         NEW s, s = BigEndian(x, hi, lo), NEW n, n = hi - lo + 1
  PROVE  RunDown(s, x, hi, n)
<1>1. n \in Nat /\ \A i \in 1 .. n : hi + 1 - i \in 0 .. 7
  OBVIOUS
<1>2. s = [i \in 1 .. n |-> x[hi + 1 - i]]
  BY DEF BigEndian
<1>3. s \in [1 .. n -> Byte]
  BY <1>1, <1>2
<1>4. s \in Seq(Byte) /\ Len(s) = n /\ \A i \in 1 .. n : s[i] = x[hi + 1 - i]
  BY <1>1, <1>2, <1>3, SMTT(30)
<1> QED BY <1>4 DEF RunDown

(* The n low bytes of a word, the lowest first.                            *)
LEMMA LittleEndianIs ==
  ASSUME NEW x \in [0 .. 7 -> Byte], NEW n \in 0 .. 8, NEW s, s = LittleEndian(x, n)
  PROVE  RunUp(s, x, n)
<1>1. n \in Nat /\ \A i \in 1 .. n : i - 1 \in 0 .. 7
  OBVIOUS
<1>2. s = [i \in 1 .. n |-> x[i - 1]]
  BY DEF LittleEndian
<1>3. s \in [1 .. n -> Byte]
  BY <1>1, <1>2
<1>4. s \in Seq(Byte) /\ Len(s) = n /\ \A i \in 1 .. n : s[i] = x[i - 1]
  BY <1>1, <1>2, <1>3
<1> QED BY <1>4 DEF RunUp

(* A function from 1 .. n is a sequence of n elements.                     *)
LEMMA SeqIs ==
  ASSUME NEW n \in Nat, NEW s, s \in [1 .. n -> Byte]
  PROVE  s \in Seq(Byte) /\ n = Len(s)
<1>1. s \in Seq(Byte)
  OBVIOUS
<1>2. Len(s) \in Nat /\ DOMAIN s = 1 .. Len(s)
  BY <1>1, LenProperties
<1>3. DOMAIN s = 1 .. n
  OBVIOUS
<1>4. 1 .. Len(s) = 1 .. n
  BY <1>2, <1>3
<1>5. n = Len(s)
  <2>1. PICK k : k = Len(s)
    OBVIOUS
  <2>2. k \in Nat /\ 1 .. k = 1 .. n
    BY <1>2, <1>4, <2>1
  <2>3. k = n
    BY ONLY <2>2, n \in Nat
  <2> QED BY <2>1, <2>3
<1> QED BY <1>1, <1>5

(* Three bytes of an option or a table.                                    *)
LEMMA TripleIs ==
  ASSUME NEW s \in [1 .. 3 -> Byte]
  PROVE  s \in Seq(Byte) /\ Len(s) = 3
OBVIOUS

(* r is the a elements of s, then the b elements of t.                     *)
Parts(r, s, t, a, b) ==
  /\ r \in Seq(Byte) /\ Len(r) = a + b
  /\ SubSeq(r, 1, a) = s /\ SubSeq(r, a + 1, a + b) = t
  /\ \A i \in 1 .. a : r[i] = s[i]
  /\ \A i \in 1 .. b : r[a + i] = t[i]

(* The parts of a concatenation.                                           *)
LEMMA PartsOfConcat ==
  ASSUME NEW s \in Seq(Byte), NEW t \in Seq(Byte), NEW r, r = s \o t,
         NEW a, NEW b, a = Len(s), b = Len(t)
  PROVE  Parts(r, s, t, a, b)
<1>1. a \in Nat /\ b \in Nat
  BY LenProperties
<1>2. /\ r \in Seq(Byte) /\ Len(r) = a + b
      /\ \A i \in 1 .. a + b : r[i] = IF i <= a THEN s[i] ELSE t[i - a]
  BY ConcatProperties
<1>3. ASSUME NEW i \in 1 .. a PROVE r[i] = s[i]
  <2>1. i \in 1 .. a + b /\ i <= a
    BY <1>1
  <2> QED BY <2>1, <1>2
<1>4. ASSUME NEW i \in 1 .. b PROVE r[a + i] = t[i]
  <2>1. a + i \in 1 .. a + b /\ ~(a + i <= a) /\ (a + i) - a = i
    BY <1>1
  <2> QED BY <2>1, <1>2
<1>5. SubSeq(r, 1, a) = s
  <2> DEFINE u == SubSeq(r, 1, a)
  <2>1. u = [i \in 1 .. a |-> r[i]]
    BY <1>1, <1>2
  <2>2. s = [i \in 1 .. a |-> s[i]]
    BY <1>1
  <2> HIDE DEF u
  <2>3. u = s
    BY <2>1, <2>2, <1>3
  <2> QED BY <2>3 DEF u
<1>6. SubSeq(r, a + 1, a + b) = t
  <2> DEFINE u == SubSeq(r, a + 1, a + b)
  <2>0. \A i \in a + 1 .. a + b : r[i] \in Byte
    <3> SUFFICES ASSUME NEW i \in a + 1 .. a + b PROVE r[i] \in Byte
      OBVIOUS
    <3>1. i \in 1 .. Len(r)
      BY <1>1, <1>2
    <3> QED BY <3>1, <1>2
  <2>1. /\ u \in Seq(Byte)
        /\ Len(u) = (IF a + 1 <= a + b THEN a + b - (a + 1) + 1 ELSE 0)
        /\ \A i \in 1 .. a + b - (a + 1) + 1 : u[i] = r[a + 1 + i - 1]
    BY <2>0, <1>1, SubSeqProperties
  <2>2. a + b - (a + 1) + 1 = b /\ \A i \in 1 .. b : a + 1 + i - 1 = a + i
    BY <1>1
  <2>3. Len(u) = b /\ \A i \in 1 .. b : u[i] = r[a + i]
    BY <2>1, <2>2, <1>1
  <2> HIDE DEF u
  <2>4. u \in Seq(Byte) /\ Len(u) = Len(t) /\ \A i \in 1 .. Len(u) : u[i] = t[i]
    BY <2>1, <2>3, <1>4
  <2>5. u = t
    BY <2>4, SeqEqual
  <2> QED BY <2>5 DEF u
<1> QED BY <1>2, <1>3, <1>4, <1>5, <1>6 DEF Parts

(* r is the n elements of s but for the first, which is y.                 *)
Led(r, s, y, n) ==
  /\ r \in Seq(Byte) /\ Len(r) = n /\ r[1] = y
  /\ \A i \in 2 .. n : r[i] = s[i]

(* A sequence with another first element.                                  *)
LEMMA WithFirstIs ==
  ASSUME NEW s \in Seq(Byte), s # <<>>, NEW y \in Byte,
         NEW r, r = WithFirst(s, y), NEW n, n = Len(s)
  PROVE  Led(r, s, y, n)
<1>t. PICK t : t = Tail(s)
  OBVIOUS
<1>h. PICK h : h = <<y>>
  OBVIOUS
<1>1. n \in Nat /\ n > 0
  BY EmptySeq
<1>2. t \in Seq(Byte) /\ Len(t) = n - 1 /\ \A i \in 1 .. n - 1 : t[i] = s[i + 1]
  <2>1. s # <<>>
    BY s # <<>>
  <2>2. /\ t \in Seq(Byte) /\ Len(t) = Len(s) - 1
        /\ \A i \in 1 .. Len(t) : t[i] = s[i + 1]
    BY <2>1, <1>t, HeadTailProperties
  <2>3. Len(s) = n
    OBVIOUS
  <2> QED BY <2>2, <2>3
<1>3. h \in Seq(Byte) /\ Len(h) = 1 /\ h[1] = y
  BY <1>h
<1>4. r = h \o t
  <2>1. WithFirst(s, y) = <<y>> \o Tail(s)
    BY DEF WithFirst
  <2> HIDE DEF WithFirst
  <2> QED BY ONLY r = WithFirst(s, y), <2>1, <1>h, <1>t
<1>5. /\ r \in Seq(Byte) /\ Len(r) = 1 + (n - 1)
      /\ \A i \in 1 .. 1 : r[i] = h[i]
      /\ \A i \in 1 .. n - 1 : r[1 + i] = t[i]
  <2>1. PICK k : k = n - 1
    OBVIOUS
  <2>2. PICK one : one = 1
    OBVIOUS
  <2>3. /\ t \in Seq(Byte) /\ h \in Seq(Byte) /\ r = h \o t
        /\ one = Len(h) /\ k = Len(t)
    BY <1>2, <1>3, <1>4, <2>1, <2>2
  <2>4. Parts(r, h, t, one, k)
    BY ONLY <2>3, PartsOfConcat
  <2> QED BY ONLY <2>1, <2>2, <2>4 DEF Parts
<1>6. r[1] = y
  BY <1>3, <1>5
<1>7. ASSUME NEW i \in 2 .. n PROVE r[i] = s[i]
  <2>1. i - 1 \in 1 .. n - 1 /\ (i - 1) + 1 = i /\ 1 + (i - 1) = i
    BY <1>1
  <2> QED BY <2>1, <1>2, <1>5
<1>8. Len(r) = n
  BY <1>1, <1>5
<1> QED BY <1>5, <1>6, <1>7, <1>8 DEF Led

(* Three bytes of memory.                                                  *)
LEMMA SliceIs ==
  ASSUME NEW m, NEW at \in Int, \A k \in 0 .. 2 : m[at + k] \in Byte,
         NEW s, s = Slice(m, at, 3)
  PROVE  s \in Seq(Byte) /\ 3 = Len(s) /\ \A k \in 0 .. 2 : s[k + 1] = m[at + k]
<1>1. s = [i \in 1 .. 3 |-> m[at + i - 1]]
  BY DEF Slice
<1>2. \A i \in 1 .. 3 : i - 1 \in 0 .. 2 /\ at + i - 1 = at + (i - 1)
  OBVIOUS
<1>3. s \in [1 .. 3 -> Byte]
  BY <1>1, <1>2
<1>4. \A k \in 0 .. 2 : k + 1 \in 1 .. 3 /\ at + (k + 1) - 1 = at + k
  OBVIOUS
<1>5. \A k \in 0 .. 2 : s[k + 1] = m[at + k]
  BY ONLY <1>1, <1>4
<1>6. s \in Seq(Byte) /\ 3 = Len(s)
  BY ONLY <1>3, SeqIs
<1> QED BY ONLY <1>5, <1>6

(* The n elements of s are in memory from b on, the rest is what it was.   *)
Written(m, b, s, n) ==
  /\ Slice(Write(m, b, s), b, n) = s
  /\ Write(m, b, s) \in [DOMAIN m -> Byte]
  /\ \A i \in 0 .. n - 1 : Write(m, b, s)[b + i] = s[i + 1]
  /\ \A a \in DOMAIN m : a \notin b .. b + n - 1 => Write(m, b, s)[a] = m[a]

(* What is written can be read.                                            *)
LEMMA SliceOfWrite ==
  ASSUME NEW m, m \in [DOMAIN m -> Byte], DOMAIN m \subseteq Int,
         NEW s \in Seq(Byte), NEW b \in Int,
         NEW n, n = Len(s), b .. b + n - 1 \subseteq DOMAIN m
  PROVE  Written(m, b, s, n)
<1> DEFINE w == Write(m, b, s)
<1>1. n \in Nat /\ DOMAIN s = 1 .. n /\ \A i \in 1 .. n : s[i] \in Byte
  OBVIOUS
<1>2. w = [a \in DOMAIN m |-> IF a - b + 1 \in 1 .. n THEN s[a - b + 1] ELSE m[a]]
  BY <1>1 DEF Write
<1> HIDE DEF w
<1>3. \A a \in DOMAIN m : w[a] = IF a - b + 1 \in 1 .. n THEN s[a - b + 1] ELSE m[a]
  BY <1>2
<1>4. w \in [DOMAIN m -> Byte]
  BY <1>1, <1>2
<1>5. ASSUME NEW i \in 0 .. n - 1 PROVE w[b + i] = s[i + 1]
  <2>1. b + i \in b .. b + n - 1 /\ (b + i) - b + 1 = i + 1 /\ i + 1 \in 1 .. n
    BY <1>1
  <2> QED BY <2>1, <1>3
<1>6. ASSUME NEW a \in DOMAIN m, ~(a \in b .. b + n - 1) PROVE w[a] = m[a]
  <2>1. ~(a - b + 1 \in 1 .. n)
    BY <1>1, <1>6
  <2> QED BY <2>1, <1>3
<1>7. Slice(w, b, n) = s
  <2>1. Slice(w, b, n) = [i \in 1 .. n |-> w[b + i - 1]]
    BY DEF Slice
  <2>2. ASSUME NEW i \in 1 .. n PROVE w[b + i - 1] = s[i]
    <3>1. i - 1 \in 0 .. n - 1 /\ (i - 1) + 1 = i /\ b + i - 1 = b + (i - 1)
      BY <1>1
    <3> QED BY <3>1, <1>5
  <2>3. s = [i \in 1 .. n |-> s[i]]
    BY <1>1
  <2> QED BY <2>1, <2>2, <2>3
<1> QED BY <1>4, <1>5, <1>6, <1>7 DEF w, Written
-------------------------------------------------------------------------------
(* The addresses of the kinds that are made of a word.                     *)

InquiryLAP(n) == n \in 10390272 .. 10390335

(* KindRules of one address r of a call c.                                 *)
Rule(c, r) ==
  /\ c.kind \in {"MACOUI", "MACELI"} => SubSeq(r, 1, 3) = c.triple
  /\ c.kind = "MACRealOUI" =>
       /\ SubSeq(r, 1, 3) \in Universal
       /\ ~InquiryLAP(Number(SubSeq(r, 4, 6)))
  /\ c.kind = "EUI64RealOUI" =>
       /\ SubSeq(r, 1, 3) \in Universal
       /\ SubSeq(r, 4, 5) \notin {<<255, 254>>, <<255, 255>>}
  /\ c.kind = "MACAAI" => r[1] % 16 = 2
  /\ c.kind = "MACSAI" => r[1] % 16 = 14
  /\ c.kind = "EUI64" => r[1] % 4 = 2
  /\ c.kind \in {"BluetoothStatic", "BluetoothNRPA"} =>
       /\ r[1] \div 64 = (IF c.kind = "BluetoothStatic" THEN 3 ELSE 0)
       /\ \E i \in 1 .. 6 : r[i] # (IF i = 1 THEN (r[1] \div 64) * 64 ELSE 0)
       /\ \E i \in 1 .. 6 : r[i] # (IF i = 1 THEN (r[1] \div 64) * 64 + 63 ELSE 255)
  /\ c.kind = "BluetoothRPA" =>
       /\ r[1] \div 64 = 1
       /\ SubSeq(r, 1, 3) \notin {<<64, 0, 0>>, <<127, 255, 255>>}
       /\ c.irk => c.len = 16 /\ SubSeq(r, 4, 6) = Hash
  /\ c.kind = "MAC" =>
       r[1] % 4 = (IF c.local THEN 2 ELSE 0) + (IF c.multicast THEN 1 ELSE 0)

Good(c, r) == r \in Seq(Byte) /\ Len(r) = Size(c.kind) /\ Rule(c, r)

(* The constants a call uses.                                              *)
LEMMA CallTypes ==
  ASSUME NEW c \in Calls
  PROVE  /\ c.kind \in Kinds /\ c.local \in BOOLEAN /\ c.multicast \in BOOLEAN
         /\ c.irk \in BOOLEAN
         /\ c.triple \in [1 .. 3 -> Byte]
         /\ c.bits \in Nat /\ c.at \in Int /\ c.len \in Nat /\ c.capacity \in Nat
<1>1. c \in CallFields
  BY HardwareAssumption
<1> QED BY <1>1 DEF CallFields

(* A word is eight bytes.                                                  *)
LEMMA WordTypes ==
  ASSUME NEW x \in Words
  PROVE  x \in [0 .. 7 -> Byte] /\ \A k \in 0 .. 7 : x[k] \in 0 .. 255
<1>1. x \in [0 .. 7 -> Byte]
  BY HardwareAssumption
<1> QED BY <1>1 DEF Byte

(* The runs of a word that addresses are made of.                          *)
LEMMA WordRuns ==
  ASSUME NEW x \in Words
  PROVE  /\ RunDown(BigEndian(x, 2, 0), x, 2, 3) /\ RunDown(BigEndian(x, 4, 0), x, 4, 5)
         /\ RunDown(BigEndian(x, 5, 0), x, 5, 6) /\ RunDown(BigEndian(x, 6, 4), x, 6, 3)
         /\ RunDown(BigEndian(x, 7, 0), x, 7, 8)
         /\ RunUp(LittleEndian(x, 3), x, 3) /\ RunUp(LittleEndian(x, 6), x, 6)
<1>1. x \in [0 .. 7 -> Byte]
  BY WordTypes
<1>2. \A hi \in 0 .. 7 : \A lo \in 0 .. hi : \A n \in Nat :
        n = hi - lo + 1 => RunDown(BigEndian(x, hi, lo), x, hi, n)
  BY <1>1, BigEndianIs
<1>3. \A n \in 0 .. 8 : RunUp(LittleEndian(x, n), x, n)
  BY <1>1, LittleEndianIs
<1>4. RunDown(BigEndian(x, 2, 0), x, 2, 3)
  BY ONLY <1>2, SMT
<1>5. RunDown(BigEndian(x, 4, 0), x, 4, 5)
  BY ONLY <1>2, SMT
<1>6. RunDown(BigEndian(x, 5, 0), x, 5, 6)
  BY ONLY <1>2, SMT
<1>7. RunDown(BigEndian(x, 6, 4), x, 6, 3)
  BY ONLY <1>2, SMT
<1>8. RunDown(BigEndian(x, 7, 0), x, 7, 8)
  BY ONLY <1>2, SMT
<1>9. RunUp(LittleEndian(x, 3), x, 3) /\ RunUp(LittleEndian(x, 6), x, 6)
  BY ONLY <1>3, SMT
<1> QED BY <1>4, <1>5, <1>6, <1>7, <1>8, <1>9

(* Three given bytes, then bytes of the word.                              *)
LEMMA GivenOUI ==
  ASSUME NEW c \in Calls, c.kind \in {"MACOUI", "MACELI"}, NEW x \in Words, NEW o,
         NEW r, r = Address(c, x, o)
  PROVE  Good(c, r)
<1>1. c.triple \in Seq(Byte) /\ Len(c.triple) = 3
  BY CallTypes, TripleIs
<1>2. PICK t : t = LittleEndian(x, 3)
  OBVIOUS
<1>3. t \in Seq(Byte) /\ Len(t) = 3
  BY <1>2, WordRuns DEF RunUp
<1>4. r = c.triple \o t
  BY <1>2 DEF Address
<1>5. r \in Seq(Byte) /\ Len(r) = 6 /\ SubSeq(r, 1, 3) = c.triple
  <2>1. PICK s : s = c.triple
    OBVIOUS
  <2>2. s \in Seq(Byte) /\ 3 = Len(s) /\ 3 = Len(t) /\ r = s \o t
    BY <1>1, <1>3, <1>4, <2>1
  <2>3. Parts(r, s, t, 3, 3)
    BY <1>3, <2>2, PartsOfConcat
  <2> QED BY <2>1, <2>3 DEF Parts
<1> QED BY <1>5 DEF Good, Rule, Size

(* The inquiry LAPs are those whose bits from the sixth on are 0x9e8b00's. *)
LEMMA InquiryLAPs ==
  \A n \in 10390272 .. 10390335 : BluetoothInquiryLAP(n)
<1>1. 10390272 \div 64 = 162348
  BY SMT
<1>2. \A n \in 10390272 .. 10390335 : n \div 64 = 162348
  BY SMT
<1> QED BY <1>1, <1>2, SMT DEF BluetoothInquiryLAP

(* An OUI of the table, then bytes of the word.                            *)
LEMMA TableOUI ==
  ASSUME NEW c \in Calls, c.kind \in {"MACRealOUI", "EUI64RealOUI"},
         NEW x \in Words, ~Rejects(c.kind, x), NEW o \in DOMAIN OUIs,
         NEW r, r = Address(c, x, o)
  PROVE  Good(c, r)
<1>1. PICK s : s = OUIs[o]
  OBVIOUS
<1>2. s \in Universal /\ s \in Seq(Byte) /\ Len(s) = 3
  <2>1. s \in Universal
    BY <1>1 DEF Universal
  <2>2. s \in [1 .. 3 -> Byte]
    BY <2>1, HardwareAssumption
  <2> QED BY <2>1, <2>2, TripleIs
<1>3. CASE c.kind = "MACRealOUI"
  <2>1. PICK t : t = BigEndian(x, 2, 0)
    OBVIOUS
  <2>2. t \in Seq(Byte) /\ Len(t) = 3
    BY <2>1, WordRuns DEF RunDown
  <2>3. r = s \o t
    BY <1>1, <1>3, <2>1 DEF Address
  <2>4. Parts(r, s, t, 3, 3)
    <3>1. 3 = Len(s) /\ 3 = Len(t)
      BY <1>2, <2>2
    <3> QED BY <1>2, <2>2, <2>3, <3>1, PartsOfConcat
  <2>5. ~InquiryLAP(Number(t))
    <3>1. ~BluetoothInquiryLAP(Number(t))
      BY <1>3, <2>1 DEF Rejects, LAP
    <3> QED BY ONLY <3>1, InquiryLAPs, SMT DEF InquiryLAP
  <2>6. /\ r \in Seq(Byte) /\ Len(r) = 6
        /\ SubSeq(r, 1, 3) = s /\ SubSeq(r, 4, 6) = t
    BY <2>4 DEF Parts
  <2> QED BY <1>2, <1>3, <2>5, <2>6 DEF Good, Rule, Size
<1>4. CASE c.kind = "EUI64RealOUI"
  <2>1. PICK t : t = BigEndian(x, 4, 0)
    OBVIOUS
  <2>2. t \in Seq(Byte) /\ Len(t) = 5 /\ \A i \in 1 .. 5 : t[i] = x[4 + 1 - i]
    BY <2>1, WordRuns DEF RunDown
  <2>3. r = s \o t
    BY <1>1, <1>4, <2>1 DEF Address
  <2>4. Parts(r, s, t, 3, 5)
    <3>1. 3 = Len(s) /\ 5 = Len(t)
      BY <1>2, <2>2
    <3> QED BY <1>2, <2>2, <2>3, <3>1, PartsOfConcat
  <2>5. r[4] = x[4] /\ r[5] = x[3]
    <3>1. t[1] = x[4] /\ t[2] = x[3]
      BY <2>2
    <3>2. r[3 + 1] = t[1] /\ r[3 + 2] = t[2]
      BY <2>4 DEF Parts
    <3> QED BY <3>1, <3>2
  <2>6. ~(x[4] = 255 /\ x[3] >= 254)
    BY <1>4 DEF Rejects
  <2>7. SubSeq(r, 4, 5) \notin {<<255, 254>>, <<255, 255>>}
    <3>1. PICK u : u = SubSeq(r, 4, 5)
      OBVIOUS
    <3>2. u[1] = r[4] /\ u[2] = r[5]
      <4>1. r \in Seq(Byte) /\ Len(r) = 8
        BY <2>4 DEF Parts
      <4> QED BY <3>1, <4>1
    <3>3. u # <<255, 254>> /\ u # <<255, 255>>
      <4>1. u[1] # 255 \/ (u[2] # 254 /\ u[2] # 255)
        BY <2>5, <2>6, <3>2, SMT
      <4> QED BY ONLY <4>1, SMT
    <3> QED BY <3>1, <3>3
  <2>8. r \in Seq(Byte) /\ Len(r) = 8 /\ SubSeq(r, 1, 3) = s
    BY <2>4 DEF Parts
  <2> QED BY <1>2, <1>4, <2>7, <2>8 DEF Good, Rule, Size
<1> QED BY <1>3, <1>4

(* The same of a sequence whose length is known.                           *)
LEMMA LedIs ==
  ASSUME NEW s, s \in Seq(Byte), NEW n, Len(s) = n, n \in {3, 6, 8},
         NEW y, y \in Byte, NEW r, r = WithFirst(s, y)
  PROVE  Led(r, s, y, n)
<1>1. s # <<>>
  BY EmptySeq
<1>2. n = Len(s)
  OBVIOUS
<1> QED BY <1>1, <1>2, WithFirstIs

(* The low bits of the first byte are the kind's.                          *)
LEMMA LowBitsSet ==
  ASSUME NEW x \in 0 .. 255
  PROVE  /\ \A v \in 0 .. 3 : SetLow(x, 2, v) \in 0 .. 255 /\ SetLow(x, 2, v) % 4 = v
         /\ \A v \in 0 .. 15 : SetLow(x, 4, v) \in 0 .. 255 /\ SetLow(x, 4, v) % 16 = v
<1>1. \A v \in 0 .. 3 : SetLow(x, 2, v) = (x \div 4) * 4 + v
  <2>1. 2 ^ 2 = 4
    OBVIOUS
  <2> QED BY <2>1 DEF SetLow
<1>2. \A v \in 0 .. 15 : SetLow(x, 4, v) = (x \div 16) * 16 + v
  <2>1. 2 ^ 4 = 16
    OBVIOUS
  <2> QED BY <2>1 DEF SetLow
<1>3. \A v \in 0 .. 3 : (x \div 4) * 4 + v \in 0 .. 255 /\ ((x \div 4) * 4 + v) % 4 = v
  OBVIOUS
<1>4. \A v \in 0 .. 15 : (x \div 16) * 16 + v \in 0 .. 255 /\ ((x \div 16) * 16 + v) % 16 = v
  OBVIOUS
<1> QED BY <1>1, <1>2, <1>3, <1>4, SMTT(30)

(* The kinds that are a run of bytes with another first byte.              *)
LEMMA FirstByte ==
  ASSUME NEW c \in Calls, c.kind \in {"MACAAI", "MACSAI", "EUI64", "MAC"},
         NEW x \in Words, NEW o, NEW r, r = Address(c, x, o)
  PROVE  Good(c, r)
<1>1. /\ x \in [0 .. 7 -> Byte]
      /\ x[5] \in 0 .. 255 /\ x[7] \in 0 .. 255
  BY WordTypes
<1>2. PICK six : six = BigEndian(x, 5, 0)
  OBVIOUS
<1>3. six \in Seq(Byte) /\ Len(six) = 6 /\ six[1] = x[5]
  <2>1. RunDown(six, x, 5, 6)
    BY <1>2, WordRuns
  <2>2. six[1] = x[5 + 1 - 1]
    BY <2>1 DEF RunDown
  <2> QED BY <2>1, <2>2 DEF RunDown
<1>4. ASSUME NEW v \in 0 .. 15, NEW y, y = SetLow(six[1], 4, v), r = WithFirst(six, y)
      PROVE  r \in Seq(Byte) /\ Len(r) = 6 /\ r[1] % 16 = v
  <2>1. y \in Byte /\ y % 16 = v
    BY <1>1, <1>3, <1>4, LowBitsSet, ZenonT(40) DEF Byte
  <2>2. Led(r, six, y, 6)
    <3>1. 6 \in {3, 6, 8}
      OBVIOUS
    <3> QED BY ONLY <1>3, <1>4, <2>1, <3>1, LedIs, Zenon
  <2> QED BY <2>1, <2>2 DEF Led
<1>5. ASSUME NEW v \in 0 .. 3, NEW y, y = SetLow(six[1], 2, v), r = WithFirst(six, y)
      PROVE  r \in Seq(Byte) /\ Len(r) = 6 /\ r[1] % 4 = v
  <2>1. y \in Byte /\ y % 4 = v
    BY <1>1, <1>3, <1>5, LowBitsSet, ZenonT(40) DEF Byte
  <2>2. Led(r, six, y, 6)
    <3>1. 6 \in {3, 6, 8}
      OBVIOUS
    <3> QED BY ONLY <1>3, <1>5, <2>1, <3>1, LedIs, Zenon
  <2> QED BY <2>1, <2>2 DEF Led
<1>6. CASE c.kind = "MACAAI"
  <2>1. r = WithFirst(six, SetLow(six[1], 4, 2))
    BY <1>2, <1>6 DEF Address
  <2>2. r \in Seq(Byte) /\ Len(r) = 6 /\ r[1] % 16 = 2
    BY <1>4, <2>1
  <2> QED BY <1>6, <2>2 DEF Good, Rule, Size
<1>7. CASE c.kind = "MACSAI"
  <2>1. r = WithFirst(six, SetLow(six[1], 4, 14))
    BY <1>2, <1>7 DEF Address
  <2>2. r \in Seq(Byte) /\ Len(r) = 6 /\ r[1] % 16 = 14
    BY <1>4, <2>1
  <2> QED BY <1>7, <2>2 DEF Good, Rule, Size
<1>8. CASE c.kind = "MAC"
  <2> DEFINE v == (IF c.local THEN 2 ELSE 0) + (IF c.multicast THEN 1 ELSE 0)
  <2>1. r = WithFirst(six, SetLow(six[1], 2, v))
    BY <1>2, <1>8 DEF Address
  <2>2. v \in 0 .. 3
    BY CallTypes
  <2> HIDE DEF v
  <2>3. r \in Seq(Byte) /\ Len(r) = 6 /\ r[1] % 4 = v
    BY <1>5, <2>1, <2>2
  <2> QED BY <1>8, <2>3 DEF Good, Rule, Size, v
<1>9. CASE c.kind = "EUI64"
  <2>1. PICK e : e = BigEndian(x, 7, 0)
    OBVIOUS
  <2>2. PICK y : y = SetLow(x[7], 2, 2)
    OBVIOUS
  <2>3. r = WithFirst(e, y)
    BY <1>9, <2>1, <2>2 DEF Address
  <2>4. e \in Seq(Byte) /\ Len(e) = 8
    BY <2>1, WordRuns DEF RunDown
  <2>5. y \in Byte /\ y % 4 = 2
    <3>1. PICK v : v = x[7]
      OBVIOUS
    <3>2. v \in 0 .. 255
      BY <1>1, <3>1
    <3>3. 2 \in 0 .. 3
      BY SMTT(30)
    <3>4. SetLow(v, 2, 2) \in 0 .. 255 /\ SetLow(v, 2, 2) % 4 = 2
      BY ONLY <3>2, <3>3, LowBitsSet
    <3> QED BY ONLY <2>2, <3>1, <3>4 DEF Byte
  <2>6. Led(r, e, y, 8)
    <3>1. 8 \in {3, 6, 8}
      OBVIOUS
    <3> QED BY ONLY <2>3, <2>4, <2>5, <3>1, LedIs, Zenon
  <2>7. r \in Seq(Byte) /\ Len(r) = 8 /\ r[1] % 4 = 2
    BY <2>5, <2>6 DEF Led
  <2> QED BY <1>9, <2>7 DEF Good, Rule, Size
<1> QED BY <1>6, <1>7, <1>8, <1>9

(* random46: 46 bits of a word that are not all equal.                     *)
LEMMA LowBits46Is ==
  ASSUME NEW x \in Words, NEW l, l = LowBits46(x)
  PROVE  /\ l \in Seq(Byte) /\ Len(l) = 6 /\ l[1] \in 0 .. 63
<1>1. PICK t : t = BigEndian(x, 4, 0)
  OBVIOUS
<1>2. t \in Seq(Byte) /\ Len(t) = 5
  BY <1>1, WordRuns DEF RunDown
<1>3. PICK y : y = x[5] % 64
  OBVIOUS
<1>4. y \in 0 .. 63
  BY <1>3, WordTypes
<1>5. PICK h : h = <<y>>
  OBVIOUS
<1>6. h \in Seq(Byte) /\ 1 = Len(h) /\ h[1] = y
  BY <1>4, <1>5 DEF Byte
<1>7. l = h \o t
  BY <1>1, <1>3, <1>5 DEF LowBits46
<1>8. 5 = Len(t)
  BY <1>2
<1>9. Parts(l, h, t, 1, 5)
  BY <1>2, <1>6, <1>7, <1>8, PartsOfConcat
<1>10. l \in Seq(Byte) /\ Len(l) = 6 /\ l[1] = h[1]
  BY <1>9 DEF Parts
<1> QED BY <1>4, <1>6, <1>10

(* A Bluetooth address of which neither all random bits are 0 nor all 1.   *)
LEMMA Random46 ==
  ASSUME NEW c \in Calls, c.kind \in {"BluetoothStatic", "BluetoothNRPA"},
         NEW x \in Words, ~Rejects(c.kind, x), NEW o, NEW r, r = Address(c, x, o)
  PROVE  Good(c, r)
<1>1. PICK l : l = LowBits46(x)
  OBVIOUS
<1>2. /\ l \in Seq(Byte) /\ Len(l) = 6 /\ l[1] \in 0 .. 63
  BY <1>1, LowBits46Is
<1>3. ~AllZero46(l) /\ ~AllOne46(l)
  BY <1>1 DEF Rejects
<1>4. PICK a \in 1 .. 6 : l[a] # 0
  BY <1>3 DEF AllZero46
<1>5. PICK b \in 1 .. 6 : l[b] # (IF b = 1 THEN 63 ELSE 255)
  <2>1. CASE l[1] # 63
    BY <2>1
  <2>2. CASE \E i \in 2 .. 6 : l[i] # 255
    BY <2>2
  <2> QED BY <1>3, <2>1, <2>2 DEF AllOne46
<1>6. ASSUME c.kind = "BluetoothStatic" PROVE Good(c, r)
  <2>1. PICK y : y = l[1] + 192
    OBVIOUS
  <2>2. r = WithFirst(l, y)
    BY <1>1, <1>6, <2>1 DEF Address
  <2>3. y \in Byte /\ y \div 64 = 3
    <3>1. \A u \in 0 .. 63 : u + 192 \in 0 .. 255 /\ (u + 192) \div 64 = 3
      BY SMT
    <3> QED BY ONLY <1>2, <2>1, <3>1 DEF Byte
  <2>4. /\ r \in Seq(Byte) /\ Len(r) = 6 /\ r[1] = y
        /\ \A i \in 2 .. 6 : r[i] = l[i]
    <3>1. 6 \in {3, 6, 8}
      OBVIOUS
    <3>2. Led(r, l, y, 6)
      BY ONLY <1>2, <2>2, <2>3, <3>1, LedIs, Zenon
    <3> QED BY <3>2 DEF Led
  <2>5. r[a] # (IF a = 1 THEN 192 ELSE 0)
    <3>1. a \in 1 .. 6
      OBVIOUS
    <3>2. a = 1 \/ a \in 2 .. 6
      BY ONLY <3>1
    <3>3. l[1] # 0 => l[1] + 192 # 192
      <4>1. PICK k : k = l[1]
        OBVIOUS
      <4>2. k \in 0 .. 63
        BY ONLY <1>2, <4>1
      <4>3. k # 0 => k + 192 # 192
        BY ONLY <4>2, SMT
      <4> QED BY ONLY <4>1, <4>3
    <3> QED BY ONLY <1>4, <2>1, <2>4, <3>2, <3>3
  <2>6. r[b] # (IF b = 1 THEN 255 ELSE 255)
    <3>1. b \in 1 .. 6
      OBVIOUS
    <3>2. b = 1 \/ b \in 2 .. 6
      BY ONLY <3>1
    <3>3. l[1] # 63 => l[1] + 192 # 255
      <4>1. PICK k : k = l[1]
        OBVIOUS
      <4>2. k \in 0 .. 63
        BY ONLY <1>2, <4>1
      <4>3. k # 63 => k + 192 # 255
        BY ONLY <4>2, SMT
      <4> QED BY ONLY <4>1, <4>3
    <3> QED BY ONLY <1>5, <2>1, <2>4, <3>2, <3>3
  <2>7. (r[1] \div 64) * 64 = 192 /\ (r[1] \div 64) * 64 + 63 = 255
    BY <2>3, <2>4
  <2>8. /\ \E i \in 1 .. 6 : r[i] # (IF i = 1 THEN (r[1] \div 64) * 64 ELSE 0)
        /\ \E i \in 1 .. 6 : r[i] # (IF i = 1 THEN (r[1] \div 64) * 64 + 63 ELSE 255)
    BY <2>5, <2>6, <2>7
  <2> QED BY <1>6, <2>3, <2>4, <2>8 DEF Good, Rule, Size
<1>7. ASSUME c.kind = "BluetoothNRPA" PROVE Good(c, r)
  <2>1. r = l
    BY <1>1, <1>7 DEF Address
  <2>2. r[1] \div 64 = 0
    <3>1. \A u \in 0 .. 63 : u \div 64 = 0
      BY SMT
    <3> QED BY ONLY <1>2, <2>1, <3>1
  <2>3. (r[1] \div 64) * 64 = 0 /\ (r[1] \div 64) * 64 + 63 = 63
    BY <2>2
  <2>4. /\ \E i \in 1 .. 6 : r[i] # (IF i = 1 THEN (r[1] \div 64) * 64 ELSE 0)
        /\ \E i \in 1 .. 6 : r[i] # (IF i = 1 THEN (r[1] \div 64) * 64 + 63 ELSE 255)
    BY <1>4, <1>5, <2>1, <2>3
  <2> QED BY <1>2, <1>7, <2>1, <2>2, <2>4 DEF Good, Rule, Size
<1> QED BY <1>6, <1>7

(* A resolvable private address: prand, and the hash if there is an IRK.   *)
LEMMA Resolvable ==
  ASSUME NEW c \in Calls, c.kind = "BluetoothRPA", ~Refuses(c),
         NEW x \in Words, ~Rejects(c.kind, x), NEW o, NEW r, r = Address(c, x, o)
  PROVE  Good(c, r)
<1>1. /\ x \in [0 .. 7 -> Byte]
      /\ x[0] \in 0 .. 255 /\ x[1] \in 0 .. 255 /\ x[2] \in 0 .. 255
  BY WordTypes
<1>2. PICK u : u = x[2] % 64
  OBVIOUS
<1>3. u \in 0 .. 63
  BY <1>1, <1>2
<1>4. PICK p : p = <<u, x[1], x[0]>>
  OBVIOUS
<1>5. p \in Seq(Byte) /\ Len(p) = 3 /\ p[1] = u /\ p[2] = x[1] /\ p[3] = x[0]
  BY <1>1, <1>3, <1>4 DEF Byte
<1>6. Prand(x) = p
  BY <1>2, <1>4 DEF Prand
<1>7. p # <<0, 0, 0>> /\ p # <<63, 255, 255>>
  BY <1>6 DEF Rejects
<1>8. PICK y : y = u + 64
  OBVIOUS
<1>9. PICK s : s = WithFirst(p, y)
  OBVIOUS
<1>10. y \in Byte /\ y \div 64 = 1
  BY <1>3, <1>8 DEF Byte
<1>11. /\ s \in Seq(Byte) /\ Len(s) = 3 /\ s[1] = y
       /\ \A i \in 2 .. 3 : s[i] = p[i]
  <2>1. Led(s, p, y, 3)
    <3>1. 3 \in {3, 6, 8}
      OBVIOUS
    <3> QED BY ONLY <1>5, <1>9, <1>10, <3>1, LedIs, Zenon
  <2> QED BY <2>1 DEF Led
<1>12. PICK t : t = IF c.irk THEN Hash ELSE BigEndian(x, 6, 4)
  OBVIOUS
<1>13. t \in Seq(Byte) /\ Len(t) = 3
  <2>1. Hash \in Seq(Byte) /\ Len(Hash) = 3
    BY HardwareAssumption, TripleIs
  <2>2. PICK e : e = BigEndian(x, 6, 4)
    OBVIOUS
  <2>3. e \in Seq(Byte) /\ Len(e) = 3
    BY <2>2, WordRuns DEF RunDown
  <2> QED BY <1>12, <2>1, <2>2, <2>3
<1>14. r = s \o t
  <2>1. r = WithFirst(Prand(x), Prand(x)[1] + 64) \o t
    BY <1>12 DEF Address
  <2>2. Prand(x)[1] + 64 = y
    BY <1>5, <1>6, <1>8
  <2> QED BY <1>6, <1>9, <2>1, <2>2
<1>15. /\ r \in Seq(Byte) /\ Len(r) = 6
       /\ SubSeq(r, 1, 3) = s /\ SubSeq(r, 4, 6) = t
       /\ r[1] = s[1]
  <2>1. 3 = Len(s) /\ 3 = Len(t)
    BY <1>11, <1>13
  <2>2. Parts(r, s, t, 3, 3)
    BY <1>11, <1>13, <1>14, <2>1, PartsOfConcat
  <2> QED BY <2>2 DEF Parts
<1>16. s # <<64, 0, 0>> /\ s # <<127, 255, 255>>
  <2>1. ASSUME s = <<64, 0, 0>> PROVE FALSE
    <3>1. s[1] = 64 /\ s[2] = 0 /\ s[3] = 0
      BY <2>1
    <3>2. u = 0 /\ x[1] = 0 /\ x[0] = 0
      BY <1>3, <1>5, <1>8, <1>11, <3>1
    <3> QED BY <1>4, <1>7, <3>2
  <2>2. ASSUME s = <<127, 255, 255>> PROVE FALSE
    <3>1. s[1] = 127 /\ s[2] = 255 /\ s[3] = 255
      BY <2>2
    <3>2. u = 63 /\ x[1] = 255 /\ x[0] = 255
      BY <1>3, <1>5, <1>8, <1>11, <3>1
    <3> QED BY <1>4, <1>7, <3>2
  <2> QED BY <2>1, <2>2
<1>17. r[1] \div 64 = 1
  BY <1>10, <1>11, <1>15
<1>18. c.irk => c.len = 16 /\ SubSeq(r, 4, 6) = Hash
  <2>1. c.irk => c.len = 16
    BY DEF Refuses
  <2> QED BY <1>12, <1>15, <2>1
<1> QED BY <1>15, <1>16, <1>17, <1>18 DEF Good, Rule, Size

(* Every kind that is made of a word keeps its rule.                       *)
LEMMA AddressIsGood ==
  ASSUME NEW c \in Calls, c.kind \notin FromMAC \union {"MACPrefix"}, ~Refuses(c),
         NEW x \in Words, ~Rejects(c.kind, x), NEW o \in DOMAIN OUIs,
         NEW r, r = Address(c, x, o)
  PROVE  Good(c, r)
<1>1. c.kind \in {"MACOUI", "MACELI"} \union {"MACRealOUI", "EUI64RealOUI"}
        \union {"MACAAI", "MACSAI", "EUI64", "MAC"}
        \union {"BluetoothStatic", "BluetoothNRPA"} \union {"BluetoothRPA"}
  BY CallTypes DEF Kinds
<1> QED BY <1>1, GivenOUI, TableOUI, FirstByte, Random46, Resolvable
-------------------------------------------------------------------------------
(* HardwareMACPrefix.                                                      *)

(* The first rem bits of u, then the rest of v.                            *)
Mix(u, v, rem) == (u \div 2 ^ (8 - rem)) * 2 ^ (8 - rem) + (v % 2 ^ (8 - rem))

BitOf(u, j) == (u \div 2 ^ (7 - j)) % 2

Quotient(n, p) == n \div p
Remainder(n, p) == n % p

(* The quotients of n by powers of 2 follow from smaller ones, the         *)
(* remainders from larger ones; a bit follows from either.                 *)
Halved(n) ==
  /\ Quotient(n, 2) = Quotient(Quotient(n, 1), 2)
  /\ Remainder(n, 1) = Remainder(Remainder(n, 2), 1)
  /\ Quotient(n, 4) = Quotient(Quotient(n, 2), 2)
  /\ Remainder(n, 2) = Remainder(Remainder(n, 4), 2)
  /\ Quotient(n, 8) = Quotient(Quotient(n, 4), 2)
  /\ Remainder(n, 4) = Remainder(Remainder(n, 8), 4)
  /\ Quotient(n, 16) = Quotient(Quotient(n, 8), 2)
  /\ Remainder(n, 8) = Remainder(Remainder(n, 16), 8)
  /\ Quotient(n, 32) = Quotient(Quotient(n, 16), 2)
  /\ Remainder(n, 16) = Remainder(Remainder(n, 32), 16)
  /\ Quotient(n, 64) = Quotient(Quotient(n, 32), 2)
  /\ Remainder(n, 32) = Remainder(Remainder(n, 64), 32)
  /\ Quotient(n, 128) = Quotient(Quotient(n, 64), 2)
  /\ Remainder(n, 64) = Remainder(Remainder(n, 128), 64)
  /\ Remainder(Quotient(n, 1), 2) = Quotient(Remainder(n, 2), 1)
  /\ Remainder(Quotient(n, 2), 2) = Quotient(Remainder(n, 4), 2)
  /\ Remainder(Quotient(n, 4), 2) = Quotient(Remainder(n, 8), 4)
  /\ Remainder(Quotient(n, 8), 2) = Quotient(Remainder(n, 16), 8)
  /\ Remainder(Quotient(n, 16), 2) = Quotient(Remainder(n, 32), 16)
  /\ Remainder(Quotient(n, 32), 2) = Quotient(Remainder(n, 64), 32)
  /\ Remainder(Quotient(n, 64), 2) = Quotient(Remainder(n, 128), 64)
  /\ Remainder(Quotient(n, 128), 2) = Quotient(Remainder(n, 256), 128)

(* A byte keeps its quotients and remainders.                              *)
LEMMA HalvedByte ==
  ASSUME NEW n \in 0 .. 255
  PROVE  Halved(n)
BY DEF Halved, Quotient, Remainder

(* Powers of 2 up to a byte's.                                             *)
LEMMA Powers ==
  /\ 2 ^ 0 = 1 /\ 2 ^ 1 = 2 /\ 2 ^ 2 = 4 /\ 2 ^ 3 = 8
  /\ 2 ^ 4 = 16 /\ 2 ^ 5 = 32 /\ 2 ^ 6 = 64 /\ 2 ^ 7 = 128
OBVIOUS

(* Bit j of a mixed byte is that of one or the other.                      *)
LEMMA MixBits ==
  ASSUME NEW u \in 0 .. 255, NEW v \in 0 .. 255, NEW rem \in 1 .. 7, NEW j \in 0 .. 7
  PROVE  BitOf(Mix(u, v, rem), j) = IF j < rem THEN BitOf(u, j) ELSE BitOf(v, j)
<1>1. PICK p : p = 2 ^ (8 - rem)
  OBVIOUS
<1>2. PICK q : q = 2 ^ (7 - j)
  OBVIOUS
<1>3. PICK e : e = (u \div p) * p + (v % p)
  OBVIOUS
<1>4. Mix(u, v, rem) = e
  BY <1>1, <1>3 DEF Mix
<1>5. ASSUME rem = 1 PROVE p = 128
  BY <1>1, <1>5, Powers
<1>6. ASSUME rem = 2 PROVE p = 64
  BY <1>1, <1>6, Powers
<1>7. ASSUME rem = 3 PROVE p = 32
  BY <1>1, <1>7, Powers
<1>8. ASSUME rem = 4 PROVE p = 16
  BY <1>1, <1>8, Powers
<1>9. ASSUME rem = 5 PROVE p = 8
  BY <1>1, <1>9, Powers
<1>10. ASSUME rem = 6 PROVE p = 4
  BY <1>1, <1>10, Powers
<1>11. ASSUME rem = 7 PROVE p = 2
  BY <1>1, <1>11, Powers
<1>12. ASSUME j = 0 PROVE q = 128
  BY <1>2, <1>12, Powers
<1>13. ASSUME j = 1 PROVE q = 64
  BY <1>2, <1>13, Powers
<1>14. ASSUME j = 2 PROVE q = 32
  BY <1>2, <1>14, Powers
<1>15. ASSUME j = 3 PROVE q = 16
  BY <1>2, <1>15, Powers
<1>16. ASSUME j = 4 PROVE q = 8
  BY <1>2, <1>16, Powers
<1>17. ASSUME j = 5 PROVE q = 4
  BY <1>2, <1>17, Powers
<1>18. ASSUME j = 6 PROVE q = 2
  BY <1>2, <1>18, Powers
<1>19. ASSUME j = 7 PROVE q = 1
  BY <1>2, <1>19, Powers
<1>20. /\ p \in {2, 4, 8, 16, 32, 64, 128} /\ q \in {1, 2, 4, 8, 16, 32, 64, 128}
       /\ (j < rem <=> p <= q)
  BY <1>5, <1>6, <1>7, <1>8, <1>9, <1>10, <1>11, <1>12, <1>13,
     <1>14, <1>15, <1>16, <1>17, <1>18, <1>19
<1>21. e \in 0 .. 255 /\ e \div p = u \div p /\ e % p = v % p
  <2>1. CASE p = 2
    BY <1>3, <2>1
  <2>2. CASE p = 4
    BY <1>3, <2>2
  <2>3. CASE p = 8
    BY <1>3, <2>3
  <2>4. CASE p = 16
    BY <1>3, <2>4
  <2>5. CASE p = 32
    BY <1>3, <2>5
  <2>6. CASE p = 64
    BY <1>3, <2>6
  <2>7. CASE p = 128
    BY <1>3, <2>7
  <2> QED BY <1>20, <2>1, <2>2, <2>3, <2>4, <2>5, <2>6, <2>7
<1>22. Halved(e) /\ Halved(u) /\ Halved(v)
  BY <1>21, HalvedByte
<1>23. Quotient(e, p) = Quotient(u, p) /\ Remainder(e, p) = Remainder(v, p)
  BY <1>21 DEF Quotient, Remainder
<1>24. Remainder(Quotient(e, q), 2)
         = IF p <= q THEN Remainder(Quotient(u, q), 2) ELSE Remainder(Quotient(v, q), 2)
  <2>1. CASE p = 2
    BY ONLY <1>20, <1>22, <1>23, <2>1, SMT DEF Halved
  <2>2. CASE p = 4
    BY ONLY <1>20, <1>22, <1>23, <2>2, SMT DEF Halved
  <2>3. CASE p = 8
    BY ONLY <1>20, <1>22, <1>23, <2>3, SMT DEF Halved
  <2>4. CASE p = 16
    BY ONLY <1>20, <1>22, <1>23, <2>4, SMT DEF Halved
  <2>5. CASE p = 32
    BY ONLY <1>20, <1>22, <1>23, <2>5, SMT DEF Halved
  <2>6. CASE p = 64
    BY ONLY <1>20, <1>22, <1>23, <2>6, SMT DEF Halved
  <2>7. CASE p = 128
    BY ONLY <1>20, <1>22, <1>23, <2>7, SMT DEF Halved
  <2> QED BY <1>20, <2>1, <2>2, <2>3, <2>4, <2>5, <2>6, <2>7
<1> QED BY <1>2, <1>4, <1>20, <1>24 DEF BitOf, Quotient, Remainder

(* A mixed byte is a byte.                                                 *)
LEMMA MixIsByte ==
  ASSUME NEW u \in 0 .. 255, NEW v \in 0 .. 255, NEW rem \in 1 .. 7
  PROVE  Mix(u, v, rem) \in 0 .. 255
<1>1. PICK p : p = 2 ^ (8 - rem)
  OBVIOUS
<1>2. p \in {2, 4, 8, 16, 32, 64, 128}
  <2>1. CASE rem = 1
    <3>1. 8 - rem = 7
      BY <2>1
    <3> QED BY <1>1, <3>1, Powers, ZenonT(40)
  <2>2. CASE rem = 2
    <3>1. 8 - rem = 6
      BY <2>2
    <3> QED BY <1>1, <3>1, Powers, ZenonT(40)
  <2>3. CASE rem = 3
    <3>1. 8 - rem = 5
      BY <2>3
    <3> QED BY <1>1, <3>1, Powers
  <2>4. CASE rem = 4
    <3>1. 8 - rem = 4
      BY <2>4
    <3> QED BY <1>1, <3>1, Powers
  <2>5. CASE rem = 5
    <3>1. 8 - rem = 3
      BY <2>5
    <3> QED BY <1>1, <3>1, Powers
  <2>6. CASE rem = 6
    <3>1. 8 - rem = 2
      BY <2>6
    <3> QED BY <1>1, <3>1, Powers
  <2>7. CASE rem = 7
    <3>1. 8 - rem = 1
      BY <2>7
    <3> QED BY <1>1, <3>1, Powers
  <2> QED BY <2>1, <2>2, <2>3, <2>4, <2>5, <2>6, <2>7
<1>3. (u \div p) * p + (v % p) \in 0 .. 255
  BY <1>2
<1> QED BY <1>1, <1>3 DEF Mix

(* The six or eight bytes an address is written to lie in memory.          *)
LEMMA TargetInMemory ==
  ASSUME NEW c \in Calls, NEW m \in Inputs, NEW n \in {6, 8},
         NEW b, b = FixedBytes(c.capacity, n)
  PROVE  /\ b \in Int /\ b .. b + n - 1 \subseteq DOMAIN m
         /\ m \in [DOMAIN m -> Byte] /\ DOMAIN m \subseteq Int
<1>1. /\ m \in [DOMAIN m -> Byte] /\ DOMAIN m \subseteq Int
      /\ Fresh .. Fresh + 7 \subseteq DOMAIN m /\ 0 .. c.capacity - 1 \subseteq DOMAIN m
  BY MemoryAssumption
<1>2. c.capacity \in Nat
  BY CallTypes
<1>3. PICK k : k = c.capacity
  OBVIOUS
<1>4. CASE k < n
  <2>1. b = 100
    BY <1>3, <1>4 DEF FixedBytes, Fresh
  <2>2. 100 .. 100 + 7 \subseteq DOMAIN m
    BY <1>1 DEF Fresh
  <2>3. b .. b + n - 1 \subseteq 100 .. 100 + 7
    BY <2>1
  <2> QED BY <1>1, <2>1, <2>2, <2>3
<1>5. CASE ~(k < n)
  <2>1. b = 0
    BY <1>3, <1>5 DEF FixedBytes
  <2>2. b .. b + n - 1 \subseteq 0 .. k - 1
    BY <1>2, <1>3, <1>5, <2>1
  <2> QED BY <1>1, <1>3, <2>1, <2>2
<1> QED BY <1>4, <1>5
(* What HardwareMACPrefix leaves in dst: the full bytes of the prefix, a   *)
(* byte of its last bits and random ones, random bytes.                    *)
PrefixThenRandom(w, b, p, at, full, rem, x) ==
  \A k \in 0 .. 5 :
    w[b + k] = IF k < full THEN p[at + k]
               ELSE IF k = full /\ rem > 0 THEN Mix(p[at + k], x[k], rem)
               ELSE x[k]

(* The bits wanted, in bytes, and the prefix has them.                     *)
PrefixLengths(c, full, rem) ==
  /\ full \in 0 .. 6 /\ rem \in 0 .. 7 /\ c.bits = 8 * full + rem
  /\ full <= c.len /\ (rem > 0 => full + 1 <= c.len /\ full <= 5)

(* A prefix that is not refused is long enough.                            *)
LEMMA PrefixLongEnough ==
  ASSUME NEW c \in Calls, c.kind = "MACPrefix", ~Refuses(c),
         NEW full, full = c.bits \div 8, NEW rem, rem = c.bits % 8
  PROVE  PrefixLengths(c, full, rem)
<1>1. PICK bits : bits = c.bits
  OBVIOUS
<1>2. PICK len : len = c.len
  OBVIOUS
<1>3. bits \in 1 .. 48 /\ len \in Nat /\ len * 8 >= bits
  <2>1. c.bits \in 1 .. 48 /\ ~(c.len * 8 < c.bits)
    BY DEF Refuses
  <2>2. c.len \in Nat
    BY CallTypes
  <2> QED BY ONLY <1>1, <1>2, <2>1, <2>2
<1>4. full = bits \div 8 /\ rem = bits % 8
  BY <1>1
<1>5. /\ full \in 0 .. 6 /\ rem \in 0 .. 7 /\ bits = 8 * full + rem
      /\ full <= len /\ (rem > 0 => full + 1 <= len /\ full <= 5)
  BY ONLY <1>3, <1>4, SMT
<1> QED BY ONLY <1>1, <1>2, <1>5 DEF PrefixLengths

(* Each byte of an address with a prefix that lies outside dst.            *)
LEMMA PrefixBytes ==
  ASSUME NEW c \in Calls, c.kind = "MACPrefix", NEW m \in Inputs, NEW x \in Words,
         NEW b, b = FixedBytes(c.capacity, 6), Disjoint(b, 6, c.at, c.len),
         NEW full, full = c.bits \div 8, NEW rem, rem = c.bits % 8,
         PrefixLengths(c, full, rem),
         NEW w, w = PutPrefix(m, b, c, x)
  PROVE  PrefixThenRandom(w, b, m, c.at, full, rem, x) /\ w \in [DOMAIN m -> Byte]
<1>1. PICK at : at = c.at
  OBVIOUS
<1>2. PICK len : len = c.len
  OBVIOUS
<1>3. /\ at \in Int /\ len \in Nat /\ (b + 6 <= at \/ at + len <= b)
      /\ full \in 0 .. 6 /\ rem \in 0 .. 7
      /\ full <= len /\ (rem > 0 => full + 1 <= len /\ full <= 5)
  BY <1>1, <1>2, CallTypes DEF Disjoint, PrefixLengths
<1>4. /\ b \in Int /\ b .. b + 6 - 1 \subseteq DOMAIN m
      /\ m \in [DOMAIN m -> Byte] /\ DOMAIN m \subseteq Int
  <2>1. 6 \in {6, 8}
    OBVIOUS
  <2> QED BY <2>1, TargetInMemory
<1>5. at .. at + len - 1 \subseteq DOMAIN m
  BY <1>1, <1>2, MemoryAssumption
<1>6. PICK f : f = Write(m, b, LittleEndian(x, 6))
  OBVIOUS
<1>7. PICK d : d = DOMAIN m
  OBVIOUS
<1>8. /\ f \in [d -> Byte]
      /\ \A k \in 0 .. 5 : f[b + k] = x[k]
      /\ \A a \in d : a \notin b .. b + 5 => f[a] = m[a]
  <2>1. PICK t : t = LittleEndian(x, 6)
    OBVIOUS
  <2>2. t \in Seq(Byte) /\ 6 = Len(t) /\ \A i \in 1 .. 6 : t[i] = x[i - 1]
    BY <2>1, WordRuns DEF RunUp
  <2>3. Written(m, b, t, 6)
    BY <1>4, <2>2, SliceOfWrite
  <2>4. /\ f \in [DOMAIN m -> Byte]
        /\ \A i \in 0 .. 6 - 1 : f[b + i] = t[i + 1]
        /\ \A a \in DOMAIN m : a \notin b .. b + 6 - 1 => f[a] = m[a]
    BY ONLY <1>6, <2>1, <2>3 DEF Written
  <2>5. \A k \in 0 .. 5 : k \in 0 .. 6 - 1 /\ k + 1 \in 1 .. 6 /\ (k + 1) - 1 = k
    OBVIOUS
  <2>6. \A k \in 0 .. 5 : f[b + k] = x[k]
    BY ONLY <2>2, <2>4, <2>5
  <2>7. b + 6 - 1 = b + 5
    BY <1>4
  <2> QED BY ONLY <1>7, <2>4, <2>6, <2>7
<1>9. PICK s : s = Slice(f, at, full)
  OBVIOUS
<1>10. ASSUME NEW a \in at .. at + len - 1 PROVE a \in d /\ a \notin b .. b + 5 /\ a \in Int
  BY <1>3, <1>4, <1>5, <1>7
<1>11. /\ s \in Seq(Byte) /\ full = Len(s)
       /\ \A i \in 1 .. full : s[i] = m[at + i - 1]
  <2>1. s = [i \in 1 .. full |-> f[at + i - 1]]
    BY <1>9 DEF Slice
  <2>2. \A i \in 1 .. full : at + i - 1 \in at .. at + len - 1
    BY <1>3
  <2>3. \A i \in 1 .. full : f[at + i - 1] \in Byte /\ f[at + i - 1] = m[at + i - 1]
    BY <1>8, <1>10, <2>2
  <2>4. s \in [1 .. full -> Byte]
    BY ONLY <2>1, <2>3
  <2>5. full \in Nat
    BY <1>3
  <2>6. s \in Seq(Byte) /\ Len(s) = full
    BY ONLY <2>4, <2>5
  <2> QED BY <2>1, <2>3, <2>6
<1>12. PICK g : g = Write(f, b, s)
  OBVIOUS
<1>13. /\ g \in [d -> Byte]
       /\ \A k \in 0 .. full - 1 : g[b + k] = m[at + k]
       /\ \A k \in full .. 5 : g[b + k] = x[k]
       /\ \A a \in at .. at + len - 1 : g[a] = m[a]
  <2>1. /\ DOMAIN f = d /\ d \subseteq Int /\ f \in [DOMAIN f -> Byte]
        /\ b .. b + full - 1 \subseteq d
    BY <1>3, <1>4, <1>7, <1>8
  <2>2. Written(f, b, s, full)
    BY <1>4, <1>11, <2>1, SliceOfWrite
  <2>3. /\ g \in [d -> Byte]
        /\ \A i \in 0 .. full - 1 : g[b + i] = s[i + 1]
        /\ \A a \in d : a \notin b .. b + full - 1 => g[a] = f[a]
    BY ONLY <1>12, <2>1, <2>2 DEF Written
  <2>4. ASSUME NEW k \in 0 .. full - 1 PROVE g[b + k] = m[at + k]
    <3>1. k + 1 \in 1 .. full /\ at + (k + 1) - 1 = at + k
      BY <1>3
    <3> QED BY <1>11, <2>3, <3>1
  <2>5. ASSUME NEW k \in full .. 5 PROVE g[b + k] = x[k]
    <3>1. b + k \in d /\ b + k \notin b .. b + full - 1 /\ k \in 0 .. 5
      BY <1>3, <1>4, <1>7
    <3> QED BY <1>8, <2>3, <3>1
  <2>6. ASSUME NEW a \in at .. at + len - 1 PROVE g[a] = m[a]
    <3>1. a \notin b .. b + full - 1
      BY <1>3, <1>4, <1>10
    <3> QED BY <1>8, <1>10, <2>3, <3>1
  <2> QED BY <2>3, <2>4, <2>5, <2>6
<1>14. CASE rem = 0
  <2>1. w = g
    BY <1>1, <1>6, <1>9, <1>12, <1>14 DEF PutPrefix
  <2>2. ASSUME NEW k \in 0 .. 5 PROVE w[b + k] = IF k < full THEN m[at + k] ELSE x[k]
    <3>1. k \in 0 .. full - 1 \/ (~(k < full) /\ k \in full .. 5)
      BY <1>3
    <3> QED BY <1>3, <1>13, <2>1, <3>1
  <2> QED BY <1>1, <1>7, <1>13, <1>14, <2>1, <2>2 DEF PrefixThenRandom
<1>15. CASE rem # 0
  <2>1. PICK y : y = Mix(m[at + full], x[full], rem)
    OBVIOUS
  <2>2. full \in 0 .. 5 /\ full \in full .. 5 /\ at + full \in at .. at + len - 1
    BY <1>3, <1>15
  <2>3. w = [g EXCEPT ![b + full] = y]
    <3>1. w = [g EXCEPT ![b + full] = Mix(g[at + full], g[b + full], rem)]
      BY <1>1, <1>6, <1>9, <1>12, <1>15 DEF PutPrefix, Mix
    <3>2. g[at + full] = m[at + full] /\ g[b + full] = x[full]
      BY <1>13, <2>2, SMTT(30)
    <3> QED BY <2>1, <3>1, <3>2
  <2>4. y \in Byte
    <3>1. PICK u : u = m[at + full]
      OBVIOUS
    <3>2. PICK v : v = x[full]
      OBVIOUS
    <3>3. u \in 0 .. 255 /\ v \in 0 .. 255
      <4>1. u \in Byte
        BY <1>4, <1>7, <1>10, <2>2, <3>1
      <4>2. v \in 0 .. 255
        <5>1. full \in 0 .. 7 /\ \A k \in 0 .. 7 : x[k] \in 0 .. 255
          BY <2>2, WordTypes
        <5> QED BY ONLY <3>2, <5>1
      <4> QED BY <4>1, <4>2 DEF Byte
    <3>4. rem \in 1 .. 7
      BY <1>3, <1>15, SMTT(30)
    <3>5. Mix(u, v, rem) \in 0 .. 255
      BY ONLY <3>3, <3>4, MixIsByte
    <3> QED BY <2>1, <3>1, <3>2, <3>5 DEF Byte
  <2>5. ASSUME NEW k \in 0 .. 5
        PROVE  w[b + k] = IF k < full THEN m[at + k] ELSE IF k = full THEN y ELSE x[k]
    <3>1. b + k \in d /\ b + full \in d /\ (b + k = b + full <=> k = full)
      BY <1>4, <1>7, <2>2
    <3>2. w[b + k] = IF k = full THEN y ELSE g[b + k]
      BY <1>13, <2>3, <3>1
    <3>3. k \in 0 .. full - 1 \/ k = full \/ (~(k < full) /\ k \in full .. 5)
      BY <1>3
    <3>4. k \in 0 .. full - 1 => k < full /\ k # full
      BY <1>3
    <3> QED BY <1>13, <2>2, <3>2, <3>3, <3>4
  <2>6. w \in [d -> Byte]
    BY <1>13, <2>3, <2>4
  <2>7. rem > 0
    BY <1>3, <1>15
  <2> QED BY <1>1, <1>7, <2>1, <2>5, <2>6, <2>7 DEF PrefixThenRandom
<1> QED BY <1>14, <1>15

(* The first bits of an address are the prefix's, the others random.       *)
LEMMA PrefixBits ==
  ASSUME NEW c \in Calls, c.kind = "MACPrefix", ~Refuses(c),
         NEW m \in Inputs, NEW x \in Words,
         NEW b, b = FixedBytes(c.capacity, 6), Disjoint(b, 6, c.at, c.len),
         NEW w, w = PutPrefix(m, b, c, x),
         NEW i \in 0 .. 47
  PROVE  Bit(Slice(w, b, 6), i) = IF i < c.bits THEN Bit(Slice(m, c.at, c.len), i)
                                  ELSE Bit(LittleEndian(x, 6), i)
<1>1. PICK full : full = c.bits \div 8
  OBVIOUS
<1>2. PICK rem : rem = c.bits % 8
  OBVIOUS
<1>3. PrefixLengths(c, full, rem)
  BY <1>1, <1>2, PrefixLongEnough
<1>4. PrefixThenRandom(w, b, m, c.at, full, rem, x)
  BY <1>1, <1>2, <1>3, PrefixBytes
<1>5. PICK k : k = i \div 8
  OBVIOUS
<1>6. PICK j : j = i % 8
  OBVIOUS
<1>7. k \in 0 .. 5 /\ j \in 0 .. 7 /\ i = 8 * k + j
  BY <1>5, <1>6
<1>8. \A s : Bit(s, i) = BitOf(s[k + 1], j)
  BY <1>5, <1>6 DEF Bit, BitOf
<1>9. PICK at : at = c.at
  OBVIOUS
<1>10. PICK len : len = c.len
  OBVIOUS
<1>11. at \in Int /\ len \in Nat
  BY <1>9, <1>10, CallTypes
<1>12. PICK u : u = m[at + k]
  OBVIOUS
<1>13. PICK v : v = x[k]
  OBVIOUS
<1>14. v \in 0 .. 255
  BY <1>7, <1>13, WordTypes
<1>15. ASSUME k < len
       PROVE  u \in 0 .. 255 /\ Slice(m, at, len)[k + 1] = u
  <2>1. at .. at + len - 1 \subseteq DOMAIN m /\ m \in [DOMAIN m -> Byte]
    BY <1>9, <1>10, MemoryAssumption
  <2>2. at + k \in at .. at + len - 1
    BY <1>7, <1>11, <1>15
  <2>3. u \in 0 .. 255
    BY <1>12, <2>1, <2>2 DEF Byte
  <2>4. k + 1 \in 1 .. len /\ at + (k + 1) - 1 = at + k
    BY <1>7, <1>11, <1>15
  <2>5. Slice(m, at, len)[k + 1] = m[at + (k + 1) - 1]
    BY <2>4 DEF Slice
  <2> QED BY <1>12, <2>3, <2>4, <2>5
<1>16. Slice(w, b, 6)[k + 1] = w[b + k]
  <2>1. b \in Int
    BY TargetInMemory
  <2>2. k + 1 \in 1 .. 6 /\ b + (k + 1) - 1 = b + k
    BY <1>7, <2>1
  <2>3. Slice(w, b, 6)[k + 1] = w[b + (k + 1) - 1]
    BY <2>2 DEF Slice
  <2> QED BY <2>2, <2>3
<1>17. LittleEndian(x, 6)[k + 1] = v
  <2>1. k + 1 \in 1 .. 6 /\ (k + 1) - 1 = k
    BY <1>7
  <2> QED BY <1>13, <2>1, WordRuns DEF RunUp
<1>18. w[b + k] = IF k < full THEN u ELSE IF k = full /\ rem > 0 THEN Mix(u, v, rem) ELSE v
  BY ONLY <1>4, <1>7, <1>9, <1>12, <1>13 DEF PrefixThenRandom
<1>19. PICK bits : bits = c.bits
  OBVIOUS
<1>20. /\ full \in 0 .. 6 /\ rem \in 0 .. 7 /\ bits = 8 * full + rem
       /\ full <= len /\ (rem > 0 => full + 1 <= len)
  BY <1>3, <1>10, <1>19 DEF PrefixLengths
<1>21. CASE k < full
  <2>1. i < bits /\ k < len
    BY <1>7, <1>11, <1>20, <1>21
  <2> QED BY <1>8, <1>9, <1>10, <1>15, <1>16, <1>18, <1>19, <1>21, <2>1
<1>22. CASE k = full /\ rem > 0
  <2>1. k < len /\ (i < bits <=> j < rem) /\ rem \in 1 .. 7 /\ ~(k < full)
    BY <1>7, <1>11, <1>20, <1>22, SMTT(30)
  <2>2. BitOf(Mix(u, v, rem), j) = IF j < rem THEN BitOf(u, j) ELSE BitOf(v, j)
    BY <1>7, <1>14, <1>15, <2>1, MixBits
  <2>3. Bit(Slice(w, b, 6), i) = BitOf(Mix(u, v, rem), j)
    BY <1>8, <1>16, <1>18, <1>22, <2>1
  <2>4. Bit(Slice(m, at, len), i) = BitOf(u, j) /\ Bit(LittleEndian(x, 6), i) = BitOf(v, j)
    BY <1>8, <1>15, <1>17, <2>1
  <2> QED BY <1>9, <1>10, <1>19, <2>1, <2>2, <2>3, <2>4
<1>23. CASE ~(k < full) /\ ~(k = full /\ rem > 0)
  <2>1. ~(i < bits)
    BY <1>7, <1>20, <1>23
  <2> QED BY <1>8, <1>16, <1>17, <1>18, <1>19, <1>23, <2>1
<1> QED BY <1>21, <1>22, <1>23

-------------------------------------------------------------------------------
(* The rules of every kind.                                                *)

(* What was written is what is returned.                                   *)
LEMMA ReturnedIs ==
  ASSUME HardwareInv, pc = "done", result # Nil,
         call.kind \notin FromMAC \union {"MACPrefix"}
  PROVE  Good(call, Returned)
<1>1. PICK n : n = Size(call.kind)
  OBVIOUS
<1>2. PICK b : b = Target
  OBVIOUS
<1>3. PICK s : s = Address(call, word, oui)
  OBVIOUS
<1>4. /\ call \in Calls /\ before \in Inputs /\ word \in Words /\ oui \in DOMAIN OUIs
      /\ ~Rejects(call.kind, word) /\ ~Refuses(call)
      /\ result = [at |-> b, len |-> n]
      /\ mem = Write(before, b, s)
  BY <1>1, <1>2, <1>3 DEF HardwareInv, Made
<1>5. Good(call, s)
  BY <1>3, <1>4, AddressIsGood
<1>6. s \in Seq(Byte) /\ n = Len(s)
  BY <1>1, <1>5 DEF Good
<1>7. n \in {6, 8} /\ b = FixedBytes(call.capacity, n)
  BY <1>1, <1>2 DEF Size, Target
<1>8. /\ b \in Int /\ b .. b + n - 1 \subseteq DOMAIN before
      /\ before \in [DOMAIN before -> Byte] /\ DOMAIN before \subseteq Int
  BY ONLY <1>4, <1>7, TargetInMemory
<1>9. Written(before, b, s, n)
  BY ONLY <1>6, <1>8, SliceOfWrite
<1>10. Returned = s
  BY ONLY <1>4, <1>9 DEF Returned, Written
<1> QED BY <1>5, <1>10

(* An address of a kind with random bytes has the bits its kind is         *)
(* documented with and none of the values it excludes, after any redraws;  *)
(* one with a prefix begins with its bits.                                 *)
THEOREM KindRulesHolds == Spec => []KindRules
<1>1. HardwareInv => KindRules
  <2> SUFFICES ASSUME HardwareInv, pc = "done", result # Nil PROVE KindRules
    BY DEF KindRules
  <2>1. CASE call.kind = "MACPrefix"
    <3>1. PICK b : b = Target
      OBVIOUS
    <3>2. /\ call \in Calls /\ before \in Inputs /\ ~Refuses(call) /\ word \in Words
          /\ result = [at |-> b, len |-> 6] /\ b = FixedBytes(call.capacity, 6)
          /\ mem = PutPrefix(before, b, call, word)
      <4>1. Size(call.kind) = 6
        BY <2>1 DEF Size
      <4>2. call.kind \notin FromMAC
        BY <2>1 DEF FromMAC
      <4> QED BY <2>1, <3>1, <4>1, <4>2 DEF HardwareInv, Made, Target
    <3>3. Returned = Slice(mem, b, 6) /\ result.at = b
      BY <3>2 DEF Returned
    <3>4. Disjoint(result.at, 6, call.at, call.len) =>
            \A i \in 0 .. 47 :
              Bit(Returned, i) = IF i < call.bits
                                 THEN Bit(Slice(before, call.at, call.len), i)
                                 ELSE Bit(LittleEndian(word, 6), i)
      BY <2>1, <3>2, <3>3, PrefixBits
    <3> QED BY <2>1, <3>4, SMT DEF KindRules
  <2>2. CASE call.kind \in FromMAC
    BY <2>2, SMT DEF FromMAC, KindRules
  <2>3. CASE call.kind \notin FromMAC \union {"MACPrefix"}
    <3>1. Good(call, Returned)
      BY <2>3, ReturnedIs
    <3>2. PICK r : r = Returned
      OBVIOUS
    <3>3. Rule(call, r)
      BY <3>1, <3>2 DEF Good
    <3> QED BY <2>3, <3>2, <3>3, SMT DEF KindRules, Rule, InquiryLAP
  <2> QED BY <2>1, <2>2, <2>3
<1> QED BY <1>1, HardwareInvInductive, PTL
-------------------------------------------------------------------------------
(* The EUI-64 of a MAC.                                                    *)

(* Inverting the universal/local bit twice changes nothing.                *)
LEMMA FlipTwice ==
  ASSUME NEW y \in Byte
  PROVE  FlipLocal(y) \in Byte /\ FlipLocal(FlipLocal(y)) = y
<1>1. y \in 0 .. 255
  BY DEF Byte
<1>2. PICK h : h = y \div 2
  OBVIOUS
<1>3. PICK f : f = FlipLocal(y)
  OBVIOUS
<1>4. f = IF h % 2 = 1 THEN y - 2 ELSE y + 2
  BY <1>2, <1>3 DEF FlipLocal
<1>5. /\ f \in 0 .. 255
      /\ (f \div 2) % 2 = 1 <=> ~(h % 2 = 1)
  BY <1>1, <1>2, <1>4
<1>6. FlipLocal(f) = y
  BY <1>1, <1>4, <1>5 DEF FlipLocal
<1> QED BY <1>3, <1>5, <1>6 DEF Byte

(* The eight bytes w has from b on are those of the EUI-64 of the MAC m    *)
(* has at at.                                                              *)
EUIBytes(w, b, m, at) ==
  /\ \A k \in 0 .. 2 : w[b + k] = m[at + k] /\ w[b + 5 + k] = m[at + 3 + k]
  /\ w[b + 3] = 255 /\ w[b + 4] = 254

(* putModifiedEUI64's copies, when none of them overwrites a byte of the   *)
(* MAC that a later one reads.                                             *)
LEMMA EncapsulateBytes ==
  ASSUME NEW m, m \in [DOMAIN m -> Byte], DOMAIN m \subseteq Int,
         NEW b \in Int, b .. b + 7 \subseteq DOMAIN m,
         NEW at \in Int, at .. at + 5 \subseteq DOMAIN m, at - b \notin -5 .. 1,
         NEW w, w = Encapsulate(m, b, at, 6)
  PROVE  EUIBytes(w, b, m, at) /\ w \in [DOMAIN m -> Byte]
<1>1. PICK d : d = DOMAIN m
  OBVIOUS
<1>2. at <= b - 6 \/ at >= b + 2
  OBVIOUS
<1>3. \A a \in b .. b + 7 : a \in d /\ a \in Int
  BY <1>1
<1>4. \A k \in 0 .. 5 : at + k \in d /\ m[at + k] \in Byte
  <2>1. \A k \in 0 .. 5 : at + k \in at .. at + 5
    OBVIOUS
  <2> QED BY <1>1, <2>1
<1>5. \A k \in 0 .. 2 : k \in 0 .. 5 /\ 3 + k \in 0 .. 5 /\ at + (3 + k) = at + 3 + k
  OBVIOUS
<1>6. PICK s1 : s1 = Slice(m, at, 3)
  OBVIOUS
<1>7. s1 \in Seq(Byte) /\ 3 = Len(s1) /\ \A k \in 0 .. 2 : s1[k + 1] = m[at + k]
  <2>1. \A k \in 0 .. 2 : m[at + k] \in Byte
    BY <1>4, <1>5
  <2>2. at \in Int
    OBVIOUS
  <2> QED BY ONLY <1>6, <2>1, <2>2, SliceIs
<1>8. PICK m1 : m1 = Write(m, b, s1)
  OBVIOUS
<1>9. /\ m1 \in [d -> Byte]
      /\ \A k \in 0 .. 2 : m1[b + k] = m[at + k]
      /\ \A a \in d : a \notin b .. b + 2 => m1[a] = m[a]
  <2>1. b .. b + 3 - 1 \subseteq DOMAIN m
    BY <1>1, <1>3
  <2>2. Written(m, b, s1, 3)
    BY <1>7, <2>1, SliceOfWrite
  <2>3. /\ m1 \in [DOMAIN m -> Byte]
        /\ \A i \in 0 .. 3 - 1 : m1[b + i] = s1[i + 1]
        /\ \A a \in DOMAIN m : a \notin b .. b + 3 - 1 => m1[a] = m[a]
    BY ONLY <1>8, <2>2 DEF Written
  <2>4. \A k \in 0 .. 2 : k \in 0 .. 3 - 1
    OBVIOUS
  <2>5. b + 3 - 1 = b + 2
    OBVIOUS
  <2> QED BY ONLY <1>1, <1>7, <2>3, <2>4, <2>5
<1>10. PICK m2 : m2 = Write(m1, b + 3, <<255, 254>>)
  OBVIOUS
<1>11. /\ m2 \in [d -> Byte]
       /\ m2[b + 3] = 255 /\ m2[b + 4] = 254
       /\ \A a \in d : a \notin b + 3 .. b + 4 => m2[a] = m1[a]
  <2>1. PICK f : f = <<255, 254>>
    OBVIOUS
  <2>2. f \in Seq(Byte) /\ 2 = Len(f)
    BY <2>1 DEF Byte
  <2>3. PICK b3 : b3 = b + 3
    OBVIOUS
  <2>4. /\ b3 \in Int /\ b3 .. b3 + 2 - 1 \subseteq DOMAIN m1
        /\ m1 \in [DOMAIN m1 -> Byte] /\ DOMAIN m1 \subseteq Int /\ DOMAIN m1 = d
    BY <1>1, <1>3, <1>9, <2>3
  <2>5. Written(m1, b3, f, 2)
    BY ONLY <2>2, <2>4, SliceOfWrite
  <2>6. /\ m2 \in [d -> Byte]
        /\ \A i \in 0 .. 2 - 1 : m2[b3 + i] = f[i + 1]
        /\ \A a \in d : a \notin b3 .. b3 + 2 - 1 => m2[a] = m1[a]
    BY ONLY <1>10, <2>1, <2>3, <2>4, <2>5 DEF Written
  <2>7. m2[b3 + 0] = f[0 + 1] /\ m2[b3 + 1] = f[1 + 1]
    <3>1. 0 \in 0 .. 2 - 1 /\ 1 \in 0 .. 2 - 1
      OBVIOUS
    <3> QED BY ONLY <2>6, <3>1
  <2>8. b3 + 0 = b + 3 /\ b3 + 1 = b + 4 /\ b3 + 2 - 1 = b + 4 /\ 0 + 1 = 1 /\ 1 + 1 = 2
    BY <2>3
  <2>9. f[1] = 255 /\ f[2] = 254
    BY <2>1
  <2> QED BY ONLY <2>3, <2>6, <2>7, <2>8, <2>9
<1>12. \A k \in 0 .. 2 : m2[at + 3 + k] = m[at + 3 + k]
  <2> SUFFICES ASSUME NEW k \in 0 .. 2 PROVE m2[at + 3 + k] = m[at + 3 + k]
    OBVIOUS
  <2>1. at + 3 + k \in d
    BY <1>4, <1>5
  <2>2. at + 3 + k \notin b .. b + 2 /\ at + 3 + k \notin b + 3 .. b + 4
    BY <1>2
  <2> QED BY ONLY <1>9, <1>11, <2>1, <2>2
<1>13. PICK s2 : s2 = Slice(m2, at + 3, 3)
  OBVIOUS
<1>14. s2 \in Seq(Byte) /\ 3 = Len(s2) /\ \A k \in 0 .. 2 : s2[k + 1] = m[at + 3 + k]
  <2>1. PICK a3 : a3 = at + 3
    OBVIOUS
  <2>2. a3 \in Int /\ \A k \in 0 .. 2 : m2[a3 + k] \in Byte /\ m2[a3 + k] = m[at + 3 + k]
    BY <1>4, <1>5, <1>12, <2>1
  <2>3. s2 \in Seq(Byte) /\ 3 = Len(s2) /\ \A k \in 0 .. 2 : s2[k + 1] = m2[a3 + k]
    <3>1. \A k \in 0 .. 2 : m2[a3 + k] \in Byte
      BY ONLY <2>2
    <3>2. s2 = Slice(m2, a3, 3) /\ a3 \in Int
      BY ONLY <1>13, <2>1, <2>2
    <3> QED BY ONLY <3>1, <3>2, SliceIs
  <2> QED BY ONLY <2>2, <2>3
<1>15. w = Write(m2, b + 5, s2)
  BY <1>6, <1>8, <1>10, <1>13 DEF Encapsulate
<1>16. /\ w \in [d -> Byte]
       /\ \A k \in 0 .. 2 : w[b + 5 + k] = m[at + 3 + k]
       /\ \A a \in d : a \notin b + 5 .. b + 7 => w[a] = m2[a]
  <2>1. PICK b5 : b5 = b + 5
    OBVIOUS
  <2>2. /\ b5 \in Int /\ b5 .. b5 + 3 - 1 \subseteq DOMAIN m2
        /\ m2 \in [DOMAIN m2 -> Byte] /\ DOMAIN m2 \subseteq Int /\ DOMAIN m2 = d
    BY <1>1, <1>3, <1>11, <2>1
  <2>3. Written(m2, b5, s2, 3)
    BY ONLY <1>14, <2>2, SliceOfWrite
  <2>4. /\ w \in [d -> Byte]
        /\ \A i \in 0 .. 3 - 1 : w[b5 + i] = s2[i + 1]
        /\ \A a \in d : a \notin b5 .. b5 + 3 - 1 => w[a] = m2[a]
    BY ONLY <1>15, <2>1, <2>2, <2>3 DEF Written
  <2>5. \A k \in 0 .. 2 : k \in 0 .. 3 - 1
    OBVIOUS
  <2>6. b5 + 3 - 1 = b + 7
    BY <2>1
  <2> QED BY ONLY <1>14, <2>1, <2>4, <2>5, <2>6
<1>17. \A k \in 0 .. 2 : w[b + k] = m[at + k]
  <2> SUFFICES ASSUME NEW k \in 0 .. 2 PROVE w[b + k] = m[at + k]
    OBVIOUS
  <2>1. b + k \in d /\ b + k \notin b + 5 .. b + 7 /\ b + k \notin b + 3 .. b + 4
    BY <1>3
  <2> QED BY <1>9, <1>11, <1>16, <2>1
<1>18. w[b + 3] = 255 /\ w[b + 4] = 254
  <2>1. /\ b + 3 \in d /\ b + 3 \notin b + 5 .. b + 7
        /\ b + 4 \in d /\ b + 4 \notin b + 5 .. b + 7
    BY <1>3
  <2> QED BY ONLY <1>11, <1>16, <2>1
<1> QED BY <1>1, <1>16, <1>17, <1>18 DEF EUIBytes
(* The bytes of the EUI-64 of a MAC.                                       *)
EUIOf(mac) == SubSeq(mac, 1, 3) \o <<255, 254>> \o SubSeq(mac, 4, 6)

(* Which they are.                                                         *)
LEMMA EUIOfIs ==
  ASSUME NEW mac \in Seq(Byte), Len(mac) = 6, NEW e, e = EUIOf(mac)
  PROVE  /\ e \in Seq(Byte) /\ Len(e) = 8 /\ e[4] = 255 /\ e[5] = 254
         /\ \A k \in 0 .. 2 : e[k + 1] = mac[k + 1] /\ e[k + 6] = mac[k + 4]
<1>1. PICK s : s = SubSeq(mac, 1, 3)
  OBVIOUS
<1>2. s \in Seq(Byte) /\ 3 = Len(s) /\ \A k \in 0 .. 2 : s[k + 1] = mac[k + 1]
  <2>1. s = [i \in 1 .. 3 |-> mac[i]]
    BY <1>1
  <2>2. s \in [1 .. 3 -> Byte]
    BY <2>1
  <2>3. s \in Seq(Byte) /\ 3 = Len(s)
    BY ONLY <2>2, SeqIs
  <2>4. \A k \in 0 .. 2 : k + 1 \in 1 .. 3
    OBVIOUS
  <2> QED BY ONLY <2>1, <2>3, <2>4
<1>3. PICK t : t = SubSeq(mac, 4, 6)
  OBVIOUS
<1>4. t \in Seq(Byte) /\ 3 = Len(t) /\ \A k \in 0 .. 2 : t[k + 1] = mac[k + 4]
  <2>0. \A i \in 4 .. 6 : mac[i] \in Byte
    <3>1. mac \in [1 .. 6 -> Byte]
      BY LenProperties
    <3> QED BY ONLY <3>1
  <2>1. /\ t \in Seq(Byte) /\ Len(t) = (IF 4 <= 6 THEN 6 - 4 + 1 ELSE 0)
        /\ \A i \in 1 .. 6 - 4 + 1 : t[i] = mac[4 + i - 1]
    BY <1>3, <2>0, SubSeqProperties
  <2>2. \A k \in 0 .. 2 : k + 1 \in 1 .. 6 - 4 + 1 /\ 4 + (k + 1) - 1 = k + 4
    OBVIOUS
  <2>3. \A k \in 0 .. 2 : t[k + 1] = mac[k + 4]
    BY ONLY <2>1, <2>2
  <2> QED BY <2>1, <2>3
<1>5. PICK f : f = <<255, 254>>
  OBVIOUS
<1>6. f \in Seq(Byte) /\ 2 = Len(f)
  BY <1>5 DEF Byte
<1>7. PICK h : h = s \o f
  OBVIOUS
<1>8. Parts(h, s, f, 3, 2)
  BY ONLY <1>2, <1>6, <1>7, PartsOfConcat
<1>9. h \in Seq(Byte) /\ 5 = Len(h)
  BY <1>8 DEF Parts
<1>10. e = h \o t
  BY ONLY e = EUIOf(mac), <1>1, <1>3, <1>5, <1>7 DEF EUIOf
<1>11. Parts(e, h, t, 5, 3)
  BY ONLY <1>4, <1>9, <1>10, PartsOfConcat
<1>12. e \in Seq(Byte) /\ Len(e) = 8
  BY <1>11 DEF Parts
<1>13. \A i \in 1 .. 5 : e[i] = h[i]
  BY <1>11 DEF Parts
<1>14. \A i \in 1 .. 3 : e[5 + i] = t[i]
  BY <1>11 DEF Parts
<1>15. \A i \in 1 .. 3 : h[i] = s[i]
  BY <1>8 DEF Parts
<1>16. h[3 + 1] = f[1] /\ h[3 + 2] = f[2]
  BY <1>8 DEF Parts
<1>17. e[4] = 255 /\ e[5] = 254
  <2>1. e[4] = h[4] /\ e[5] = h[5]
    BY <1>13
  <2>2. f[1] = 255 /\ f[2] = 254
    BY <1>5
  <2> QED BY <1>16, <2>1, <2>2
<1>18. ASSUME NEW k \in 0 .. 2 PROVE e[k + 1] = mac[k + 1] /\ e[k + 6] = mac[k + 4]
  <2>1. k + 1 \in 1 .. 5 /\ k + 1 \in 1 .. 3 /\ 5 + (k + 1) = k + 6
    OBVIOUS
  <2> QED BY <1>2, <1>4, <1>13, <1>14, <1>15, <2>1
<1> QED BY <1>12, <1>17, <1>18

(* The EUI-64 of a MAC is that of the MAC passed, also when the MAC lies   *)
(* in dst from its third byte on.                                          *)
THEOREM EUI64OfMACHolds == Spec => []EUI64OfMAC
<1>1. ASSUME HardwareInv, pc = "done", result # Nil, call.kind \in FromMAC,
             call.at - result.at \notin -5 .. 1
      PROVE  Returned = IF call.kind = "EUI64FromMAC" THEN EUIOf(Slice(before, call.at, 6))
                        ELSE [EUIOf(Slice(before, call.at, 6)) EXCEPT ![1] = FlipLocal(@)]
  <2>1. PICK b : b = Target
    OBVIOUS
  <2>2. PICK at : at = call.at
    OBVIOUS
  <2>3. PICK m : m = before
    OBVIOUS
  <2>4. PICK d : d = DOMAIN m
    OBVIOUS
  <2>5. Size(call.kind) = 8
    BY <1>1 DEF FromMAC, Size
  <2>6. /\ call \in Calls /\ m \in Inputs /\ call.len = 6
        /\ result = [at |-> b, len |-> 8] /\ b = FixedBytes(call.capacity, 8)
        /\ mem = Encapsulated(call, m, b)
    <3>1. /\ call \in Calls /\ before \in Inputs /\ ~Refuses(call) /\ Made
      BY <1>1 DEF HardwareInv
    <3>2. call.len = 6
      BY <1>1, <3>1 DEF Refuses, FromMAC
    <3> QED BY <1>1, <2>1, <2>3, <2>5, <3>1, <3>2 DEF Made, Target
  <2>7. /\ b \in Int /\ b .. b + 8 - 1 \subseteq d
        /\ m \in [d -> Byte] /\ d \subseteq Int
    <3>1. 8 \in {6, 8}
      OBVIOUS
    <3> QED BY ONLY <2>4, <2>6, <3>1, TargetInMemory
  <2>8. at \in Int /\ at .. at + 6 - 1 \subseteq d
    <3>1. at .. at + call.len - 1 \subseteq d
      BY <1>1, <2>2, <2>4, <2>6, MemoryAssumption
    <3> QED BY <2>2, <2>6, <3>1, CallTypes
  <2>9. PICK e : e = Encapsulate(m, b, at, 6)
    OBVIOUS
  <2>10. EUIBytes(e, b, m, at) /\ e \in [d -> Byte]
    <3>1. b .. b + 7 \subseteq d /\ at .. at + 5 \subseteq d
      BY <2>7, <2>8
    <3>2. at - b \notin -5 .. 1
      BY <1>1, <2>2, <2>6
    <3> QED BY ONLY <2>4, <2>7, <2>8, <2>9, <3>1, <3>2, EncapsulateBytes
  <2>11. PICK y : y = m[at]
    OBVIOUS
  <2>12. y \in Byte /\ e[b] = y /\ b \in d
    <3>1. at \in at .. at + 6 - 1 /\ b \in b .. b + 8 - 1
      BY <2>7, <2>8
    <3>2. e[b + 0] = m[at + 0]
      BY <2>10 DEF EUIBytes
    <3>3. b + 0 = b /\ at + 0 = at
      BY <2>7, <2>8
    <3> QED BY ONLY <2>7, <2>8, <2>11, <3>1, <3>2, <3>3
  <2>13. PICK z : z = IF call.kind = "EUI64FromMAC" THEN y ELSE FlipLocal(y)
    OBVIOUS
  <2>14. mem = [e EXCEPT ![b] = z]
    <3>1. PICK p : p = [e EXCEPT ![b] = FlipLocal(@)]
      OBVIOUS
    <3>2. p = [e EXCEPT ![b] = FlipLocal(y)]
      BY <2>12, <3>1
    <3>3. mem = IF call.kind = "EUI64FromMAC" THEN [p EXCEPT ![b] = FlipLocal(@)] ELSE p
      BY <2>2, <2>6, <2>9, <3>1 DEF Encapsulated, PutModifiedEUI64
    <3>4. p[b] = FlipLocal(y)
      BY <2>10, <2>12, <3>2
    <3>5. FlipLocal(FlipLocal(y)) = y
      BY ONLY <2>12, FlipTwice
    <3>6. [p EXCEPT ![b] = FlipLocal(@)] = [e EXCEPT ![b] = y]
      BY <2>10, <2>12, <3>2, <3>4, <3>5
    <3> QED BY <2>13, <3>2, <3>3, <3>6
  <2>15. /\ mem[b] = z
         /\ \A a \in d : a # b => mem[a] = e[a]
    BY <2>10, <2>12, <2>14
  <2>16. PICK mac : mac = Slice(m, at, 6)
    OBVIOUS
  <2>17. mac \in Seq(Byte) /\ Len(mac) = 6 /\ \A k \in 0 .. 5 : mac[k + 1] = m[at + k]
    <3>1. mac = [i \in 1 .. 6 |-> m[at + i - 1]]
      BY <2>16 DEF Slice
    <3>2. \A i \in 1 .. 6 : at + i - 1 \in at .. at + 6 - 1
      BY <2>8
    <3>3. mac \in [1 .. 6 -> Byte]
      BY <2>7, <2>8, <3>1, <3>2
    <3>4. \A k \in 0 .. 5 : k + 1 \in 1 .. 6 /\ at + (k + 1) - 1 = at + k
      BY <2>8
    <3>5. \A k \in 0 .. 5 : mac[k + 1] = m[at + k]
      BY ONLY <3>1, <3>4
    <3>6. mac \in Seq(Byte) /\ Len(mac) = 6
      <4>1. mac \in Seq(Byte) /\ 6 = Len(mac)
        BY ONLY <3>3, SeqIs
      <4> QED BY <4>1
    <3> QED BY ONLY <3>5, <3>6
  <2>18. PICK eui : eui = EUIOf(mac)
    OBVIOUS
  <2>19. /\ eui \in Seq(Byte) /\ Len(eui) = 8 /\ eui[4] = 255 /\ eui[5] = 254
         /\ \A k \in 0 .. 2 : eui[k + 1] = mac[k + 1] /\ eui[k + 6] = mac[k + 4]
    BY ONLY <2>17, <2>18, EUIOfIs
  <2>20. PICK r : r = Returned
    OBVIOUS
  <2>21. r = [i \in 1 .. 8 |-> mem[b + i - 1]]
    BY <2>6, <2>20 DEF Returned, Slice
  <2>22. r[1] = z
    <3>1. 1 \in 1 .. 8 /\ b + 1 - 1 = b
      BY <2>7
    <3> QED BY ONLY <2>15, <2>21, <3>1
  <2>23. \A i \in 2 .. 8 : r[i] = eui[i]
    <3>1. ASSUME NEW k \in 1 .. 7 PROVE r[k + 1] = e[b + k]
      <4>1. k + 1 \in 1 .. 8 /\ b + (k + 1) - 1 = b + k /\ b + k \in d /\ b + k # b
        BY <2>7
      <4> QED BY ONLY <2>15, <2>21, <4>1
    <3>2. ASSUME NEW k \in 0 .. 2
          PROVE  /\ e[b + k] = eui[k + 1]
                 /\ e[b + (5 + k)] = eui[(5 + k) + 1]
      <4>1. e[b + k] = m[at + k] /\ e[b + 5 + k] = m[at + 3 + k]
        BY ONLY <2>10, k \in 0 .. 2 DEF EUIBytes
      <4>2. k \in 0 .. 5 /\ 3 + k \in 0 .. 5
        OBVIOUS
      <4>3. mac[k + 1] = m[at + k] /\ mac[(3 + k) + 1] = m[at + (3 + k)]
        BY ONLY <2>17, <4>2
      <4>4. /\ at + (3 + k) = at + 3 + k /\ b + (5 + k) = b + 5 + k
            /\ (3 + k) + 1 = k + 4 /\ (5 + k) + 1 = k + 6
        BY <2>7, <2>8
      <4>5. eui[k + 1] = mac[k + 1] /\ eui[k + 6] = mac[k + 4]
        BY ONLY <2>19, k \in 0 .. 2
      <4> QED BY ONLY <4>1, <4>3, <4>4, <4>5
    <3>3. e[b + 3] = eui[3 + 1] /\ e[b + 4] = eui[4 + 1]
      <4>1. e[b + 3] = 255 /\ e[b + 4] = 254
        BY <2>10 DEF EUIBytes
      <4> QED BY <2>19, <4>1
    <3>4. ASSUME NEW k \in 1 .. 7 PROVE e[b + k] = eui[k + 1]
      <4>1. CASE k \in 0 .. 2
        BY <3>2, <4>1
      <4>2. CASE k = 3 \/ k = 4
        BY <3>3, <4>2
      <4>3. CASE k \in 5 .. 7
        <5>1. PICK j : j = k - 5
          OBVIOUS
        <5>2. j \in 0 .. 2 /\ k = 5 + j
          BY <4>3, <5>1
        <5> QED BY ONLY <3>2, <5>2
      <4> QED BY <4>1, <4>2, <4>3
    <3>5. ASSUME NEW i \in 2 .. 8 PROVE r[i] = eui[i]
      <4>1. PICK k : k = i - 1
        OBVIOUS
      <4>2. k \in 1 .. 7 /\ i = k + 1
        BY <4>1
      <4> QED BY ONLY <3>1, <3>4, <4>2
    <3> QED BY <3>5
  <2>24. eui[1] = y
    <3>1. 0 \in 0 .. 2 /\ 0 \in 0 .. 5 /\ 0 + 1 = 1 /\ at + 0 = at
      BY <2>8
    <3> QED BY ONLY <2>11, <2>17, <2>19, <3>1
  <2>25. DOMAIN eui = 1 .. 8 /\ eui = [i \in 1 .. 8 |-> eui[i]]
    BY <2>19
  <2>26. [eui EXCEPT ![1] = z] = r
    <3>1. [eui EXCEPT ![1] = z] = [i \in 1 .. 8 |-> IF i = 1 THEN z ELSE eui[i]]
      BY <2>25
    <3>2. r = [i \in 1 .. 8 |-> r[i]]
      BY <2>21
    <3>3. \A i \in 1 .. 8 : r[i] = IF i = 1 THEN z ELSE eui[i]
      <4>1. \A i \in 1 .. 8 : i = 1 \/ i \in 2 .. 8
        OBVIOUS
      <4> QED BY ONLY <2>22, <2>23, <4>1
    <3> QED BY ONLY <3>1, <3>2, <3>3
  <2>27. [eui EXCEPT ![1] = FlipLocal(@)] = [eui EXCEPT ![1] = FlipLocal(y)]
    BY <2>24
  <2>28. [eui EXCEPT ![1] = y] = eui
    BY <2>24, <2>25
  <2>29. r = IF call.kind = "EUI64FromMAC" THEN eui ELSE [eui EXCEPT ![1] = FlipLocal(@)]
    BY <2>13, <2>26, <2>27, <2>28
  <2> QED BY ONLY <2>2, <2>3, <2>16, <2>18, <2>20, <2>29
<1>2. HardwareInv => EUI64OfMAC
  BY <1>1 DEF EUI64OfMAC, EUIOf
<1> QED BY <1>2, HardwareInvInductive, PTL
-------------------------------------------------------------------------------
(* The OUI and the extension of an EUI-64.                                 *)

(* A remainder is what is left after whole multiples.                      *)
LEMMA RemainderIs ==
  ASSUME NEW n \in Nat \ {0}, NEW d \in Int, NEW r \in 0 .. n - 1
  PROVE  (d * n + r) % n = r
OBVIOUS

(* Some number below m * n has the remainder r by n and the remainder b by *)
(* m.                                                                      *)
Meets(n, r, m) ==
  \A b \in 0 .. m - 1 : \E d \in 0 .. m - 1 : (d * n + r) % m = b

(* An odd multiple of m changes the bit of m and no lower one.             *)
OddFlips(n, m, twice) ==
  \A g \in Nat : \A b \in 0 .. twice - 1 :
    g % m = b % m => g % twice = b \/ (g + m * n) % twice = b

(* It does for the powers of 2 up to 128.                                  *)
LEMMA OddMultiple ==
  ASSUME NEW n \in Nat, n % 2 = 1, NEW m \in {1, 2, 4, 8, 16, 32, 64, 128}
  PROVE  OddFlips(n, m, 2 * m)
<1>1. PICK q : q = n \div 2
  OBVIOUS
<1>2. q \in Nat /\ n = 2 * q + 1
  BY <1>1
<1>3. OddFlips(n, 1, 2)
  <2> SUFFICES ASSUME NEW g \in Nat, NEW b \in 0 .. 2 - 1, g % 1 = b % 1
               PROVE  g % 2 = b \/ (g + 1 * n) % 2 = b
    BY DEF OddFlips
  <2>1. PICK a : a = g \div 2
    OBVIOUS
  <2>2. PICK t : t = g % 2
    OBVIOUS
  <2>3. a \in Nat /\ t \in 0 .. 1 /\ g = 2 * a + t
    BY <2>1, <2>2
  <2>4. g + 1 * n = 2 * (a + q) + (t + 1)
    BY <1>2, <2>3
  <2>5. b = t \/ b = (t + 1) % 2
    BY <2>2, <2>3
  <2>6. (2 * (a + q) + (t + 1)) % 2 = (t + 1) % 2
    BY <1>2, <2>3
  <2> QED BY <2>2, <2>4, <2>5, <2>6
<1>4. OddFlips(n, 2, 4)
  <2> SUFFICES ASSUME NEW g \in Nat, NEW b \in 0 .. 4 - 1, g % 2 = b % 2
               PROVE  g % 4 = b \/ (g + 2 * n) % 4 = b
    BY DEF OddFlips
  <2>1. PICK a : a = g \div 4
    OBVIOUS
  <2>2. PICK t : t = g % 4
    OBVIOUS
  <2>3. a \in Nat /\ t \in 0 .. 3 /\ g = 4 * a + t
    BY <2>1, <2>2
  <2>4. g + 2 * n = 4 * (a + q) + (t + 2)
    BY <1>2, <2>3
  <2>5. b = t \/ b = (t + 2) % 4
    BY <2>2, <2>3
  <2>6. (4 * (a + q) + (t + 2)) % 4 = (t + 2) % 4
    BY <1>2, <2>3
  <2> QED BY <2>2, <2>4, <2>5, <2>6
<1>5. OddFlips(n, 4, 8)
  <2> SUFFICES ASSUME NEW g \in Nat, NEW b \in 0 .. 8 - 1, g % 4 = b % 4
               PROVE  g % 8 = b \/ (g + 4 * n) % 8 = b
    BY DEF OddFlips
  <2>1. PICK a : a = g \div 8
    OBVIOUS
  <2>2. PICK t : t = g % 8
    OBVIOUS
  <2>3. a \in Nat /\ t \in 0 .. 7 /\ g = 8 * a + t
    BY <2>1, <2>2
  <2>4. g + 4 * n = 8 * (a + q) + (t + 4)
    BY <1>2, <2>3
  <2>5. b = t \/ b = (t + 4) % 8
    BY <2>2, <2>3
  <2>6. (8 * (a + q) + (t + 4)) % 8 = (t + 4) % 8
    BY <1>2, <2>3
  <2> QED BY <2>2, <2>4, <2>5, <2>6
<1>6. OddFlips(n, 8, 16)
  <2> SUFFICES ASSUME NEW g \in Nat, NEW b \in 0 .. 16 - 1, g % 8 = b % 8
               PROVE  g % 16 = b \/ (g + 8 * n) % 16 = b
    BY DEF OddFlips
  <2>1. PICK a : a = g \div 16
    OBVIOUS
  <2>2. PICK t : t = g % 16
    OBVIOUS
  <2>3. a \in Nat /\ t \in 0 .. 15 /\ g = 16 * a + t
    BY <2>1, <2>2
  <2>4. g + 8 * n = 16 * (a + q) + (t + 8)
    BY <1>2, <2>3
  <2>5. b = t \/ b = (t + 8) % 16
    BY <2>2, <2>3
  <2>6. (16 * (a + q) + (t + 8)) % 16 = (t + 8) % 16
    BY <1>2, <2>3
  <2> QED BY <2>2, <2>4, <2>5, <2>6
<1>7. OddFlips(n, 16, 32)
  <2> SUFFICES ASSUME NEW g \in Nat, NEW b \in 0 .. 32 - 1, g % 16 = b % 16
               PROVE  g % 32 = b \/ (g + 16 * n) % 32 = b
    BY DEF OddFlips
  <2>1. PICK a : a = g \div 32
    OBVIOUS
  <2>2. PICK t : t = g % 32
    OBVIOUS
  <2>3. a \in Nat /\ t \in 0 .. 31 /\ g = 32 * a + t
    BY <2>1, <2>2
  <2>4. g + 16 * n = 32 * (a + q) + (t + 16)
    BY <1>2, <2>3
  <2>5. b = t \/ b = (t + 16) % 32
    BY <2>2, <2>3
  <2>6. (32 * (a + q) + (t + 16)) % 32 = (t + 16) % 32
    BY <1>2, <2>3
  <2> QED BY <2>2, <2>4, <2>5, <2>6
<1>8. OddFlips(n, 32, 64)
  <2> SUFFICES ASSUME NEW g \in Nat, NEW b \in 0 .. 64 - 1, g % 32 = b % 32
               PROVE  g % 64 = b \/ (g + 32 * n) % 64 = b
    BY DEF OddFlips
  <2>1. PICK a : a = g \div 64
    OBVIOUS
  <2>2. PICK t : t = g % 64
    OBVIOUS
  <2>3. a \in Nat /\ t \in 0 .. 63 /\ g = 64 * a + t
    BY <2>1, <2>2
  <2>4. g + 32 * n = 64 * (a + q) + (t + 32)
    BY <1>2, <2>3
  <2>5. b = t \/ b = (t + 32) % 64
    BY <2>2, <2>3
  <2>6. (64 * (a + q) + (t + 32)) % 64 = (t + 32) % 64
    BY <1>2, <2>3
  <2> QED BY <2>2, <2>4, <2>5, <2>6
<1>9. OddFlips(n, 64, 128)
  <2> SUFFICES ASSUME NEW g \in Nat, NEW b \in 0 .. 128 - 1, g % 64 = b % 64
               PROVE  g % 128 = b \/ (g + 64 * n) % 128 = b
    BY DEF OddFlips
  <2>1. PICK a : a = g \div 128
    OBVIOUS
  <2>2. PICK t : t = g % 128
    OBVIOUS
  <2>3. a \in Nat /\ t \in 0 .. 127 /\ g = 128 * a + t
    BY <2>1, <2>2
  <2>4. g + 64 * n = 128 * (a + q) + (t + 64)
    BY <1>2, <2>3
  <2>5. b = t \/ b = (t + 64) % 128
    BY <2>2, <2>3
  <2>6. (128 * (a + q) + (t + 64)) % 128 = (t + 64) % 128
    BY <1>2, <2>3
  <2> QED BY <2>2, <2>4, <2>5, <2>6
<1>10. OddFlips(n, 128, 256)
  <2> SUFFICES ASSUME NEW g \in Nat, NEW b \in 0 .. 256 - 1, g % 128 = b % 128
               PROVE  g % 256 = b \/ (g + 128 * n) % 256 = b
    BY DEF OddFlips
  <2>1. PICK a : a = g \div 256
    OBVIOUS
  <2>2. PICK t : t = g % 256
    OBVIOUS
  <2>3. a \in Nat /\ t \in 0 .. 255 /\ g = 256 * a + t
    BY <2>1, <2>2
  <2>4. g + 128 * n = 256 * (a + q) + (t + 128)
    BY <1>2, <2>3
  <2>5. b = t \/ b = (t + 128) % 256
    BY <2>2, <2>3, SMTT(30)
  <2>6. (256 * (a + q) + (t + 128)) % 256 = (t + 128) % 256
    BY <1>2, <2>3
  <2> QED BY <2>2, <2>4, <2>5, <2>6
<1>11. 2 * 1 = 2 /\ 2 * 2 = 4 /\ 2 * 4 = 8 /\ 2 * 8 = 16
       /\ 2 * 16 = 32 /\ 2 * 32 = 64 /\ 2 * 64 = 128 /\ 2 * 128 = 256
  OBVIOUS
<1> QED BY <1>3, <1>4, <1>5, <1>6, <1>7, <1>8, <1>9, <1>10, <1>11

(* A number for m gives one for 2 * m.                                     *)
LEMMA MeetsTwice ==
  ASSUME NEW n \in Nat, n % 2 = 1, NEW r \in Nat,
         NEW m \in {1, 2, 4, 8, 16, 32, 64, 128}, Meets(n, r, m)
  PROVE  Meets(n, r, 2 * m)
<1> SUFFICES ASSUME NEW b \in 0 .. 2 * m - 1
             PROVE  \E d \in 0 .. 2 * m - 1 : (d * n + r) % (2 * m) = b
  BY DEF Meets
<1>1. b % m \in 0 .. m - 1
  OBVIOUS
<1>2. PICK d \in 0 .. m - 1 : (d * n + r) % m = b % m
  BY <1>1 DEF Meets
<1>3. PICK g : g = d * n + r
  OBVIOUS
<1>4. g \in Nat /\ g % m = b % m
  BY <1>2, <1>3
<1>5. g % (2 * m) = b \/ (g + m * n) % (2 * m) = b
  <2>1. OddFlips(n, m, 2 * m)
    BY OddMultiple
  <2> QED BY <1>4, <2>1, ZenonT(40) DEF OddFlips
<1>6. CASE g % (2 * m) = b
  <2>1. d \in 0 .. 2 * m - 1
    OBVIOUS
  <2> QED BY <1>3, <1>6, <2>1
<1>7. CASE (g + m * n) % (2 * m) = b
  <2>1. PICK e : e = d + m
    OBVIOUS
  <2>2. e \in 0 .. 2 * m - 1
    BY <2>1
  <2>3. e * n + r = g + m * n
    <3>1. (d + m) * n = d * n + m * n
      OBVIOUS
    <3> QED BY <1>3, <2>1, <3>1
  <2> QED BY <1>7, <2>2, <2>3
<1> QED BY <1>5, <1>6, <1>7

Both(n, r, b) == \E h \in 0 .. 256 * n - 1 : h % n = r /\ h % 256 = b

(* The remainders by an odd number and by 256 are independent.             *)
LEMMA Independent ==
  ASSUME NEW n \in Nat, n % 2 = 1, NEW r \in 0 .. n - 1, NEW b \in 0 .. 255
  PROVE  Both(n, r, b)
<1>0. Meets(n, r, 1)
  <2> SUFFICES ASSUME NEW c \in 0 .. 1 - 1
               PROVE  \E d \in 0 .. 1 - 1 : (d * n + r) % 1 = c
    BY DEF Meets
  <2>1. 0 \in 0 .. 1 - 1 /\ c = 0 /\ 0 * n + r = r
    OBVIOUS
  <2>2. r % 1 = 0
    OBVIOUS
  <2> QED BY <2>1, <2>2
<1>1. Meets(n, r, 2)
  <2>1. Meets(n, r, 2 * 1)
    BY <1>0, MeetsTwice
  <2> QED BY <2>1
<1>2. Meets(n, r, 4)
  <2>1. Meets(n, r, 2 * 2)
    BY <1>1, MeetsTwice
  <2> QED BY <2>1
<1>3. Meets(n, r, 8)
  <2>1. Meets(n, r, 2 * 4)
    BY <1>2, MeetsTwice
  <2> QED BY <2>1
<1>4. Meets(n, r, 16)
  <2>1. Meets(n, r, 2 * 8)
    BY <1>3, MeetsTwice
  <2> QED BY <2>1
<1>5. Meets(n, r, 32)
  <2>1. Meets(n, r, 2 * 16)
    BY <1>4, MeetsTwice
  <2> QED BY <2>1
<1>6. Meets(n, r, 64)
  <2>1. Meets(n, r, 2 * 32)
    BY <1>5, MeetsTwice
  <2> QED BY <2>1
<1>7. Meets(n, r, 128)
  <2>1. Meets(n, r, 2 * 64)
    BY <1>6, MeetsTwice
  <2> QED BY <2>1
<1>8. Meets(n, r, 256)
  <2>1. Meets(n, r, 2 * 128)
    BY <1>7, MeetsTwice
  <2> QED BY <2>1
<1>9. PICK d \in 0 .. 255 : (d * n + r) % 256 = b
  <2>1. 256 - 1 = 255
    OBVIOUS
  <2>2. b \in 0 .. 256 - 1
    OBVIOUS
  <2> QED BY ONLY <1>8, <2>1, <2>2, ZenonT(40) DEF Meets
<1>10. PICK h : h = d * n + r
  OBVIOUS
<1>11. h % n = r
  <2>1. d \in Int /\ n \in Nat \ {0}
    OBVIOUS
  <2> QED BY <1>10, <2>1, RemainderIs
<1>12. h \in 0 .. 256 * n - 1
  <2>1. (255 - d) * n \in Nat /\ (255 - d) * n = 255 * n - d * n /\ d * n \in Nat
    OBVIOUS
  <2> QED BY <1>10, <2>1
<1> QED BY <1>9, <1>10, <1>11, <1>12 DEF Both

(* When the table has an odd number of entries, as realOUIs has, the OUI   *)
(* of an EUI-64 says nothing of the top byte of its extension, though both *)
(* are made from the same bits of the word.                                *)
THEOREM ExtensionFreeHolds ==
  ASSUME Len(OUIs) % 2 = 1
  PROVE  Spec => []ExtensionFree
<1>1. PICK n : n = Len(OUIs)
  OBVIOUS
<1>2. n \in Nat /\ n > 0 /\ n % 2 = 1 /\ DOMAIN OUIs = 1 .. n
  BY <1>1, HardwareAssumption
<1>3. ASSUME NEW h \in 0 .. 256 * n - 1
      PROVE  <<RealOUI(h), h % 256>> \in (1 .. n) \X Byte
  <2>1. RealOUI(h) = (h % n) + 1
    BY <1>1 DEF RealOUI
  <2>2. h \in Nat /\ h % n \in 0 .. n - 1
    BY <1>2
  <2>3. RealOUI(h) \in 1 .. n
    BY <1>2, <2>1, <2>2
  <2>4. h % 256 \in Byte
    BY <2>2 DEF Byte
  <2> QED BY <2>3, <2>4
<1>4. ASSUME NEW o \in 1 .. n, NEW b \in Byte
      PROVE  \E h \in 0 .. 256 * n - 1 : <<RealOUI(h), h % 256>> = <<o, b>>
  <2>1. PICK r : r = o - 1
    OBVIOUS
  <2>2. r \in 0 .. n - 1 /\ r + 1 = o /\ b \in 0 .. 255
    BY <1>2, <2>1 DEF Byte
  <2>3. PICK h \in 0 .. 256 * n - 1 : h % n = r /\ h % 256 = b
    <3>1. Both(n, r, b)
      BY ONLY <1>2, <2>2, Independent
    <3> QED BY <3>1 DEF Both
  <2>4. RealOUI(h) = o
    BY <1>1, <2>2, <2>3 DEF RealOUI
  <2> QED BY <2>3, <2>4
<1>5. {<<RealOUI(h), h % 256>> : h \in 0 .. 256 * n - 1} = (1 .. n) \X Byte
  BY <1>3, <1>4
<1>6. ExtensionFree
  BY <1>1, <1>2, <1>5 DEF ExtensionFree
<1> QED BY <1>6, PTL

-------------------------------------------------------------------------------
(* bluetoothHash, for every number of goroutines, keys and buffers.        *)

(* What a call has established by the time it is at its next statement.    *)
Progress ==
  \A p \in Procs :
    /\ stmt[p] # "idle" => irk[p] \in Keys /\ prand[p] \in Prands
    /\ stmt[p] \in {"get", "prepare", "encrypt"} => cipher[p] = rpaCipher(irk[p])
    /\ stmt[p] \in {"encrypt", "read"} => memory[buf[p]].in = prand[p]
    /\ stmt[p] = "read" => memory[buf[p]].out = Encrypted(irk[p], prand[p])
    /\ stmt[p] = "put" => hash[p] = Encrypted(irk[p], prand[p])

(* While a call is alone nobody can replace what it cached; after it, the  *)
(* calls that run, if any, have its key.                                   *)
Undisturbed ==
  /\ \A p \in Procs :
       alone[p] => /\ stmt[p] # "idle"
                   /\ \A q \in Procs : stmt[q] # "idle" => irk[q] = irk[p]
                   /\ stmt[p] \notin {"load", "store"} => rpaCache = rpaCipher(irk[p])
  /\ recent # None =>
       /\ rpaCache = rpaCipher(recent)
       /\ \A q \in Procs : stmt[q] # "idle" => irk[q] = recent

HashInv == TypeOK /\ Progress /\ BuffersExclusive /\ Undisturbed

LEMMA BeginHashInv ==
  ASSUME HashInv, NEW p \in Procs, NEW k \in Keys, NEW r \in Prands, BeginHash(p, k, r)
  PROVE  HashInv'
<1> USE DEF HashInv, BeginHash, Step
<1>1. TypeOK'
  BY DEF TypeOK
<1>2. Progress'
  BY DistinctAssumption DEF TypeOK, Progress
<1>3. BuffersExclusive'
  BY DEF TypeOK, BuffersExclusive
<1>4. Undisturbed'
  BY DistinctAssumption DEF TypeOK, Progress, Undisturbed, Running
<1> QED BY <1>1, <1>2, <1>3, <1>4

LEMMA LoadHashInv ==
  ASSUME HashInv, NEW p \in Procs, Load(p)
  PROVE  HashInv'
<1> USE DEF HashInv, Load, Step
<1>1. TypeOK'
  BY DEF TypeOK, Cached
<1>2. Progress'
  BY DEF TypeOK, Progress, Cached, Ciphers, rpaCipher
<1>3. BuffersExclusive'
  BY DEF TypeOK, BuffersExclusive
<1>4. Undisturbed'
  BY DEF TypeOK, Progress, Undisturbed, Cached, Ciphers, rpaCipher
<1> QED BY <1>1, <1>2, <1>3, <1>4

LEMMA StoreHashInv ==
  ASSUME HashInv, NEW p \in Procs, Store(p)
  PROVE  HashInv'
<1> USE DEF HashInv, Store, Step
<1>1. TypeOK'
  BY DistinctAssumption DEF TypeOK, Progress, Ciphers
<1>2. Progress'
  BY DEF TypeOK, Progress
<1>3. BuffersExclusive'
  BY DEF TypeOK, BuffersExclusive
<1>4. Undisturbed'
  BY DEF TypeOK, Undisturbed
<1> QED BY <1>1, <1>2, <1>3, <1>4

LEMMA GetHashInv ==
  ASSUME HashInv, NEW p \in Procs, Get(p)
  PROVE  HashInv'
<1> USE DEF HashInv, Get, Step
<1>1. TypeOK'
  BY DistinctAssumption DEF TypeOK
<1>2. Progress'
  BY DEF TypeOK, Progress
<1>3. BuffersExclusive'
  <2>1. \A q \in Procs : buf[q] \notin pool /\ (buf[q] = None \/ buf[q] \in Held)
    BY DEF BuffersExclusive, Held
  <2>2. PICK b \in Buffers : /\ buf' = [buf EXCEPT ![p] = b]
                            /\ (b \in pool \/ b \notin pool \union Held)
                            /\ b \notin pool' /\ pool' \subseteq pool
    BY DEF TypeOK
  <2>3. b # None
    BY DistinctAssumption
  <2>4. \A q \in Procs : buf[q] # b
    BY <2>1, <2>2, <2>3
  <2>5. \A q \in Procs : buf'[q] = IF q = p THEN b ELSE buf[q]
    BY <2>2, SMTT(30) DEF TypeOK
  <2>6. \A q \in Procs : buf'[q] \notin pool'
    BY <2>1, <2>2, <2>5
  <2>7. ASSUME NEW q \in Procs, NEW r \in Procs, q # r, buf'[q] # None
        PROVE  buf'[q] # buf'[r]
    BY <2>4, <2>5, <2>7 DEF BuffersExclusive
  <2> QED BY <2>6, <2>7 DEF BuffersExclusive
<1>4. Undisturbed'
  BY DEF TypeOK, Undisturbed
<1> QED BY <1>1, <1>2, <1>3, <1>4

LEMMA PrepareHashInv ==
  ASSUME HashInv, NEW p \in Procs, Prepare(p)
  PROVE  HashInv'
<1> USE DEF HashInv, Prepare, Step
<1>1. TypeOK'
  BY DEF TypeOK, Progress
<1>2. Progress'
  BY DistinctAssumption DEF TypeOK, Progress, BuffersExclusive
<1>3. BuffersExclusive'
  BY DEF TypeOK, BuffersExclusive
<1>4. Undisturbed'
  BY DEF TypeOK, Undisturbed
<1> QED BY <1>1, <1>2, <1>3, <1>4

LEMMA EncryptHashInv ==
  ASSUME HashInv, NEW p \in Procs, Encrypt(p)
  PROVE  HashInv'
<1> USE DEF HashInv, Encrypt, Step
<1>1. TypeOK'
  <2> DEFINE b == buf[p]
             h == Encrypted(cipher[p].block, memory[b].in)
  <2>1. b \in Buffers /\ stmt[p] = "encrypt"
    BY DEF TypeOK
  <2>2. cipher[p] = rpaCipher(irk[p]) /\ irk[p] \in Keys /\ prand[p] \in Prands
        /\ memory[b].in = prand[p]
    BY <2>1 DEF Progress
  <2>3. h \in Blocks
    BY <2>2 DEF Encrypted, Blocks, rpaCipher
  <2>4. memory' = [memory EXCEPT ![b].out = h]
    OBVIOUS
  <2> HIDE DEF b, h
  <2>5. memory' \in [Buffers -> [in : Prands \union {None}, out : Blocks \union {None}]]
    BY <2>1, <2>3, <2>4 DEF TypeOK
  <2> QED BY <2>5 DEF TypeOK
<1>2. Progress'
  BY DistinctAssumption DEF TypeOK, Progress, BuffersExclusive, rpaCipher
<1>3. BuffersExclusive'
  BY DEF TypeOK, BuffersExclusive
<1>4. Undisturbed'
  BY DEF TypeOK, Undisturbed
<1> QED BY <1>1, <1>2, <1>3, <1>4

LEMMA ReadHashInv ==
  ASSUME HashInv, NEW p \in Procs, Read(p)
  PROVE  HashInv'
<1> USE DEF HashInv, Read, Step
<1>1. TypeOK'
  BY DEF TypeOK
<1>2. Progress'
  BY DEF TypeOK, Progress
<1>3. BuffersExclusive'
  BY DEF TypeOK, BuffersExclusive
<1>4. Undisturbed'
  BY DEF TypeOK, Undisturbed
<1> QED BY <1>1, <1>2, <1>3, <1>4

LEMMA PutHashInv ==
  ASSUME HashInv, NEW p \in Procs, Put(p)
  PROVE  HashInv'
<1> USE DEF HashInv, Put, Step
<1>1. TypeOK'
  BY DEF TypeOK, Progress
<1>2. Progress'
  BY DEF TypeOK, Progress
<1>3. BuffersExclusive'
  BY DistinctAssumption DEF TypeOK, BuffersExclusive
<1>4. Undisturbed'
  BY DEF TypeOK, Undisturbed
<1> QED BY <1>1, <1>2, <1>3, <1>4

LEMMA CollectHashInv ==
  ASSUME HashInv, Collect
  PROVE  HashInv'
<1> USE DEF HashInv, Collect
<1>1. TypeOK'
  BY DEF TypeOK, Zeroed
<1>2. Progress'
  BY DEF TypeOK, Progress, BuffersExclusive
<1>3. BuffersExclusive'
  BY DEF TypeOK, BuffersExclusive
<1>4. Undisturbed'
  BY DEF TypeOK, Undisturbed
<1> QED BY <1>1, <1>2, <1>3, <1>4

LEMMA InitHashInv == HashInit => HashInv
<1> SUFFICES ASSUME HashInit PROVE HashInv
  OBVIOUS
<1> USE DEF HashInit
<1>1. TypeOK
  BY DEF TypeOK, Zeroed
<1>2. Progress /\ BuffersExclusive /\ Undisturbed
  BY DEF Progress, BuffersExclusive, Undisturbed
<1> QED BY <1>1, <1>2 DEF HashInv

LEMMA NextHashInv == HashInv /\ [HashNext]_hashVars => HashInv'
<1> SUFFICES ASSUME HashInv, [HashNext]_hashVars PROVE HashInv'
  OBVIOUS
<1>1. ASSUME NEW p \in Procs, NEW k \in Keys, NEW r \in Prands, BeginHash(p, k, r)
      PROVE  HashInv'
  BY <1>1, BeginHashInv
<1>2. ASSUME NEW p \in Procs, \/ Load(p) \/ Store(p) \/ Get(p) \/ Prepare(p)
                              \/ Encrypt(p) \/ Read(p) \/ Put(p)
      PROVE  HashInv'
  BY <1>2, LoadHashInv, StoreHashInv, GetHashInv, PrepareHashInv,
     EncryptHashInv, ReadHashInv, PutHashInv
<1>3. CASE Collect
  BY <1>3, CollectHashInv
<1>4. CASE UNCHANGED hashVars
  <2>1. TypeOK'
    BY <1>4 DEF hashVars, HashInv, TypeOK
  <2>2. Progress'
    BY <1>4 DEF hashVars, HashInv, Progress
  <2>3. BuffersExclusive'
    BY <1>4 DEF hashVars, HashInv, BuffersExclusive
  <2>4. Undisturbed'
    BY <1>4 DEF hashVars, HashInv, Undisturbed
  <2> QED BY <2>1, <2>2, <2>3, <2>4 DEF HashInv
<1> QED BY <1>1, <1>2, <1>3, <1>4 DEF HashNext

(* Every goroutine gets the hash of its own key and random part.           *)
THEOREM HashIsOwnHolds == HashSpec => []HashIsOwn
<1>1. HashInv => HashIsOwn
  BY DEF HashInv, Progress, HashIsOwn
<1> QED BY <1>1, InitHashInv, NextHashInv, PTL DEF HashSpec

(* No two goroutines work in one buffer, and none in a pooled one.         *)
THEOREM BuffersExclusiveHolds == HashSpec => []BuffersExclusive
<1>1. HashInv => BuffersExclusive
  BY DEF HashInv
<1> QED BY <1>1, InitHashInv, NextHashInv, PTL DEF HashSpec

(* The key of a call that no other key's call overlapped stays cached      *)
(* until a call with another key begins.                                   *)
THEOREM RecentKeyCachedHolds == HashSpec => []RecentKeyCached
<1>1. ASSUME HashInv, recent # None PROVE Cached(rpaCache, recent)
  <2>1. rpaCache = rpaCipher(recent) /\ rpaCache.irk = recent
    BY <1>1 DEF HashInv, Undisturbed, rpaCipher
  <2>2. rpaCache # None
    BY <2>1, <1>1, DistinctAssumption DEF HashInv, TypeOK
  <2> QED BY <2>1, <2>2 DEF Cached
<1>2. HashInv => RecentKeyCached
  BY <1>1 DEF RecentKeyCached
<1> QED BY <1>2, InitHashInv, NextHashInv, PTL DEF HashSpec

(* Every variable keeps its type, and nobody works without a buffer or a   *)
(* cipher.                                                                 *)
THEOREM HashTypeOKHolds == HashSpec => []TypeOK
<1>1. HashInv => TypeOK
  BY DEF HashInv
<1> QED BY <1>1, InitHashInv, NextHashInv, PTL DEF HashSpec
===============================================================================
