------------------------------ MODULE CIDRProofs ------------------------------
(***************************************************************************)
(* Proofs about CIDR, for every set of words, lengths and caller networks. *)
(*                                                                         *)
(* IInv adds to the checked invariants what a call remembers between its   *)
(* steps: what is left to draw, how the network it works on differs from   *)
(* the one it was passed, and that the half of the base the second word    *)
(* goes into is still that of the network passed.                          *)
(***************************************************************************)
EXTENDS CIDR, SequenceTheorems, TLAPS

Kinds == {"IPv4CIDR", "IPv6CIDR", "IPv6ULAPrefix"}

ReqType ==
  [api : {"none", "CIDR", "Prefix", "IPInCIDR", "AddrIn"},
   kind : Kinds \union {"none"}, bits : 0 .. 255, inPlace : BOOLEAN, net : Networks]

GoodNet(n) ==
  /\ n \in Networks
  /\ n.ip \in Octets(n.ipLen)
  /\ n.mask \in Octets(n.maskLen)
  /\ n.bits # NoBits =>
       /\ n.ipLen = n.maskLen
       /\ n.ipLen \in {4, 16}
       /\ n.bits \in 0 .. 8 * n.ipLen
       /\ \A i \in 0 .. 8 * n.ipLen - 1 : n.mask[i] = 1 <=> i < n.bits

Calling == pc \in {"first", "second", "done"}

Shape ==
  /\ pc \in {"idle", "prefix", "first", "second", "done"}
  /\ req \in ReqType
  /\ drawn \in Seq(Words)
  /\ GoodNet(net)
  /\ GoodNet(req.net)
  /\ addr \in Octets(IF Calling THEN net.maskLen ELSE 0)

Prefixing ==
  pc = "prefix" =>
    /\ req.api \in {"CIDR", "Prefix"}
    /\ req.kind \in Kinds
    /\ Len(drawn) < WordsFor(req.kind)

(* What the call in progress may have changed of the network passed to it. *)
Passed ==
  Calling =>
    /\ req.api \in {"IPInCIDR", "AddrIn"}
    /\ IF req.api = "AddrIn" THEN req.net.bits # NoBits ELSE Valid(req.net)
    /\ req.inPlace => req.net.ipLen >= req.net.maskLen
    /\ net = [req.net EXCEPT !.ip = net.ip]
    /\ ~req.inPlace => net.ip = req.net.ip

Drawing ==
  /\ pc = "first" => net = req.net /\ drawn = <<>>
  /\ pc = "second" =>
       /\ net.maskLen = 16
       /\ Len(drawn) = 1
       /\ \A i \in 64 .. 127 : Base(net)[i] = Base(req.net)[i]
  /\ pc = "done" => Len(drawn) = IF net.maskLen = 4 THEN 1 ELSE 2

IInv ==
  /\ Shape
  /\ Prefixing
  /\ Passed
  /\ Drawing
  /\ PrefixCanonical
  /\ AddrInside
  /\ InPlaceKeepsNet

-------------------------------------------------------------------------------
(* The operators.                                                          *)

(* Whole bytes and the first bits of the next are exactly the bits below   *)
(* the prefix length.                                                      *)
LEMMA WholeBytesAndRest ==
  ASSUME NEW bits \in Nat, NEW i \in Nat
  PROVE  (i < 8 * (bits \div 8)
            \/ (bits % 8 # 0 /\ i \div 8 = bits \div 8 /\ i % 8 < bits % 8))
           <=> i < bits
<1>1. PICK q \in Nat, r \in 0 .. 7 : i = 8 * q + r /\ q = i \div 8 /\ r = i % 8
  <2>1. i \div 8 \in Nat /\ i % 8 \in 0 .. 7 /\ i = 8 * (i \div 8) + (i % 8)
    OBVIOUS
  <2> QED  BY <2>1
<1>2. PICK f \in Nat, m \in 0 .. 7 : bits = 8 * f + m /\ f = bits \div 8 /\ m = bits % 8
  <2>1. bits \div 8 \in Nat /\ bits % 8 \in 0 .. 7 /\ bits = 8 * (bits \div 8) + (bits % 8)
    OBVIOUS
  <2> QED  BY <2>1
<1>3. (8 * q + r < 8 * f \/ (m # 0 /\ q = f /\ r < m)) <=> 8 * q + r < 8 * f + m
  OBVIOUS
<1> QED  BY <1>1, <1>2, <1>3

(* maskHostBits keeps those bits and clears the others.                    *)
LEMMA MaskHostBitsKeepsPrefix ==
  ASSUME NEW n \in {4, 16}, NEW bits \in Nat, NEW ip \in Octets(n)
  PROVE  /\ MaskHostBits(ip, n, bits) \in Octets(n)
         /\ \A i \in 0 .. 8 * n - 1 :
              MaskHostBits(ip, n, bits)[i] = IF i < bits THEN ip[i] ELSE 0
<1>1. MaskHostBits(ip, n, bits) = [i \in 0 .. 8 * n - 1 |-> IF i < bits THEN ip[i] ELSE 0]
  <2>1. \A i \in 0 .. 8 * n - 1 :
          (i < 8 * (bits \div 8)
             \/ (bits % 8 # 0 /\ i \div 8 = bits \div 8 /\ i % 8 < bits % 8))
            <=> i < bits
    BY WholeBytesAndRest
  <2> QED  BY <2>1 DEF MaskHostBits
<1> QED  BY <1>1 DEF Octets, Bit

(* A mask says of every bit whether it is below the length (fillCIDRMask). *)
LEMMA CIDRMaskIsPrefix ==
  ASSUME NEW n \in {4, 16}, NEW bits \in Nat
  PROVE  /\ CIDRMask(n, bits) \in Octets(n)
         /\ \A i \in 0 .. 8 * n - 1 : CIDRMask(n, bits)[i] = 1 <=> i < bits
<1> DEFINE ones == [i \in 0 .. 8 * n - 1 |-> 1]
<1>1. CIDRMask(n, bits) = MaskHostBits(ones, n, bits)
  BY DEF CIDRMask
<1>2. ones \in Octets(n) /\ \A i \in 0 .. 8 * n - 1 : ones[i] = 1
  BY DEF Octets, Bit
<1> HIDE DEF ones
<1> QED  BY <1>1, <1>2, MaskHostBitsKeepsPrefix

(* A prefix length is clamped to the width of its addresses.               *)
LEMMA PrefixLenFits ==
  ASSUME NEW kind \in Kinds, NEW bits \in 0 .. 255
  PROVE  LET len == PrefixLen(kind, bits)
         IN  /\ len[2] \in {4, 16}
             /\ len[1] \in 0 .. 8 * len[2]
             /\ kind = "IPv6ULAPrefix" => len[1] = 48 /\ len[2] = 16
             /\ kind # "IPv6ULAPrefix" =>
                  len[1] = IF bits < 8 * len[2] THEN bits ELSE 8 * len[2]
             /\ len[2] = IF kind = "IPv4CIDR" THEN 4 ELSE 16
BY DEF Kinds, PrefixLen

(* The words drawn for a prefix are enough for its bytes.                  *)
LEMMA RandomBytesType ==
  ASSUME NEW words \in Seq(Words), NEW n \in {4, 16}, Len(words) * 8 >= n
  PROVE  RandomBytes(words, n) \in Octets(n)
<1>1. ASSUME NEW i \in 0 .. 8 * n - 1
      PROVE  words[i \div 64 + 1][8 * ((i % 64) \div 8) + 7 - (i % 8)] \in Bit
  <2> DEFINE q == i \div 64
             b == (i % 64) \div 8
             m == i % 8
  <2>1. q \in Nat /\ 64 * q <= i
    OBVIOUS
  <2>2. q + 1 \in 1 .. Len(words)
    BY <2>1
  <2>3. i % 64 \in 0 .. 63
    OBVIOUS
  <2>4. b \in 0 .. 7 /\ m \in 0 .. 7
    BY <2>3
  <2>5. words[q + 1] \in Word
    BY <2>2, CIDRAssumption
  <2> HIDE DEF q, b, m
  <2>6. 8 * b + 7 - m \in 0 .. 63
    BY <2>4
  <2>7. words[q + 1][8 * b + 7 - m] \in Bit
    BY <2>5, <2>6 DEF Word
  <2> QED  BY <2>7 DEF q, b, m
<1> QED  BY <1>1 DEF RandomBytes, Octets

LEMMA UniqueLocalType ==
  ASSUME NEW words \in Seq(Words), Len(words) >= 1
  PROVE  /\ UniqueLocal(words) \in Octets(16)
         /\ \A i \in 0 .. 7 : UniqueLocal(words)[i] = IF i = 6 THEN 0 ELSE 1
         /\ \A i \in 48 .. 127 : UniqueLocal(words)[i] = 0
<1> DEFINE drawnBit(i) == words[1][8 * (i \div 8 - 1) + 7 - (i % 8)]
<1>1. words[1] \in Word
  BY CIDRAssumption
<1>2. ASSUME NEW i \in 8 .. 47
      PROVE  drawnBit(i) \in Bit
  <2> DEFINE q == i \div 8
             m == i % 8
  <2>1. q \in 1 .. 5 /\ m \in 0 .. 7
    OBVIOUS
  <2> HIDE DEF q, m
  <2>2. 8 * (q - 1) + 7 - m \in 0 .. 63
    BY <2>1
  <2>3. words[1][8 * (q - 1) + 7 - m] \in Bit
    BY <1>1, <2>2 DEF Word
  <2> QED  BY <2>3 DEF q, m
<1>3. UniqueLocal(words) = [i \in 0 .. 127 |->
        IF i < 8 THEN (IF i = 6 THEN 0 ELSE 1)
        ELSE IF i < 48 THEN drawnBit(i) ELSE 0]
  BY DEF UniqueLocal
<1> HIDE DEF drawnBit
<1>4. \A i \in 0 .. 127 :
        (IF i < 8 THEN (IF i = 6 THEN 0 ELSE 1)
         ELSE IF i < 48 THEN drawnBit(i) ELSE 0) \in Bit
  <2> TAKE i \in 0 .. 127
  <2>1. CASE i < 8
    BY <2>1 DEF Bit
  <2>2. CASE i >= 8 /\ i < 48
    <3>1. i \in 8 .. 47
      BY <2>2
    <3>2. drawnBit(i) \in Bit
      BY <3>1, <1>2
    <3> QED  BY <2>2, <3>2
  <2>3. CASE i >= 48
    BY <2>3 DEF Bit
  <2> QED  BY <2>1, <2>2, <2>3
<1> DEFINE bit(i) == IF i < 8 THEN (IF i = 6 THEN 0 ELSE 1)
                     ELSE IF i < 48 THEN drawnBit(i) ELSE 0
<1>5. UniqueLocal(words) \in Octets(16)
  <2>1. UniqueLocal(words) = [i \in 0 .. 127 |-> bit(i)]
    BY <1>3
  <2>2. \A i \in 0 .. 127 : bit(i) \in Bit
    BY <1>4
  <2> HIDE DEF bit
  <2>3. [i \in 0 .. 127 |-> bit(i)] \in [0 .. 127 -> Bit]
    BY <2>2
  <2> QED  BY <2>1, <2>3 DEF Octets
<1>6. /\ \A i \in 0 .. 7 : UniqueLocal(words)[i] = IF i = 6 THEN 0 ELSE 1
      /\ \A i \in 48 .. 127 : UniqueLocal(words)[i] = 0
  BY <1>3
<1> QED  BY <1>5, <1>6

(* The shifts of AddrIn make the mask of the prefix, at every length: at   *)
(* 0, 64 and 128 a shift is by the whole width or by nothing.              *)
LEMMA AddrInMaskIsPrefix ==
  ASSUME NEW n \in {4, 16}, NEW bits \in 0 .. 8 * n
  PROVE  \A i \in 0 .. 8 * n - 1 : AddrInMask(n, bits)[i] = 1 <=> i < bits
<1>1. CASE n = 4
  BY <1>1 DEF AddrInMask, OnesShifted
<1>2. CASE n = 16
  <2> DEFINE s == IF bits <= 64 THEN 64 - bits ELSE 0
             t == IF bits <= 64 THEN 64 ELSE 128 - bits
  <2>1. AddrInMask(n, bits) = [i \in 0 .. 127 |-> IF i < 64 THEN OnesShifted(64, s)[i]
                                                   ELSE OnesShifted(64, t)[i - 64]]
    BY <1>2 DEF AddrInMask
  <2>2. s \in 0 .. 64 /\ t \in 0 .. 64
    BY <1>2
  <2>3. \A i \in 0 .. 63 : /\ OnesShifted(64, s)[i] = 1 <=> i < 64 - s
                           /\ OnesShifted(64, t)[i] = 1 <=> i < 64 - t
    BY <2>2 DEF OnesShifted
  <2>4. ASSUME NEW i \in 0 .. 127
        PROVE  AddrInMask(n, bits)[i] = 1 <=> i < bits
    <3>1. CASE i < 64
      BY <3>1, <2>1, <2>3, <1>2
    <3>2. CASE i >= 64
      <4>1. i - 64 \in 0 .. 63
        BY <3>2
      <4>2. AddrInMask(n, bits)[i] = OnesShifted(64, t)[i - 64]
        BY <3>2, <2>1
      <4>3. OnesShifted(64, t)[i - 64] = 1 <=> i - 64 < 64 - t
        BY <4>1, <2>3
      <4> QED  BY <3>2, <4>2, <4>3, <1>2
    <3> QED  BY <3>1, <3>2
  <2> QED  BY <2>4, <1>2
<1> QED  BY <1>1, <1>2

(* The base of a network that is drawn from is as long as its mask.        *)
LEMMA BaseType ==
  ASSUME NEW n, GoodNet(n), Valid(n) \/ n.bits # NoBits
  PROVE  n.maskLen \in {4, 16} /\ Base(n) \in Octets(n.maskLen)
<1>1. n.maskLen \in {4, 16}
  BY DEF GoodNet, Valid
<1>2. n.maskLen = 4 => n.ipLen \in {4, 16}
  BY DEF GoodNet, Valid, HasTo4
<1>3. n.maskLen = 16 => n.ipLen \in {4, 16}
  BY DEF GoodNet, Valid
<1>4. CASE n.maskLen = 4 /\ n.ipLen = 4
  BY <1>4 DEF GoodNet, Base, To4
<1>5. CASE n.maskLen = 4 /\ n.ipLen = 16
  BY <1>5 DEF GoodNet, Base, To4, Octets, Bit
<1>6. CASE n.maskLen = 16 /\ n.ipLen = 16
  BY <1>6 DEF GoodNet, Base, To16
<1>7. CASE n.maskLen = 16 /\ n.ipLen = 4
  BY <1>7 DEF GoodNet, Base, To16, Octets, Bit
<1> QED  BY <1>1, <1>2, <1>3, <1>4, <1>5, <1>6, <1>7

-------------------------------------------------------------------------------
(* One word of an address.                                                 *)

(* The mask drawn with tells the network's bits, whichever function made   *)
(* it.                                                                     *)
LEMMA MaskTellsNetworkBits ==
  ASSUME Shape, Passed, pc \in {"first", "second"}
  PROVE  /\ net.maskLen \in {4, 16}
         /\ \A i \in 0 .. 8 * net.maskLen - 1 : Mask[i] = 1 <=> NetworkBit(req.net, i)
<1>1. GoodNet(req.net) /\ GoodNet(net)
  BY DEF Shape
<1>2. net = [req.net EXCEPT !.ip = net.ip]
  BY DEF Passed, Calling
<1>3. /\ net.maskLen = req.net.maskLen
      /\ net.ipLen = req.net.ipLen
      /\ net.mask = req.net.mask
      /\ net.bits = req.net.bits
  <2>1. req.net \in Networks
    BY <1>1 DEF GoodNet
  <2> QED  BY <1>2, <2>1 DEF Networks
<1>4. IF req.api = "AddrIn" THEN req.net.bits # NoBits ELSE Valid(req.net)
  BY DEF Passed, Calling
<1>5. net.maskLen \in {4, 16}
  BY <1>1, <1>3, <1>4, BaseType
<1>6. CASE req.api = "AddrIn"
  <2>1. /\ net.ipLen = net.maskLen
        /\ net.bits \in 0 .. 8 * net.ipLen
        /\ net.bits # NoBits
    BY <1>1, <1>3, <1>4, <1>6 DEF GoodNet
  <2>2. \A i \in 0 .. 8 * net.ipLen - 1 :
          AddrInMask(net.ipLen, net.bits)[i] = 1 <=> i < net.bits
    <3> DEFINE n == net.ipLen
               b == net.bits
    <3>1. n \in {4, 16} /\ b \in 0 .. 8 * n
      BY <1>5, <2>1, SMTT(30)
    <3> HIDE DEF n, b
    <3>2. \A i \in 0 .. 8 * n - 1 : AddrInMask(n, b)[i] = 1 <=> i < b
      BY <3>1, AddrInMaskIsPrefix
    <3> QED  BY <3>2 DEF n, b
  <2> QED  BY <1>3, <1>5, <1>6, <2>1, <2>2 DEF Mask, NetworkBit
<1>7. CASE req.api # "AddrIn"
  <2>1. \A i \in 0 .. 8 * net.maskLen - 1 : net.mask[i] = 1 <=> NetworkBit(req.net, i)
    BY <1>1, <1>3 DEF GoodNet, NetworkBit
  <2> QED  BY <1>5, <1>7, <2>1 DEF Mask
<1> QED  BY <1>6, <1>7

(* What a word writes: network bits of the base of the network that was    *)
(* passed, host bits of the word.                                          *)
LEMMA HostBitsInside ==
  ASSUME Shape, Passed, Drawing, NEW w \in Words, NEW from, NEW width,
         \/ pc = "first" /\ from = 0 /\ width = IF net.maskLen = 4 THEN 32 ELSE 64
         \/ pc = "second" /\ from = 64 /\ width = 64
  PROVE  LET part == HostBits(Base(net), Mask, w, from, width)
         IN  /\ from \in {0, 64} /\ width \in {32, 64}
             /\ from + width <= 8 * net.maskLen
             /\ net.maskLen \in {4, 16}
             /\ part \in [from .. from + width - 1 -> Bit]
             /\ \A i \in from .. from + width - 1 :
                  part[i] = IF NetworkBit(req.net, i) THEN Base(req.net)[i]
                            ELSE w[width - 1 - (i - from)]
<1>1. /\ net.maskLen \in {4, 16}
      /\ \A i \in 0 .. 8 * net.maskLen - 1 : Mask[i] = 1 <=> NetworkBit(req.net, i)
  BY MaskTellsNetworkBits
<1>2. from \in {0, 64} /\ width \in {32, 64} /\ from + width <= 8 * net.maskLen
  <2>1. CASE pc = "first" /\ from = 0 /\ width = IF net.maskLen = 4 THEN 32 ELSE 64
    BY <1>1, <2>1
  <2>2. CASE pc = "second" /\ from = 64 /\ width = 64
    BY <2>2 DEF Drawing
  <2> QED  BY <2>1, <2>2
<1>3. Base(req.net) \in Octets(req.net.maskLen)
  BY BaseType DEF Shape, Passed, Calling
<1>4. req.net.maskLen = net.maskLen
  <2>1. req.net \in Networks /\ net = [req.net EXCEPT !.ip = net.ip]
    BY DEF Shape, GoodNet, Passed, Calling
  <2> QED  BY <2>1 DEF Networks
<1>5. \A i \in from .. from + width - 1 : Base(net)[i] = Base(req.net)[i]
  <2>1. CASE pc = "first"
    BY <2>1 DEF Drawing
  <2>2. CASE pc = "second" /\ from = 64 /\ width = 64
    BY <2>2 DEF Drawing
  <2> QED  BY <2>1, <2>2
<1>6. w \in Word
  BY CIDRAssumption
<1>7. ASSUME NEW i \in from .. from + width - 1
      PROVE  /\ HostBits(Base(net), Mask, w, from, width)[i]
                  = IF NetworkBit(req.net, i) THEN Base(req.net)[i]
                    ELSE w[width - 1 - (i - from)]
             /\ HostBits(Base(net), Mask, w, from, width)[i] \in Bit
  <2>1. i \in 0 .. 8 * net.maskLen - 1
    BY <1>1, <1>2
  <2>2. width - 1 - (i - from) \in 0 .. 63
    BY <1>2
  <2>3. HostBits(Base(net), Mask, w, from, width)[i]
          = IF Mask[i] = 1 THEN Base(net)[i] ELSE w[width - 1 - (i - from)]
    BY DEF HostBits
  <2>4. Base(req.net)[i] \in Bit
    BY <2>1, <1>3, <1>4 DEF Octets
  <2>5. w[width - 1 - (i - from)] \in Bit
    BY <1>6, <2>2 DEF Word
  <2> QED  BY <1>1, <1>5, <2>1, <2>3, <2>4, <2>5
<1>8. HostBits(Base(net), Mask, w, from, width) \in [from .. from + width - 1 -> Bit]
  <2> DEFINE h == HostBits(Base(net), Mask, w, from, width)
  <2>1. h = [i \in from .. from + width - 1 |-> h[i]]
    BY DEF HostBits
  <2> HIDE DEF h
  <2>2. \A i \in from .. from + width - 1 : h[i] \in Bit
    BY <1>7 DEF h
  <2>3. h \in [from .. from + width - 1 -> Bit]
    BY <2>1, <2>2
  <2> QED  BY <2>3 DEF h
<1> QED  BY <1>1, <1>2, <1>7, <1>8

(* The next network and address, a part at a time.                         *)
LEMMA WriteHostEffect ==
  ASSUME Shape, Passed, Drawing, NEW w \in Words, NEW from, NEW width,
         \/ pc = "first" /\ from = 0 /\ width = IF net.maskLen = 4 THEN 32 ELSE 64
         \/ pc = "second" /\ from = 64 /\ width = 64,
         WriteHost(w, from, width)
  PROVE  LET written(i) == i \in from .. from + width - 1
             bit(i) == IF NetworkBit(req.net, i) THEN Base(req.net)[i]
                       ELSE w[width - 1 - (i - from)]
         IN  /\ from + width <= 8 * net.maskLen
             /\ net.maskLen \in {4, 16}
             /\ addr' \in Octets(net.maskLen)
             /\ \A i \in 0 .. 8 * net.maskLen - 1 :
                  addr'[i] = IF written(i) THEN bit(i) ELSE addr[i]
             /\ net' = [net EXCEPT !.ip = net'.ip]
             /\ net'.ip \in Octets(net.ipLen)
             /\ \A i \in 0 .. 8 * net.ipLen - 1 :
                  net'.ip[i] = IF req.inPlace /\ written(i) THEN bit(i) ELSE net.ip[i]
             /\ ~req.inPlace => net'.ip = net.ip
             /\ drawn' = Append(drawn, w)
             /\ req' = req
<1> DEFINE part == HostBits(Base(net), Mask, w, from, width)
<1>1. /\ from \in {0, 64} /\ width \in {32, 64}
      /\ from + width <= 8 * net.maskLen
      /\ net.maskLen \in {4, 16}
      /\ part \in [from .. from + width - 1 -> Bit]
      /\ \A i \in from .. from + width - 1 :
           part[i] = IF NetworkBit(req.net, i) THEN Base(req.net)[i]
                     ELSE w[width - 1 - (i - from)]
  BY HostBitsInside
<1>2. /\ drawn' = Append(drawn, w)
      /\ addr' = Overwrite(addr, part)
      /\ net' = [net EXCEPT !.ip = IF req.inPlace THEN Overwrite(net.ip, part) ELSE net.ip]
      /\ req' = req
  BY DEF WriteHost
<1> HIDE DEF part
<1>3. addr \in Octets(net.maskLen)
  BY DEF Shape, Calling
<1>0. from \in Nat /\ width \in Nat /\ net.maskLen \in {0, 4, 16}
  BY <1>1
<1>4. /\ addr' \in Octets(net.maskLen)
      /\ \A i \in 0 .. 8 * net.maskLen - 1 :
           addr'[i] = IF i \in from .. from + width - 1 THEN part[i] ELSE addr[i]
  BY <1>1, <1>2, <1>3, <1>0 DEF Overwrite, Octets
<1>5. net \in Networks /\ net.ip \in Octets(net.ipLen)
  BY DEF Shape, GoodNet
<1>6. net'.ip = IF req.inPlace THEN Overwrite(net.ip, part) ELSE net.ip
  BY <1>2, <1>5 DEF Networks
<1>7. net' = [net EXCEPT !.ip = net'.ip]
  BY <1>2, <1>5, <1>6 DEF Networks
<1>8. net.ipLen \in {0, 4, 16}
  BY <1>5 DEF Networks
<1>9. /\ Overwrite(net.ip, part) \in Octets(net.ipLen)
      /\ \A i \in 0 .. 8 * net.ipLen - 1 :
           Overwrite(net.ip, part)[i]
             = IF i \in from .. from + width - 1 THEN part[i] ELSE net.ip[i]
  BY <1>1, <1>5, <1>8, <1>0 DEF Overwrite, Octets
<1>10. net'.ip \in Octets(net.ipLen)
  BY <1>5, <1>6, <1>9
<1>11. \A i \in 0 .. 8 * net.ipLen - 1 :
         net'.ip[i] = IF req.inPlace /\ i \in from .. from + width - 1 THEN part[i]
                      ELSE net.ip[i]
  BY <1>6, <1>9
<1> QED  BY <1>1, <1>2, <1>4, <1>6, <1>7, <1>10, <1>11

-------------------------------------------------------------------------------
(* The invariant.                                                          *)

LEMMA NoNetGood == GoodNet(NoNet) /\ NoNet.ip \in Octets(0) /\ NoReq \in ReqType
<1>1. NoNet.ip \in Octets(0) /\ NoNet.mask \in Octets(0)
  BY DEF NoNet, Octets, Bit
<1>2. NoNet \in Networks
  BY <1>1 DEF NoNet, Networks
<1> QED  BY <1>1, <1>2 DEF NoNet, GoodNet, NoReq, ReqType

LEMMA InitIInv == Init => IInv
<1> SUFFICES ASSUME Init PROVE IInv
  OBVIOUS
<1>1. GoodNet(net)
  BY NoNetGood, CIDRAssumption DEF Init, GoodNet
<1>2. GoodNet(req.net)
  BY NoNetGood DEF Init, NoReq
<1>3. Shape
  BY <1>1, <1>2, NoNetGood DEF Init, Shape, Calling
<1>4. DOMAIN addr = {}
  BY DEF Init, NoNet
<1>5. req.api = "none"
  BY DEF Init, NoReq
<1> QED  BY <1>3, <1>4, <1>5 DEF Init, IInv, Prefixing, Passed, Calling, Drawing,
           PrefixCanonical, AddrInside, InPlaceKeepsNet

(* A step to idle or to drawing a prefix leaves only the facts about the   *)
(* network to show.                                                        *)
LEMMA OutsideCalls ==
  ASSUME Shape', Prefixing', PrefixCanonical', pc' \in {"idle", "prefix"},
         addr' = NoNet.ip
  PROVE  IInv'
<1>1. DOMAIN addr' = {}
  BY DEF NoNet
<1> QED  BY <1>1 DEF IInv, Passed, Calling, Drawing, AddrInside, InPlaceKeepsNet

LEMMA GenerateIInv ==
  ASSUME IInv, NEW kind \in Kinds, NEW bits \in Lengths, NEW api \in {"CIDR", "Prefix"},
         Generate(api, kind, bits)
  PROVE  IInv'
<1>1. req' = [api |-> api, kind |-> kind, bits |-> bits, inPlace |-> FALSE, net |-> NoNet]
  BY DEF Generate, NoReq
<1>2. bits \in 0 .. 255
  BY CIDRAssumption
<1>3. req' \in ReqType
  <2>1. NoNet \in Networks
    BY NoNetGood DEF GoodNet
  <2> QED  BY <1>1, <1>2, <2>1 DEF ReqType
<1>4. Shape'
  <2>1. /\ pc' = "prefix"
        /\ net' = NoNet
        /\ drawn' = <<>>
        /\ addr' = NoNet.ip
    BY DEF Generate
  <2>2. GoodNet(net') /\ GoodNet(req'.net) /\ addr' \in Octets(0)
    BY <1>1, <2>1, NoNetGood
  <2> QED  BY <1>3, <2>1, <2>2 DEF Shape, Calling
<1>5. Prefixing'
  BY <1>1 DEF Generate, Prefixing, WordsFor
<1>6. PrefixCanonical'
  BY DEF Generate, PrefixCanonical
<1> QED  BY <1>4, <1>5, <1>6, OutsideCalls DEF Generate

(* What fillPrefix and fillCIDRMask make of the words is a network, with   *)
(* nothing after its prefix.                                               *)
LEMMA FillPrefixCanonical ==
  ASSUME NEW kind \in Kinds, NEW bits \in 0 .. 255, NEW words \in Seq(Words),
         Len(words) = WordsFor(kind)
  PROVE  LET len == PrefixLen(kind, bits)
             ip == FillPrefix(words, kind, len[2], len[1])
         IN  /\ ip \in Octets(len[2])
             /\ \A i \in 0 .. 8 * len[2] - 1 : i >= len[1] => ip[i] = 0
             /\ kind = "IPv6ULAPrefix" =>
                  \A i \in 0 .. 7 : ip[i] = IF i = 6 THEN 0 ELSE 1
<1> DEFINE n == PrefixLen(kind, bits)[2]
           b == PrefixLen(kind, bits)[1]
<1>1. /\ n \in {4, 16}
      /\ b \in 0 .. 8 * n
      /\ kind = "IPv6ULAPrefix" => b = 48 /\ n = 16
      /\ n = IF kind = "IPv4CIDR" THEN 4 ELSE 16
  BY PrefixLenFits
<1> HIDE DEF n, b
<1>2. CASE kind = "IPv6ULAPrefix"
  <2>1. Len(words) >= 1
    BY <1>2 DEF WordsFor
  <2>2. /\ UniqueLocal(words) \in Octets(16)
        /\ \A i \in 0 .. 7 : UniqueLocal(words)[i] = IF i = 6 THEN 0 ELSE 1
        /\ \A i \in 48 .. 127 : UniqueLocal(words)[i] = 0
    BY <2>1, UniqueLocalType
  <2>3. FillPrefix(words, kind, n, b) = UniqueLocal(words)
    BY <1>2 DEF FillPrefix
  <2>4. n = 16 /\ b = 48
    BY <1>1, <1>2
  <2>5. ASSUME NEW i \in 0 .. 8 * n - 1, i >= b
        PROVE  UniqueLocal(words)[i] = 0
    <3>1. i \in 48 .. 127
      BY <2>4, <2>5
    <3> QED  BY <2>2, <3>1
  <2>6. /\ FillPrefix(words, kind, n, b) \in Octets(n)
        /\ \A i \in 0 .. 8 * n - 1 : i >= b => FillPrefix(words, kind, n, b)[i] = 0
        /\ kind = "IPv6ULAPrefix" =>
             \A i \in 0 .. 7 : FillPrefix(words, kind, n, b)[i] = IF i = 6 THEN 0 ELSE 1
    BY <2>2, <2>3, <2>4, <2>5
  <2> QED  BY <2>6 DEF n, b
<1>3. CASE kind # "IPv6ULAPrefix"
  <2>1. Len(words) * 8 >= n
    BY <1>1, <1>3 DEF WordsFor, Kinds
  <2> DEFINE random == RandomBytes(words, n)
  <2>2. random \in Octets(n)
    BY <1>1, <2>1, RandomBytesType
  <2> HIDE DEF random
  <2>3. b \in Nat
    BY <1>1
  <2>4. /\ MaskHostBits(random, n, b) \in Octets(n)
        /\ \A i \in 0 .. 8 * n - 1 :
             MaskHostBits(random, n, b)[i] = IF i < b THEN random[i] ELSE 0
    BY <1>1, <2>2, <2>3, MaskHostBitsKeepsPrefix
  <2>5. FillPrefix(words, kind, n, b) = MaskHostBits(random, n, b)
    BY <1>3 DEF FillPrefix, random
  <2>6. \A i \in 0 .. 8 * n - 1 : i >= b => MaskHostBits(random, n, b)[i] = 0
    BY <1>1, <2>4
  <2> QED  BY <1>3, <2>4, <2>5, <2>6 DEF n, b
<1> QED  BY <1>2, <1>3, SMTT(30)

LEMMA DrawPrefixIInv ==
  ASSUME IInv, NEW w \in Words, DrawPrefix(w)
  PROVE  IInv'
<1> DEFINE words == Append(drawn, w)
           n == PrefixLen(req.kind, req.bits)[2]
           b == PrefixLen(req.kind, req.bits)[1]
           ip == FillPrefix(words, req.kind, n, b)
           mask == CIDRMask(n, b)
<1>1. /\ pc = "prefix"
      /\ req.api \in {"CIDR", "Prefix"}
      /\ req.kind \in Kinds
      /\ Len(drawn) < WordsFor(req.kind)
  BY DEF DrawPrefix, IInv, Prefixing
<1>2. /\ drawn \in Seq(Words)
      /\ req \in ReqType
      /\ GoodNet(net)
      /\ GoodNet(req.net)
      /\ addr \in Octets(0)
  BY <1>1 DEF IInv, Shape, Calling
<1>3. words \in Seq(Words) /\ Len(words) = Len(drawn) + 1
  BY <1>2
<1>4. /\ drawn' = words
      /\ req' = req
      /\ addr' = addr
      /\ IF Len(words) < WordsFor(req.kind) THEN pc' = pc /\ net' = net
         ELSE /\ pc' = "idle"
              /\ net' = [ip |-> ip, ipLen |-> n, mask |-> mask, maskLen |-> n, bits |-> b]
  BY DEF DrawPrefix
<1>5. req.bits \in 0 .. 255
  BY <1>2 DEF ReqType
<1>6. addr' = NoNet.ip
  <2>1. addr = [i \in 0 .. -1 |-> addr[i]]
    BY <1>2 DEF Octets
  <2> QED  BY <1>4, <2>1 DEF NoNet
<1>7. CASE Len(words) < WordsFor(req.kind)
  <2>1. Shape'
    BY <1>1, <1>2, <1>3, <1>4, <1>7 DEF Shape, Calling
  <2>2. Prefixing'
    BY <1>1, <1>4, <1>7 DEF Prefixing
  <2>3. PrefixCanonical'
    BY <1>1, <1>4, <1>7 DEF PrefixCanonical
  <2> QED  BY <1>1, <1>4, <1>6, <1>7, <2>1, <2>2, <2>3, OutsideCalls
<1>8. CASE ~(Len(words) < WordsFor(req.kind))
  <2>1. /\ n \in {4, 16}
        /\ b \in 0 .. 8 * n
        /\ req.kind = "IPv6ULAPrefix" => b = 48 /\ n = 16
        /\ req.kind # "IPv6ULAPrefix" => b = IF req.bits < 8 * n THEN req.bits ELSE 8 * n
        /\ n = IF req.kind = "IPv4CIDR" THEN 4 ELSE 16
    BY <1>1, <1>5, PrefixLenFits
  <2>2. Len(words) = WordsFor(req.kind)
    <3>1. Len(drawn) \in Nat /\ WordsFor(req.kind) \in {1, 2}
      BY <1>2 DEF WordsFor
    <3> QED  BY <1>1, <1>3, <1>8, <3>1
  <2>3. /\ ip \in Octets(n)
        /\ \A i \in 0 .. 8 * n - 1 : i >= b => ip[i] = 0
        /\ req.kind = "IPv6ULAPrefix" => \A i \in 0 .. 7 : ip[i] = IF i = 6 THEN 0 ELSE 1
    <3> DEFINE kind == req.kind
               bits == req.bits
               ws == words
    <3>1. kind \in Kinds /\ bits \in 0 .. 255 /\ ws \in Seq(Words) /\ Len(ws) = WordsFor(kind)
      BY <1>1, <1>3, <1>5, <2>2, SMTT(30)
    <3> HIDE DEF kind, bits, ws
    <3>2. LET len == PrefixLen(kind, bits)
              made == FillPrefix(ws, kind, len[2], len[1])
          IN  /\ made \in Octets(len[2])
              /\ \A i \in 0 .. 8 * len[2] - 1 : i >= len[1] => made[i] = 0
              /\ kind = "IPv6ULAPrefix" =>
                   \A i \in 0 .. 7 : made[i] = IF i = 6 THEN 0 ELSE 1
      BY <3>1, FillPrefixCanonical
    <3> QED  BY <3>2 DEF kind, bits, ws
  <2> HIDE DEF n, b, ip, mask, words
  <2>4. /\ mask \in Octets(n)
        /\ \A i \in 0 .. 8 * n - 1 : mask[i] = 1 <=> i < b
    <3>1. b \in Nat
      BY <2>1
    <3> QED  BY <2>1, <3>1, CIDRMaskIsPrefix DEF mask
  <2>5. net' = [ip |-> ip, ipLen |-> n, mask |-> mask, maskLen |-> n, bits |-> b]
        /\ pc' = "idle"
    BY <1>4, <1>8
  <2>6. b \in 0 .. 128
    BY <2>1
  <2>7. net' \in Networks
    <3>1. ip \in Octets(4) \union Octets(16) \union Octets(0)
          /\ mask \in Octets(4) \union Octets(16) \union Octets(0)
      BY <2>1, <2>3, <2>4
    <3> QED  BY <2>1, <2>5, <2>6, <3>1 DEF Networks
  <2>8. GoodNet(net')
    BY <2>1, <2>3, <2>4, <2>5, <2>7 DEF GoodNet
  <2>9. Shape'
    <3>1. addr' \in Octets(0)
      BY <1>2, <1>4
    <3> QED  BY <1>2, <1>3, <1>4, <2>5, <2>8, <3>1 DEF Shape, Calling
  <2>10. PrefixCanonical'
    BY <1>4, <2>1, <2>3, <2>4, <2>5 DEF PrefixCanonical
  <2>11. Prefixing'
    BY <2>5 DEF Prefixing
  <2> QED  BY <1>6, <2>5, <2>9, <2>10, <2>11, OutsideCalls
<1> QED  BY <1>7, <1>8

LEMMA StartIInv ==
  ASSUME IInv, NEW api \in {"IPInCIDR", "AddrIn"}, NEW inPlace \in BOOLEAN,
         Start(api, inPlace)
  PROVE  IInv'
<1>1. /\ pc' = "first"
      /\ req' = [api |-> api, kind |-> "none", bits |-> 0, inPlace |-> inPlace, net |-> net]
      /\ drawn' = <<>>
      /\ addr' = [i \in 0 .. 8 * net.maskLen - 1 |-> 0]
      /\ net' = net
      /\ IF api = "AddrIn" THEN net.bits # NoBits ELSE Valid(net)
      /\ inPlace => net.ipLen >= net.maskLen
  BY DEF Start, NoReq
<1>2. GoodNet(net)
  BY DEF IInv, Shape
<1>3. net \in Networks
  BY <1>2 DEF GoodNet
<1>4. req' \in ReqType
  BY <1>1, <1>3 DEF ReqType
<1>5. addr' \in Octets(net.maskLen)
  BY <1>1 DEF Octets, Bit
<1>6. Shape'
  <2>1. GoodNet(net') /\ GoodNet(req'.net)
    BY <1>1, <1>2
  <2> QED  BY <1>1, <1>4, <1>5, <2>1 DEF Shape, Calling
<1>7. Passed'
  <2>1. req'.net = net /\ req'.api = api /\ req'.inPlace = inPlace
    BY <1>1
  <2>2. net = [net EXCEPT !.ip = net.ip]
    BY <1>3 DEF Networks
  <2> QED  BY <1>1, <2>1, <2>2 DEF Passed, Calling
<1>8. req'.net = net'
  BY <1>1
<1> QED  BY <1>1, <1>6, <1>7, <1>8 DEF IInv, Prefixing, Drawing, PrefixCanonical,
           AddrInside, InPlaceKeepsNet

LEMMA RefuseIInv ==
  ASSUME IInv, NEW api \in {"IPInCIDR", "AddrIn"}, Refuse(api)
  PROVE  IInv'
<1>1. /\ pc' = "idle"
      /\ req' = [api |-> api, kind |-> "none", bits |-> 0, inPlace |-> FALSE, net |-> NoNet]
      /\ drawn' = <<>>
      /\ addr' = NoNet.ip
      /\ net' = net
  BY DEF Refuse, NoReq
<1>2. NoNet \in Networks
  BY NoNetGood DEF GoodNet
<1>3. req' \in ReqType
  BY <1>1, <1>2 DEF ReqType
<1>4. GoodNet(net') /\ GoodNet(req'.net) /\ addr' \in Octets(0)
  BY <1>1, NoNetGood DEF IInv, Shape
<1>5. Shape'
  BY <1>1, <1>3, <1>4 DEF Shape, Calling
<1> QED  BY <1>1, <1>5, OutsideCalls DEF Prefixing, PrefixCanonical

LEMMA ReturnIInv ==
  ASSUME IInv, Return
  PROVE  IInv'
<1>1. /\ pc' = "idle"
      /\ req' = NoReq
      /\ drawn' = <<>>
      /\ addr' = NoNet.ip
      /\ net' = net
  BY DEF Return
<1>2. GoodNet(net') /\ GoodNet(req'.net) /\ addr' \in Octets(0) /\ req' \in ReqType
  BY <1>1, NoNetGood DEF IInv, Shape, NoReq
<1>3. Shape'
  BY <1>1, <1>2 DEF Shape, Calling
<1>4. req'.api = "none"
  BY <1>1 DEF NoReq
<1> QED  BY <1>1, <1>3, <1>4, OutsideCalls DEF Prefixing, PrefixCanonical

(* What First and Second keep alike.                                       *)
LEMMA WriteHostKeeps ==
  ASSUME IInv, NEW w \in Words, NEW from, NEW width,
         \/ pc = "first" /\ from = 0 /\ width = IF net.maskLen = 4 THEN 32 ELSE 64
         \/ pc = "second" /\ from = 64 /\ width = 64,
         WriteHost(w, from, width), pc' \in {"second", "done"}
  PROVE  Shape' /\ Prefixing' /\ Passed' /\ PrefixCanonical' /\ InPlaceKeepsNet'
<1> DEFINE written(i) == i \in from .. from + width - 1
           bit(i) == IF NetworkBit(req.net, i) THEN Base(req.net)[i]
                     ELSE w[width - 1 - (i - from)]
<1>1. /\ net.maskLen \in {4, 16}
      /\ addr' \in Octets(net.maskLen)
      /\ net' = [net EXCEPT !.ip = net'.ip]
      /\ net'.ip \in Octets(net.ipLen)
      /\ \A i \in 0 .. 8 * net.ipLen - 1 :
           net'.ip[i] = IF req.inPlace /\ written(i) THEN bit(i) ELSE net.ip[i]
      /\ ~req.inPlace => net'.ip = net.ip
      /\ drawn' = Append(drawn, w)
      /\ req' = req
  BY WriteHostEffect DEF IInv
<1>2. /\ GoodNet(net)
      /\ GoodNet(req.net)
      /\ req \in ReqType
      /\ drawn \in Seq(Words)
  BY DEF IInv, Shape
<1>3. net \in Networks /\ req.net \in Networks
  BY <1>2 DEF GoodNet
<1>4. /\ net'.ipLen = net.ipLen
      /\ net'.mask = net.mask
      /\ net'.maskLen = net.maskLen
      /\ net'.bits = net.bits
  BY <1>1, <1>3 DEF Networks
<1>5. net = [req.net EXCEPT !.ip = net.ip]
  BY DEF IInv, Passed, Calling
<1>6. /\ net.ipLen = req.net.ipLen
      /\ net.mask = req.net.mask
      /\ net.maskLen = req.net.maskLen
      /\ net.bits = req.net.bits
  BY <1>3, <1>5 DEF Networks
<1>7. net.ipLen \in {0, 4, 16}
  BY <1>3 DEF Networks
<1>8. GoodNet(net')
  <2>1. net'.ip \in Octets(4) \union Octets(16) \union Octets(0)
    BY <1>1, <1>7
  <2>2. net' \in Networks
    BY <1>1, <1>3, <2>1, ZenonT(60) DEF Networks
  <2> QED  BY <1>1, <1>2, <1>4, <2>2 DEF GoodNet
<1>9. Shape'
  <2>1. drawn' \in Seq(Words)
    BY <1>1, <1>2
  <2>2. addr' \in Octets(net'.maskLen)
    BY <1>1, <1>4
  <2>3. GoodNet(req'.net) /\ req' \in ReqType
    BY <1>1, <1>2
  <2> QED  BY <1>8, <2>1, <2>2, <2>3 DEF Shape, Calling
<1>10. Passed'
  <2>1. net' = [req.net EXCEPT !.ip = net'.ip]
    BY <1>1, <1>3, <1>5 DEF Networks
  <2>2. ~req.inPlace => net'.ip = req.net.ip
    BY <1>1 DEF IInv, Passed, Calling
  <2> QED  BY <1>1, <2>1, <2>2 DEF IInv, Passed, Calling
<1>11. InPlaceKeepsNet'
  <2> SUFFICES ASSUME req.net.ipLen = req.net.maskLen
               PROVE  \A i \in DOMAIN net'.ip :
                        net'.ip[i] # req.net.ip[i] =>
                          req.inPlace /\ ~NetworkBit(req.net, i)
    BY <1>1, <1>4, <1>6 DEF InPlaceKeepsNet
  <2>1. Base(req.net) = req.net.ip
    BY <1>1, <1>6 DEF Base, To4, To16
  <2>2. DOMAIN net'.ip = 0 .. 8 * net.ipLen - 1 /\ DOMAIN net.ip = 0 .. 8 * net.ipLen - 1
    BY <1>1, <1>2 DEF GoodNet, Octets
  <2>3. \A i \in DOMAIN net.ip :
          net.ip[i] # req.net.ip[i] => req.inPlace /\ ~NetworkBit(req.net, i)
    BY DEF IInv, Drawing, InPlaceKeepsNet
  <2> HIDE DEF written
  <2> QED  BY <1>1, <2>1, <2>2, <2>3
<1>12. Prefixing' /\ PrefixCanonical'
  BY DEF Prefixing, PrefixCanonical
<1> QED  BY <1>9, <1>10, <1>11, <1>12

LEMMA FirstIInv ==
  ASSUME IInv, NEW w \in Words, First(w)
  PROVE  IInv'
<1> DEFINE width == IF net.maskLen = 4 THEN 32 ELSE 64
<1>1. /\ pc = "first"
      /\ WriteHost(w, 0, width)
      /\ pc' = IF net.maskLen = 4 THEN "done" ELSE "second"
  BY DEF First
<1>2. Shape' /\ Prefixing' /\ Passed' /\ PrefixCanonical' /\ InPlaceKeepsNet'
  BY <1>1, WriteHostKeeps
<1>3. /\ width <= 8 * net.maskLen
      /\ net.maskLen \in {4, 16}
      /\ addr' \in Octets(net.maskLen)
      /\ \A i \in 0 .. 8 * net.maskLen - 1 :
           addr'[i] = IF i \in 0 .. width - 1
                      THEN IF NetworkBit(req.net, i) THEN Base(req.net)[i] ELSE w[width - 1 - i]
                      ELSE addr[i]
      /\ net' = [net EXCEPT !.ip = net'.ip]
      /\ net'.ip \in Octets(net.ipLen)
      /\ \A i \in 0 .. 8 * net.ipLen - 1 : i \notin 0 .. width - 1 => net'.ip[i] = net.ip[i]
      /\ ~req.inPlace => net'.ip = net.ip
      /\ drawn' = Append(drawn, w)
      /\ req' = req
  BY <1>1, WriteHostEffect DEF IInv
<1>4. net = req.net /\ drawn = <<>>
  BY <1>1 DEF IInv, Drawing
<1>5. net \in Networks
  BY DEF IInv, Shape, GoodNet
<1>6. net'.maskLen = net.maskLen /\ net'.ipLen = net.ipLen
  BY <1>3, <1>5 DEF Networks
<1>7. Len(drawn') = 1 /\ drawn'[1] = w
  BY <1>3, <1>4
<1>8. net.maskLen = 16 => \A i \in 64 .. 127 : Base(net')[i] = Base(req'.net)[i]
  <2> SUFFICES ASSUME net.maskLen = 16, NEW i \in 64 .. 127
               PROVE  Base(net')[i] = Base(net)[i]
    BY <1>3, <1>4
  <2>1. CASE ~req.inPlace
    <3>1. net'.ip = net.ip /\ net' = [net EXCEPT !.ip = net'.ip]
      BY <1>3, <2>1
    <3>2. net = [net EXCEPT !.ip = net.ip]
      BY <1>5 DEF Networks
    <3> QED  BY <3>1, <3>2
  <2>2. CASE req.inPlace
    <3>1. net.ipLen >= 16
      BY <1>1, <1>4, <2>2 DEF IInv, Passed, Calling
    <3>2. net.ipLen = 16
      BY <1>5, <3>1 DEF Networks
    <3>3. Base(net')[i] = net'.ip[i] /\ Base(net)[i] = net.ip[i]
      BY <1>6, <3>2 DEF Base, To16
    <3>4. i \in 0 .. 8 * net.ipLen - 1 /\ i \notin 0 .. width - 1
      BY <3>2
    <3>5. net'.ip[i] = net.ip[i]
      BY <1>3, <3>4
    <3> QED  BY <3>3, <3>5
  <2> QED  BY <2>1, <2>2
<1>9. Drawing'
  BY <1>1, <1>3, <1>6, <1>7, <1>8 DEF Drawing
<1>10. AddrInside'
  <2> SUFFICES ASSUME NEW i \in 0 .. 8 * net.maskLen - 1,
                      pc' = "done" \/ (pc' = "second" /\ i < 64)
               PROVE  addr'[i] = IF NetworkBit(req.net, i) THEN Base(req.net)[i]
                                 ELSE drawn'[IF i < 64 THEN 1 ELSE 2]
                                        [IF req.net.maskLen = 4 THEN 31 - i ELSE 63 - (i % 64)]
    <3>1. DOMAIN addr' = 0 .. 8 * net.maskLen - 1
      BY <1>3 DEF Octets
    <3> QED  BY <1>3, <3>1 DEF AddrInside
  <2>1. i < 64 /\ i \in 0 .. width - 1
    BY <1>1, <1>3
  <2>2. i % 64 = i
    BY <2>1
  <2>3. width - 1 - i = IF req.net.maskLen = 4 THEN 31 - i ELSE 63 - (i % 64)
    BY <1>4, <2>2
  <2> QED  BY <1>3, <1>7, <2>1, <2>3
<1> QED  BY <1>2, <1>9, <1>10 DEF IInv

LEMMA SecondIInv ==
  ASSUME IInv, NEW w \in Words, Second(w)
  PROVE  IInv'
<1>1. /\ pc = "second"
      /\ WriteHost(w, 64, 64)
      /\ pc' = "done"
  BY DEF Second
<1>2. Shape' /\ Prefixing' /\ Passed' /\ PrefixCanonical' /\ InPlaceKeepsNet'
  BY <1>1, WriteHostKeeps
<1>3. /\ addr' \in Octets(net.maskLen)
      /\ \A i \in 0 .. 8 * net.maskLen - 1 :
           addr'[i] = IF i \in 64 .. 64 + 64 - 1
                      THEN IF NetworkBit(req.net, i) THEN Base(req.net)[i]
                           ELSE w[64 - 1 - (i - 64)]
                      ELSE addr[i]
      /\ net' = [net EXCEPT !.ip = net'.ip]
      /\ drawn' = Append(drawn, w)
      /\ req' = req
  <2> DEFINE from == 64
             width == 64
  <2>1. /\ WriteHost(w, from, width)
        /\ \/ pc = "first" /\ from = 0 /\ width = IF net.maskLen = 4 THEN 32 ELSE 64
           \/ pc = "second" /\ from = 64 /\ width = 64
    BY <1>1
  <2>2. Shape /\ Passed /\ Drawing
    BY DEF IInv
  <2> HIDE DEF from, width
  <2>3. /\ addr' \in Octets(net.maskLen)
        /\ \A i \in 0 .. 8 * net.maskLen - 1 :
             addr'[i] = IF i \in from .. from + width - 1
                        THEN IF NetworkBit(req.net, i) THEN Base(req.net)[i]
                             ELSE w[width - 1 - (i - from)]
                        ELSE addr[i]
        /\ net' = [net EXCEPT !.ip = net'.ip]
        /\ drawn' = Append(drawn, w)
        /\ req' = req
    BY <2>1, <2>2, WriteHostEffect
  <2> QED  BY <2>3 DEF from, width
<1>4. /\ net.maskLen = 16
      /\ Len(drawn) = 1
      /\ drawn \in Seq(Words)
      /\ net \in Networks
      /\ addr \in Octets(16)
  BY <1>1 DEF IInv, Drawing, Shape, GoodNet, Calling
<1>5. net'.maskLen = 16
  <2>1. net' = [net EXCEPT !.ip = net'.ip]
    BY <1>3
  <2> QED  BY <1>4, <2>1 DEF Networks
<1>6. Len(drawn') = 2 /\ drawn'[1] = drawn[1] /\ drawn'[2] = w
  <2>1. drawn' = Append(drawn, w)
    BY <1>3
  <2>2. drawn \in Seq(Words)
    BY <1>4
  <2>3. /\ Len(drawn') = Len(drawn) + 1
        /\ \A i \in 1 .. Len(drawn) : drawn'[i] = drawn[i]
        /\ drawn'[Len(drawn) + 1] = w
    BY <2>1, <2>2, AppendProperties
  <2>4. Len(drawn) = 1
    BY <1>4
  <2> QED  BY <2>3, <2>4
<1>7. Drawing'
  BY <1>1, <1>5, <1>6 DEF Drawing
<1>8. req.net.maskLen = 16
  <2>1. net = [req.net EXCEPT !.ip = net.ip] /\ req.net \in Networks
    BY <1>1 DEF IInv, Passed, Calling, Shape, GoodNet
  <2> QED  BY <1>4, <2>1 DEF Networks
<1>9. ASSUME NEW i \in 0 .. 127
      PROVE  addr'[i] = IF NetworkBit(req.net, i) THEN Base(req.net)[i]
                        ELSE drawn'[IF i < 64 THEN 1 ELSE 2][63 - (i % 64)]
  <2>0. addr'[i] = IF i \in 64 .. 64 + 64 - 1
                   THEN IF NetworkBit(req.net, i) THEN Base(req.net)[i]
                        ELSE w[64 - 1 - (i - 64)]
                   ELSE addr[i]
    <3>1. i \in 0 .. 8 * net.maskLen - 1
      BY <1>4
    <3> QED  BY <1>3, <3>1
  <2>1. CASE i < 64
    <3>1. DOMAIN addr = 0 .. 127
      BY <1>4 DEF Octets
    <3>2. addr[i] = IF NetworkBit(req.net, i) THEN Base(req.net)[i]
                    ELSE drawn[1][63 - (i % 64)]
      BY <1>1, <1>8, <2>1, <3>1 DEF IInv, AddrInside
    <3> QED  BY <1>6, <2>0, <2>1, <3>2
  <2>2. CASE i >= 64
    <3>1. i % 64 = i - 64
      BY <2>2
    <3>2. 64 - 1 - (i - 64) = 63 - (i % 64)
      BY <3>1
    <3> QED  BY <1>6, <2>0, <2>2, <3>2
  <2> QED  BY <2>1, <2>2
<1>10. AddrInside'
  <2>1. DOMAIN addr' = 0 .. 127
    BY <1>3, <1>4 DEF Octets
  <2>2. req' = req
    BY <1>3
  <2> QED  BY <1>8, <1>9, <2>1, <2>2 DEF AddrInside
<1> QED  BY <1>2, <1>7, <1>10 DEF IInv

LEMMA StutterIInv == IInv /\ UNCHANGED vars => IInv'
BY DEF vars, IInv, Shape, Calling, Prefixing, Passed, Drawing, PrefixCanonical,
       AddrInside, InPlaceKeepsNet, Mask

LEMMA NextIInv == IInv /\ [Next]_vars => IInv'
<1> SUFFICES ASSUME IInv, [Next]_vars PROVE IInv'
  OBVIOUS
<1>1. ASSUME NEW kind \in Kinds, NEW bits \in Lengths, NEW api \in {"CIDR", "Prefix"},
             Generate(api, kind, bits)
      PROVE  IInv'
  BY <1>1, GenerateIInv
<1>2. ASSUME NEW w \in Words, DrawPrefix(w)
      PROVE  IInv'
  BY <1>2, DrawPrefixIInv
<1>3. ASSUME NEW w \in Words, First(w)
      PROVE  IInv'
  BY <1>3, FirstIInv
<1>4. ASSUME NEW w \in Words, Second(w)
      PROVE  IInv'
  BY <1>4, SecondIInv
<1>5. ASSUME NEW inPlace \in BOOLEAN, Start("IPInCIDR", inPlace)
      PROVE  IInv'
  BY <1>5, StartIInv
<1>6. ASSUME Start("AddrIn", FALSE)
      PROVE  IInv'
  BY <1>6, StartIInv
<1>7. ASSUME NEW api \in {"IPInCIDR", "AddrIn"}, Refuse(api)
      PROVE  IInv'
  BY <1>7, RefuseIInv
<1>8. CASE Return
  BY <1>8, ReturnIInv
<1>9. CASE UNCHANGED vars
  BY <1>9, StutterIInv
<1> QED  BY <1>1, <1>2, <1>3, <1>4, <1>5, <1>6, <1>7, <1>8, <1>9 DEF Next, Kinds

LEMMA SpecIInv == Spec => []IInv
<1>1. Init => IInv
  BY InitIInv
<1>2. IInv /\ [Next]_vars => IInv'
  BY NextIInv
<1> QED  BY <1>1, <1>2, PTL DEF Spec

(* A generated network has the length asked for, clamped; its mask says so *)
(* bit by bit and its host bits are zero, for all words and lengths.       *)
THEOREM PrefixCanonicalHolds == Spec => []PrefixCanonical
<1>1. IInv => PrefixCanonical
  BY DEF IInv
<1> QED  BY <1>1, SpecIInv, PTL

(* A drawn address lies in the network it was drawn from and is random     *)
(* outside of the network bits, for every network and every mask.          *)
THEOREM AddrInsideHolds == Spec => []AddrInside
<1>1. IInv => AddrInside
  BY DEF IInv
<1> QED  BY <1>1, SpecIInv, PTL

(* An address drawn over the IP of the network it is drawn from changes    *)
(* none of its network bits.                                               *)
THEOREM InPlaceKeepsNetHolds == Spec => []InPlaceKeepsNet
<1>1. IInv => InPlaceKeepsNet
  BY DEF IInv
<1> QED  BY <1>1, SpecIInv, PTL

================================================================================
