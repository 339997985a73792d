------------------------------- MODULE Network -------------------------------
(***************************************************************************)
(* Network.IP and Addr, IPv6EUI64 (ip.go, netaddr.go) and Value (value.go):*)
(* addresses and numbers of a kind that must not be reserved ones.  A call *)
(* draws words; of each it looks at one or two candidates and takes the    *)
(* first its kind accepts; an IPv6 address has two parts to draw.          *)
(*                                                                         *)
(* An address is the sequence of its bytes.  A 32-bit number is the pair   *)
(* of its 16-bit halves, the high one first.                               *)
(***************************************************************************)
EXTENDS Octets, SequencesExt

CONSTANTS
  IPKinds, ValueKinds,  \* the kinds asked for
  Words,                \* of a kind, the words the provider yields
  MACs,                 \* [at, len]: where the MACs of IPv6EUI64 lie; dst lies at 0
  Memory,               \* what memory holds
  MaxDraws              \* bound: words drawn by a call

IPv4Kinds == {"IPv4Any", "IPv4Private", "IPv4LinkLocal", "IPv4Multicast",
  "IPv4Public", "IPv4Loopback", "IPv4CGNAT", "IPv4Documentation"}

EUI64Kinds == {"IPv6LinkLocal", "IPv6Global", "IPv6Public", "IPv6UniqueLocal",
               "IPv6SiteLocal", "IPv6Documentation"}

IPv6Kinds == EUI64Kinds \union {"IPv6Any", "IPv6InterfaceLocalMulticast",
  "IPv6LinkLocalMulticast", "IPv6RealmLocalMulticast", "IPv6AdminLocalMulticast",
  "IPv6SiteLocalMulticast", "IPv6OrgLocalMulticast", "IPv6GlobalMulticast"}

NumberKinds == {"AnyPort", "PrivilegedPort", "RegisteredPort", "EphemeralPort",
  "VLANID", "ASN", "VNI", "FlowLabel", "MPLSLabel", "IPv6InterfaceID",
  "VLANIDUnreserved", "MPLSLabelUnreserved", "ASNPublic", "ASNPublic16",
  "ASNPrivate16", "ASNPrivate32"}

(* Words are eight bytes; dst and the MACs lie in memory.                  *)
ASSUME NetworkAssumption ==
  /\ IPKinds \subseteq IPv4Kinds \union IPv6Kinds
  /\ ValueKinds \subseteq NumberKinds
  /\ \A kind \in IPKinds \union ValueKinds : Words[kind] \subseteq [0 .. 7 -> Byte]
  /\ DOMAIN Memory \subseteq Int /\ Memory \in [DOMAIN Memory -> Byte]
  /\ 0 .. 15 \subseteq DOMAIN Memory
  /\ MACs \subseteq [at : Int, len : Nat]
  /\ \A mac \in MACs : mac.at .. mac.at + mac.len - 1 \subseteq DOMAIN Memory

VARIABLES
  pc,      \* "draw", "done" or "nil" (refused)
  call,    \* [api, kind, mac]
  drawn,   \* the words drawn
  parts,   \* the candidates accepted so far
  result   \* the address or the number

vars == <<pc, call, drawn, parts, result>>

NoMAC == [at |-> 0, len |-> 0]

Init ==
  /\ call \in [api : {"IP"}, kind : IPKinds, mac : {NoMAC}]
              \union [api : {"Value"}, kind : ValueKinds, mac : {NoMAC}]
              \union [api : {"IPv6EUI64"}, kind : IPKinds, mac : MACs]
  /\ pc = IF call.api = "IPv6EUI64"
             /\ (call.kind \notin EUI64Kinds \/ call.mac.len \notin {6, 8})
          THEN "nil" ELSE "draw"
  /\ drawn = <<>>
  /\ parts = <<>>
  /\ result = <<>>

-------------------------------------------------------------------------------
(* What is public.                                                         *)

(* ipv4FirstOctet: 0 public, 1 special-purpose, 2 undecided.               *)
IPv4FirstOctet(a) ==
  IF a \in {0, 10, 127} \union 224 .. 255 THEN 1
  ELSE IF a \in {100, 169, 172, 192, 198, 203} THEN 2 ELSE 0

(* Defect: TEST-NET-3 is forgotten.                                        *)
ForgetsTestNet3(a, b, c) ==
  ~ \/ a = 100 /\ b \div 64 = 1
    \/ a = 169 /\ b = 254
    \/ a = 172 /\ b \div 16 = 1
    \/ a = 192 /\ (b = 168 \/ (b = 0 /\ c \in {0, 2}) \/ (b = 88 /\ c = 99))
    \/ a = 198 /\ (b \div 2 = 9 \/ (b = 51 /\ c = 100))

(* Defect: the whole of 192.88.0.0/16 is held for 192.88.99.0/24.          *)
RejectsTooMuch(a, b, c) ==
  ~ \/ a = 100 /\ b \div 64 = 1
    \/ a = 169 /\ b = 254
    \/ a = 172 /\ b \div 16 = 1
    \/ a = 192 /\ (b = 168 \/ (b = 0 /\ c \in {0, 2}) \/ b = 88)
    \/ a = 198 /\ (b \div 2 = 9 \/ (b = 51 /\ c = 100))
    \/ a = 203 /\ b = 0 /\ c = 113

IsPublicIPv4Slow(a, b, c) ==
  ~ \/ a = 100 /\ b \div 64 = 1
    \/ a = 169 /\ b = 254
    \/ a = 172 /\ b \div 16 = 1
    \/ a = 192 /\ (b = 168 \/ (b = 0 /\ c \in {0, 2}) \/ (b = 88 /\ c = 99))
    \/ a = 198 /\ (b \div 2 = 9 \/ (b = 51 /\ c = 100))
    \/ a = 203 /\ b = 0 /\ c = 113

IsPublicIPv4(ip) ==
  CASE IPv4FirstOctet(ip[1]) = 0 -> TRUE
    [] IPv4FirstOctet(ip[1]) = 1 -> FALSE
    [] OTHER -> IsPublicIPv4Slow(ip[1], ip[2], ip[3])

(* hi is the first eight bytes of an address.                              *)
IsPublicIPv6(hi) ==
  ~ \/ hi[1] = 32 /\ hi[2] = 1 /\ hi[3] \div 2 = 0
    \/ SubSeq(hi, 1, 4) = <<32, 1, 13, 184>>
    \/ SubSeq(hi, 1, 2) \in {<<32, 2>>, <<95, 0>>}
    \/ hi[1] = 63 /\ hi[2] = 255 /\ hi[3] \div 16 = 0
    \/ SubSeq(hi, 1, 6) = <<38, 32, 0, 79, 128, 0>>

(* The subnet-router anycast and the RFC 2526 anycast identifiers.         *)
IsAnycastIID(lo) ==
  \/ \A i \in 1 .. 8 : lo[i] = 0
  \/ lo[1] \in {253, 255} /\ (\A i \in 2 .. 7 : lo[i] = 255) /\ lo[8] >= 128

AtMost(p, q) == p[1] < q[1] \/ (p[1] = q[1] /\ p[2] <= q[2])
Pair(v) == <<v \div 65536, v % 65536>>
PairOf(b) == <<256 * b[1] + b[2], 256 * b[3] + b[4]>>

IsPublicASN(a) ==
  ~ \/ a \in {Pair(0), Pair(23456)}
    \/ AtMost(Pair(64496), a) /\ AtMost(a, Pair(131071))
    \/ AtMost(<<64086, 59904>>, a)   \* 4200000000

-------------------------------------------------------------------------------
(* Drawing.                                                                *)

Half(x, high) == IF high THEN BigEndian(x, 7, 4) ELSE BigEndian(x, 3, 0)

(* Bits 61 to 63 of an IPv6Public address's first half are made 001.       *)
Global(bytes) == <<32 + (bytes[1] % 32)>> \o Tail(bytes)

(* The number of values of the kinds that call boundedFrom, 0 for others.  *)
Bound(kind) ==
  CASE kind \in {"PrivilegedPort", "ASNPrivate16"} -> 1023
    [] kind = "RegisteredPort" -> 48128
    [] kind = "VLANIDUnreserved" -> 4094
    [] kind = "MPLSLabelUnreserved" -> 1048560
    [] kind = "ASNPublic16" -> 64494
    [] kind = "ASNPrivate32" -> 94967295
    [] kind = "IPv4Documentation" -> 768
    [] OTHER -> 0

(* The candidates a word offers, in the order they are tried: of the first *)
(* word of IPv4Public both halves, of later ones only the low half.        *)
Candidates(kind, x) ==
  CASE kind = "IPv4Public" ->
         IF drawn = <<>> THEN <<Half(x, FALSE), Half(x, TRUE)>>
         ELSE <<Half(x, FALSE)>>
    [] kind = "ASNPublic" -> <<Half(x, FALSE), Half(x, TRUE)>>
    [] kind = "IPv6Public" ->
         IF parts = <<>> THEN <<Global(BigEndian(x, 7, 0))>> ELSE <<BigEndian(x, 7, 0)>>
    [] OTHER -> <<x>>

Accepts(kind, c) ==
  CASE kind = "IPv4Public" -> IsPublicIPv4(c)
    [] kind = "ASNPublic" -> IsPublicASN(PairOf(c))
    [] kind = "IPv6Public" -> IF parts = <<>> THEN IsPublicIPv6(c) ELSE ~IsAnycastIID(c)
    [] kind = "IPv4LinkLocal" -> c[0] \notin {0, 255}
    [] kind = "IPv4Loopback" -> BigEndian(c, 2, 0) \notin {<<0, 0, 0>>, <<255, 255, 255>>}
    [] Bound(kind) # 0 -> BoundedAccepts(c, Bound(kind))
    [] OTHER -> TRUE

PartsOf(kind) == IF kind \in IPv6Kinds \ {"IPv6LinkLocal"} THEN 2 ELSE 1

MulticastScope(kind) ==
  CASE kind = "IPv6InterfaceLocalMulticast" -> 1
    [] kind = "IPv6LinkLocalMulticast" -> 2
    [] kind = "IPv6RealmLocalMulticast" -> 3
    [] kind = "IPv6AdminLocalMulticast" -> 4
    [] kind = "IPv6SiteLocalMulticast" -> 5
    [] kind = "IPv6OrgLocalMulticast" -> 8
    [] OTHER -> 14

(* The IPv4 address made of an accepted candidate.                         *)
IPv4(kind, x) ==
  LET third == Product([k \in 0 .. 7 |-> IF k < 4 THEN x[k + 4] ELSE 0], 3)[4]
      v == BoundedValue(x, 768)
  IN
  CASE kind = "IPv4Private" ->
         (CASE third = 0 -> <<10, x[1]>>
            [] third = 1 -> <<172, 16 + (x[1] % 16)>>
            [] OTHER -> <<192, 168>>) \o <<x[2], x[3]>>
    [] kind = "IPv4LinkLocal" -> <<169, 254, x[0], x[1]>>
    [] kind = "IPv4Multicast" -> <<224 + (x[0] % 16), x[1], x[2], x[3]>>
    [] kind = "IPv4Public" -> x
    [] kind = "IPv4Loopback" -> <<127>> \o BigEndian(x, 2, 0)
    [] kind = "IPv4CGNAT" -> <<100, 64 + (x[0] % 64), x[1], x[2]>>
    [] kind = "IPv4Documentation" ->
         (CASE v \div 256 = 0 -> <<192, 0, 2>>
            [] v \div 256 = 1 -> <<198, 51, 100>>
            [] OTHER -> <<203, 0, 113>>) \o <<v % 256>>
    [] OTHER -> BigEndian(x, 3, 0)

(* The IPv6 address made of its parts; fillRandomBytes is little-endian.   *)
IPv6(kind, p) ==
  LET random == LittleEndian(p[1], 8) \o LittleEndian(p[2], 8)
      from(head) == head \o SubSeq(random, Len(head) + 1, 16)
  IN
  CASE kind = "IPv6Any" -> random
    [] kind = "IPv6Global" -> Global(random)
    [] kind = "IPv6LinkLocal" -> <<254, 128, 0, 0, 0, 0, 0, 0>> \o LittleEndian(p[1], 8)
    [] kind = "IPv6SiteLocal" -> from(<<254, 192 + (random[2] % 64)>>)
    [] kind = "IPv6UniqueLocal" -> from(<<253>>)
    [] kind = "IPv6Documentation" -> from(<<32, 1, 13, 184>>)
    [] kind = "IPv6Public" -> p[1] \o p[2]
    [] OTHER -> from(<<255, 16 + MulticastScope(kind)>>)

(* Defect: 23456 itself is not skipped.                                    *)
FromBoundedLate(kind, v) ==
  CASE kind = "ASNPublic16" -> Pair(IF v + 1 > 23456 THEN v + 2 ELSE v + 1)
    [] OTHER -> Pair(v + 1)

(* The kinds over boundedFrom: what becomes of its value v.                *)
FromBounded(kind, v) ==
  CASE kind \in {"PrivilegedPort", "VLANIDUnreserved"} -> Pair(v + 1)
    [] kind = "RegisteredPort" -> Pair(v + 1024)
    [] kind = "MPLSLabelUnreserved" -> Pair(v + 16)
    [] kind = "ASNPrivate16" -> Pair(v + 64512)
    [] kind = "ASNPublic16" -> Pair(IF v + 1 >= 23456 THEN v + 2 ELSE v + 1)
    [] kind = "ASNPrivate32" ->   \* v + 4200000000
         <<64086 + (v \div 65536) + ((59904 + (v % 65536)) \div 65536),
           (59904 + (v % 65536)) % 65536>>

(* Value of an accepted candidate; an interface identifier is eight bytes. *)
Value(kind, x) ==
  CASE Bound(kind) # 0 -> FromBounded(kind, BoundedValue(x, Bound(kind)))
    [] kind = "EphemeralPort" -> Pair(64 * x[7] + (x[6] \div 4) + 49152)
    [] kind = "VLANID" -> Pair(16 * x[7] + (x[6] \div 16))
    [] kind = "ASN" -> PairOf(Half(x, TRUE))
    [] kind = "VNI" -> Pair(Number(BigEndian(x, 7, 5)))
    [] kind \in {"FlowLabel", "MPLSLabel"} -> Pair(Number(BigEndian(x, 7, 5)) \div 16)
    [] kind = "IPv6InterfaceID" -> <<(x[7] \div 4) * 4>> \o BigEndian(x, 6, 0)
    [] kind = "ASNPublic" -> PairOf(x)
    [] OTHER -> Pair(256 * x[7] + x[6])

(* IPv6EUI64: the address goes to dst before the MAC is read.              *)
WithEUI64(ip, mac) ==
  Slice(PutModifiedEUI64(Write(Memory, 0, ip), 8, mac.at, mac.len), 0, 16)

Outcome(p) ==
  CASE call.api = "Value" -> Value(call.kind, p[1])
    [] call.api = "IPv6EUI64" -> WithEUI64(IPv6(call.kind, p), call.mac)
    [] OTHER -> IF call.kind \in IPv6Kinds THEN IPv6(call.kind, p)
                ELSE IPv4(call.kind, p[1])

(* One word: its first accepted candidate is kept, or it is drawn again;   *)
(* with all its parts the call returns.                                    *)
Draw(x) ==
  LET kind == call.kind
      cs == Candidates(kind, x)
      i == SelectInSeq(cs, LAMBDA c : Accepts(kind, c))
      p == IF i = 0 THEN parts ELSE Append(parts, cs[i])
  IN  /\ pc = "draw"
      /\ Len(drawn) < MaxDraws
      /\ drawn' = Append(drawn, x)
      /\ parts' = p
      /\ IF Len(p) = PartsOf(kind)
         THEN pc' = "done" /\ result' = Outcome(p)
         ELSE UNCHANGED <<pc, result>>
      /\ UNCHANGED call

(* The call is over, or the bounded behaviour is.                          *)
Finished ==
  /\ pc # "draw" \/ Len(drawn) = MaxDraws
  /\ UNCHANGED vars

Next == Finished \/ \E x \in Words[call.kind] : Draw(x)

Spec == Init /\ [][Next]_vars

-------------------------------------------------------------------------------
(* Blocks <<first bytes, length>>: the reference the code's tables and     *)
(* shifts are compared with.                                               *)

Bit(bytes, i) == (bytes[(i \div 8) + 1] \div 2 ^ (7 - (i % 8))) % 2
In(ip, b) == \A i \in 0 .. b[2] - 1 : Bit(ip, i) = Bit(b[1], i)
InAny(ip, blocks) == \E b \in blocks : In(ip, b)

(* The IPv4 table of RFC 6890, which isPublicIPv4 refers to, and multicast. *)
ReservedIPv4 == {<<<<0>>, 8>>, <<<<10>>, 8>>, <<<<100, 64>>, 10>>, <<<<127>>, 8>>,
  <<<<169, 254>>, 16>>, <<<<172, 16>>, 12>>, <<<<192, 0, 0>>, 24>>,
  <<<<192, 0, 2>>, 24>>, <<<<192, 88, 99>>, 24>>, <<<<192, 168>>, 16>>,
  <<<<198, 18>>, 15>>, <<<<198, 51, 100>>, 24>>, <<<<203, 0, 113>>, 24>>,
  <<<<224>>, 4>>, <<<<240>>, 4>>}

(* Entered into the IANA IPv4 Special-Purpose Address Registry later:      *)
(* AS112 (RFC 7535), AMT (RFC 7450), Direct Delegation AS112 (RFC 7534).   *)
LaterIPv4 == {<<<<192, 31, 196>>, 24>>, <<<<192, 52, 193>>, 24>>, <<<<192, 175, 48>>, 24>>}

(* The blocks isPublicIPv6 lists, which are those of the IPv6 registry.    *)
SpecialIPv6 == {<<<<32, 1, 0>>, 23>>, <<<<32, 1, 13, 184>>, 32>>, <<<<32, 2>>, 16>>,
  <<<<38, 32, 0, 79, 128, 0>>, 48>>, <<<<63, 255, 0>>, 20>>, <<<<95, 0>>, 16>>}

(* The blocks an address of a kind may lie in (ip.go:11-67).               *)
Blocks(kind) ==
  CASE kind = "IPv4Private" -> {<<<<10>>, 8>>, <<<<172, 16>>, 12>>, <<<<192, 168>>, 16>>}
    [] kind = "IPv4LinkLocal" -> {<<<<169, 254>>, 16>>}
    [] kind = "IPv4Multicast" -> {<<<<224>>, 4>>}
    [] kind = "IPv4Loopback" -> {<<<<127>>, 8>>}
    [] kind = "IPv4CGNAT" -> {<<<<100, 64>>, 10>>}
    [] kind = "IPv4Documentation" ->
         {<<<<192, 0, 2>>, 24>>, <<<<198, 51, 100>>, 24>>, <<<<203, 0, 113>>, 24>>}
    [] kind \in {"IPv6Global", "IPv6Public"} -> {<<<<32>>, 3>>}
    [] kind = "IPv6LinkLocal" -> {<<<<254, 128, 0, 0, 0, 0, 0, 0>>, 64>>}
    [] kind = "IPv6SiteLocal" -> {<<<<254, 192>>, 10>>}
    [] kind = "IPv6UniqueLocal" -> {<<<<253>>, 8>>}
    [] kind = "IPv6Documentation" -> {<<<<32, 1, 13, 184>>, 32>>}
    [] kind \in {"IPv4Any", "IPv4Public", "IPv6Any"} -> {<<<<0>>, 0>>}
    [] OTHER -> {<<<<255, 16 + MulticastScope(kind)>>, 16>>}

(* ... and those it must not.                                              *)
Excluded(kind) ==
  CASE kind = "IPv4Public" -> ReservedIPv4
    [] kind = "IPv6Public" -> SpecialIPv6
    [] kind = "IPv4LinkLocal" -> {<<<<169, 254, 0>>, 24>>, <<<<169, 254, 255>>, 24>>}
    [] kind = "IPv4Loopback" -> {<<<<127, 0, 0, 0>>, 32>>, <<<<127, 255, 255, 255>>, 32>>}
    [] OTHER -> {}

(* An address lies in a block of its kind and in none its kind excludes,   *)
(* also when the MAC of IPv6EUI64 replaces its interface identifier; that  *)
(* of an IPv6Public address is no anycast one, unless the caller passed it *)
(* as an EUI-64 (RFC 2526 identifiers cannot come from a 6-byte MAC).  For *)
(* IPv4Public this is about ReservedIPv4 only; see PublicOutsideIANA.      *)
InDocumentedBlocks ==
  pc = "done" /\ call.api # "Value" =>
    /\ InAny(result, Blocks(call.kind))
    /\ ~InAny(result, Excluded(call.kind))
    /\ call.kind = "IPv6Public" /\ call.mac.len # 8 => ~IsAnycastIID(SubSeq(result, 9, 16))

(* A comment's claim: IPv4Public is "outside IANA special-purpose ranges"  *)
(* (ip.go:22), "outside every IANA special-purpose, private, and bogon     *)
(* IPv4 range" (ip.go:230).  The blocks in LaterIPv4 are not excluded.     *)
PublicOutsideIANA ==
  pc = "done" /\ call.api = "IP" /\ call.kind = "IPv4Public" =>
    ~InAny(result, ReservedIPv4 \union LaterIPv4)

Apart(mac) == mac.at >= 16 \/ mac.at + mac.len <= 0

(* The interface identifier is "the RFC 4291 modified EUI-64 of mac", if   *)
(* mac does not lie in dst, which is filled before mac is read.            *)
InterfaceIDOfMAC ==
  pc = "done" /\ call.api = "IPv6EUI64" /\ Apart(call.mac) =>
    LET mac == Slice(Memory, call.mac.at, call.mac.len)
        eui == IF call.mac.len = 8 THEN mac
               ELSE SubSeq(mac, 1, 3) \o <<255, 254>> \o SubSeq(mac, 4, 6)
    IN  /\ \A i \in 2 .. 8 : result[8 + i] = eui[i]
        /\ \A i \in 0 .. 7 : (Bit(<<result[9]>>, i) = Bit(<<eui[1]>>, i)) <=> i # 6

ReservedASN(a) ==
  \/ a \in {<<0, 0>>, <<0, 23456>>, <<1, 65535>>}
  \/ a[1] = 0 /\ a[2] >= 64496
  \/ a[1] = 1
  \/ AtMost(<<64086, 59904>>, a)

(* All the candidates of the words drawn, in order: of an AS number both   *)
(* halves of each word, of an address both of the first and the low halves *)
(* of the others.                                                          *)
Tried(words) ==
  CASE words = <<>> -> <<>>
    [] call.kind = "ASNPublic" ->
         [i \in 1 .. 2 * Len(words) |-> Half(words[(i + 1) \div 2], i % 2 = 0)]
    [] OTHER ->
         [i \in 1 .. Len(words) + 1 |-> Half(words[IF i = 1 THEN 1 ELSE i - 1], i = 2)]

Usable(c) ==
  IF call.kind = "IPv4Public" THEN ~InAny(c, ReservedIPv4) ELSE ~ReservedASN(PairOf(c))

(* A public IPv4 address or AS number is the first candidate outside of    *)
(* ReservedIPv4 or of the reserved AS numbers: none inside is returned,    *)
(* none outside is passed over, and no word is drawn while the last one    *)
(* has a usable half to try.                                               *)
FirstUsable ==
  call.kind \in {"IPv4Public", "ASNPublic"} =>
    LET tried == Tried(drawn)
        i == SelectInSeq(tried, Usable)
    IN  IF pc = "done"
        THEN /\ i # 0
             /\ result = IF call.kind = "IPv4Public" THEN tried[i] ELSE PairOf(tried[i])
             /\ SelectInSeq(Tried(Front(drawn)), Usable) = 0
        ELSE i = 0

(* The documented ranges of the bounded kinds (value.go:6-47).             *)
Range16(kind) ==
  CASE kind = "PrivilegedPort" -> 1 .. 1023
    [] kind = "RegisteredPort" -> 1024 .. 49151
    [] kind = "VLANIDUnreserved" -> 1 .. 4094
    [] kind = "ASNPublic16" -> (1 .. 64495) \ {23456}
    [] kind = "ASNPrivate16" -> 64512 .. 65534

(* The ends of the ranges beyond 16 bits.                                  *)
Ends32(kind) ==
  CASE kind = "MPLSLabelUnreserved" -> <<Pair(16), Pair(1048575)>>
    [] kind = "ASNPrivate32" -> <<<<64086, 59904>>, <<65535, 65534>>>>

(* The values of boundedFrom give exactly the kind's range, each number    *)
(* from one value only.  Of the two ranges beyond 16 bits only the ends    *)
(* are compared: the first and the last value give them.                   *)
RangeExact ==
  pc = "draw" /\ call.api = "Value" /\ Bound(call.kind) # 0 =>
    LET n == Bound(call.kind)
        values == {FromBounded(call.kind, v)[2] : v \in 0 .. n - 1}
    IN  IF call.kind \in {"MPLSLabelUnreserved", "ASNPrivate32"}
        THEN <<FromBounded(call.kind, 0), FromBounded(call.kind, n - 1)>> = Ends32(call.kind)
        ELSE values = Range16(call.kind) /\ Cardinality(values) = n
================================================================================
