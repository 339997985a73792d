-------------------------------- MODULE CIDR --------------------------------
(***************************************************************************)
(* Random prefixes and random addresses inside a prefix: CIDR, IPInCIDR    *)
(* (cidr.go) and their net/netip counterparts Prefix and AddrIn            *)
(* (netaddr.go).                                                           *)
(*                                                                         *)
(* A byte string of n bytes is a function from 0 .. 8n-1 to bits, the most *)
(* significant bit of the first byte first; a random word is a function    *)
(* from 0 .. 63, its least significant bit first.  net is a network as a   *)
(* *net.IPNet holds it; bits is its prefix length, or NoBits when its mask *)
(* is not of that form and a netip.Prefix could not hold it.  The caller   *)
(* may pass the network's own IP as dst and have the address written over  *)
(* it; a draw of 16 bytes is two draws of a word.                          *)
(***************************************************************************)
EXTENDS Integers, Sequences

Bit == {0, 1}
Word == [0 .. 63 -> Bit]
Octets(n) == [0 .. 8 * n - 1 -> Bit]

CONSTANTS
  Words,      \* the words the provider yields
  Lengths,    \* the uint8 prefix lengths asked for
  CallerNets  \* networks made by the caller

NoBits == -1

Networks ==
  [ip : Octets(4) \union Octets(16) \union Octets(0), ipLen : {0, 4, 16},
   mask : Octets(4) \union Octets(16) \union Octets(0), maskLen : {0, 4, 16},
   bits : {NoBits} \union 0 .. 128]

ASSUME CIDRAssumption ==
  /\ Words \subseteq Word
  /\ Lengths \subseteq 0 .. 255
  /\ \A n \in CallerNets :
       /\ n \in Networks
       /\ n.ip \in Octets(n.ipLen)
       /\ n.mask \in Octets(n.maskLen)
       /\ n.bits # NoBits =>
            /\ n.ipLen = n.maskLen
            /\ n.ipLen \in {4, 16}
            /\ n.bits \in 0 .. 8 * n.ipLen
            /\ \A i \in 0 .. 8 * n.ipLen - 1 : n.mask[i] = 1 <=> i < n.bits

VARIABLES
  pc,     \* "idle", "prefix", "first" or "second" (word of an address), "done"
  req,    \* the call in progress; its net is the network as it was passed
  drawn,  \* the words it has drawn
  net,    \* the network it made or was given
  addr    \* the address as far as it is written

vars == <<pc, req, drawn, net, addr>>

NoNet == [ip |-> [i \in 0 .. -1 |-> 0], ipLen |-> 0,
          mask |-> [i \in 0 .. -1 |-> 0], maskLen |-> 0, bits |-> NoBits]
NoReq == [api |-> "none", kind |-> "none", bits |-> 0, inPlace |-> FALSE,
          net |-> NoNet]

Init ==
  /\ pc = "idle"
  /\ req = NoReq
  /\ drawn = <<>>
  /\ net \in CallerNets \union {NoNet}
  /\ addr = NoNet.ip

-------------------------------------------------------------------------------
(* Prefixes.                                                               *)

(* Defect: only IPv4 lengths are clamped.                                  *)
PrefixLenUnclamped(kind, bits) ==
  CASE kind = "IPv6CIDR" -> <<bits, 16>>
    [] kind = "IPv6ULAPrefix" -> <<48, 16>>
    [] OTHER -> <<IF bits < 32 THEN bits ELSE 32, 4>>

PrefixLen(kind, bits) ==
  CASE kind = "IPv6CIDR" -> <<IF bits < 128 THEN bits ELSE 128, 16>>
    [] kind = "IPv6ULAPrefix" -> <<48, 16>>
    [] OTHER -> <<IF bits < 32 THEN bits ELSE 32, 4>>

(* fillRandomBytes: byte k of the slice is byte k of its words, low first. *)
RandomBytes(words, n) ==
  [i \in 0 .. 8 * n - 1 |->
     words[i \div 64 + 1][8 * ((i % 64) \div 8) + 7 - (i % 8)]]

(* Defect: 0xff >> rem instead of 0xff << (8 - rem).                       *)
MaskHostBitsShifted(ip, n, bits) ==
  LET full == bits \div 8
      rem == bits % 8
  IN  [i \in 0 .. 8 * n - 1 |->
         IF i < 8 * full \/ (rem # 0 /\ i \div 8 = full /\ i % 8 >= rem)
         THEN ip[i] ELSE 0]

(* Keep full bytes whole, the first rem bits of the next, clear the rest.  *)
MaskHostBits(ip, n, bits) ==
  LET full == bits \div 8
      rem == bits % 8
  IN  [i \in 0 .. 8 * n - 1 |->
         IF i < 8 * full \/ (rem # 0 /\ i \div 8 = full /\ i % 8 < rem)
         THEN ip[i] ELSE 0]

(* fillCIDRMask, the same byte by byte on a mask of zeros.                 *)
CIDRMask(n, bits) == MaskHostBits([i \in 0 .. 8 * n - 1 |-> 1], n, bits)

(* 0xfd, five random bytes, low first, and zeros.                          *)
UniqueLocal(words) ==
  [i \in 0 .. 127 |->
     IF i < 8 THEN (IF i = 6 THEN 0 ELSE 1)
     ELSE IF i < 48 THEN words[1][8 * (i \div 8 - 1) + 7 - (i % 8)]
     ELSE 0]

FillPrefix(words, kind, n, bits) ==
  IF kind = "IPv6ULAPrefix" THEN UniqueLocal(words)
  ELSE MaskHostBits(RandomBytes(words, n), n, bits)

WordsFor(kind) == IF kind = "IPv6CIDR" THEN 2 ELSE 1

(* CIDR and Prefix: the length is clamped, then the words are drawn.       *)
Generate(api, kind, bits) ==
  /\ pc = "idle"
  /\ pc' = "prefix"
  /\ req' = [NoReq EXCEPT !.api = api, !.kind = kind, !.bits = bits]
  /\ drawn' = <<>>
  /\ addr' = NoNet.ip
  /\ net' = NoNet

(* A word for the prefix; after the last one the network is returned.      *)
DrawPrefix(w) ==
  LET words == Append(drawn, w)
      len == PrefixLen(req.kind, req.bits)
  IN  /\ pc = "prefix"
      /\ drawn' = words
      /\ IF Len(words) < WordsFor(req.kind)
         THEN UNCHANGED <<pc, net>>
         ELSE /\ pc' = "idle"
              /\ net' = [ip |-> FillPrefix(words, req.kind, len[2], len[1]),
                         ipLen |-> len[2],
                         mask |-> CIDRMask(len[2], len[1]),
                         maskLen |-> len[2], bits |-> len[1]]
      /\ UNCHANGED <<req, addr>>

-------------------------------------------------------------------------------
(* Addresses in a network.                                                 *)

(* net.IP's To4 and To16: a 4-byte address is ::ffff:a.b.c.d in 16 bytes.  *)
IsMapped(ip) == \A i \in 0 .. 95 : ip[i] = IF i < 80 THEN 0 ELSE 1
HasTo4(n) == n.ipLen = 4 \/ (n.ipLen = 16 /\ IsMapped(n.ip))
To4(n) == IF n.ipLen = 4 THEN n.ip ELSE [i \in 0 .. 31 |-> n.ip[96 + i]]
To16(n) ==
  IF n.ipLen = 16 THEN n.ip
  ELSE [i \in 0 .. 127 |->
          IF i < 80 THEN 0 ELSE IF i < 96 THEN 1 ELSE n.ip[i - 96]]

Valid(n) ==
  \/ n.maskLen = 4 /\ HasTo4(n)
  \/ n.maskLen = 16 /\ n.ipLen \in {4, 16}

Base(n) == IF n.maskLen = 4 THEN To4(n) ELSE To16(n)

(* ^uint(0) << s on width bits; Go yields 0 for s >= width.                *)
OnesShifted(width, s) == [i \in 0 .. width - 1 |-> IF i < width - s THEN 1 ELSE 0]

(* Defect: the 16-byte case forgets that both halves may be masked.        *)
AddrInMaskHighOnly(n, bits) ==
  IF n = 4 THEN OnesShifted(32, 32 - bits)
  ELSE LET hi == OnesShifted(64, IF bits <= 64 THEN 64 - bits ELSE 0)
       IN  [i \in 0 .. 127 |-> IF i < 64 THEN hi[i] ELSE 0]

(* The mask of AddrIn: one shift for IPv4, hiMask and loMask for IPv6.     *)
AddrInMask(n, bits) ==
  IF n = 4 THEN OnesShifted(32, 32 - bits)
  ELSE LET hi == OnesShifted(64, IF bits <= 64 THEN 64 - bits ELSE 0)
           lo == OnesShifted(64, IF bits <= 64 THEN 64 ELSE 128 - bits)
       IN  [i \in 0 .. 127 |-> IF i < 64 THEN hi[i] ELSE lo[i - 64]]

Mask == IF req.api = "AddrIn" THEN AddrInMask(net.ipLen, net.bits) ELSE net.mask

(* Defect: base & mask | x, the random word is not masked.                 *)
HostBitsUnmasked(base, mask, x, from, width) ==
  [i \in from .. from + width - 1 |->
     IF x[width - 1 - (i - from)] = 1 \/ (mask[i] = 1 /\ base[i] = 1) THEN 1 ELSE 0]

(* hostBits32 and hostBits64 on bits from .. from + width - 1, with the    *)
(* low width bits of x, big-endian: base & mask | x &^ mask.               *)
HostBits(base, mask, x, from, width) ==
  [i \in from .. from + width - 1 |->
     IF mask[i] = 1 THEN base[i] ELSE x[width - 1 - (i - from)]]

Overwrite(f, part) == [i \in DOMAIN f |-> IF i \in DOMAIN part THEN part[i] ELSE f[i]]

(* IPInCIDR refuses what is no IPv4 or IPv6 network, AddrIn an invalid     *)
(* prefix.  An address can be written over the network's IP if it fits.    *)
Start(api, inPlace) ==
  /\ pc = "idle"
  /\ IF api = "AddrIn" THEN net.bits # NoBits ELSE Valid(net)
  /\ inPlace => api = "IPInCIDR" /\ net.ipLen >= net.maskLen
  /\ pc' = "first"
  /\ req' = [NoReq EXCEPT !.api = api, !.inPlace = inPlace, !.net = net]
  /\ drawn' = <<>>
  /\ addr' = [i \in 0 .. 8 * net.maskLen - 1 |-> 0]
  /\ UNCHANGED net

Refuse(api) ==
  /\ pc = "idle"
  /\ IF api = "AddrIn" THEN net.bits = NoBits ELSE ~Valid(net)
  /\ req' = [NoReq EXCEPT !.api = api]
  /\ drawn' = <<>>
  /\ addr' = NoNet.ip
  /\ UNCHANGED <<pc, net>>

WriteHost(w, from, width) ==
  LET part == HostBits(Base(net), Mask, w, from, width)
  IN  /\ drawn' = Append(drawn, w)
      /\ addr' = Overwrite(addr, part)
      /\ net' = [net EXCEPT !.ip = IF req.inPlace THEN Overwrite(@, part) ELSE @]
      /\ UNCHANGED req

First(w) ==
  /\ pc = "first"
  /\ WriteHost(w, 0, IF net.maskLen = 4 THEN 32 ELSE 64)
  /\ pc' = IF net.maskLen = 4 THEN "done" ELSE "second"

Second(w) ==
  /\ pc = "second"
  /\ WriteHost(w, 64, 64)
  /\ pc' = "done"

Return ==
  /\ pc = "done"
  /\ pc' = "idle"
  /\ req' = NoReq
  /\ drawn' = <<>>
  /\ addr' = NoNet.ip
  /\ UNCHANGED net

Next ==
  \/ \E kind \in {"IPv4CIDR", "IPv6CIDR", "IPv6ULAPrefix"}, bits \in Lengths :
       \E api \in {"CIDR", "Prefix"} : Generate(api, kind, bits)
  \/ \E w \in Words : DrawPrefix(w) \/ First(w) \/ Second(w)
  \/ \E inPlace \in BOOLEAN : Start("IPInCIDR", inPlace)
  \/ Start("AddrIn", FALSE)
  \/ \E api \in {"IPInCIDR", "AddrIn"} : Refuse(api)
  \/ Return

Spec == Init /\ [][Next]_vars

-------------------------------------------------------------------------------

(* The i-th bit of an address is a network bit of n: by the length of a    *)
(* prefix, by the mask of a network that is not one.                       *)
NetworkBit(n, i) == IF n.bits # NoBits THEN i < n.bits ELSE n.mask[i] = 1

(* A generated network has the length asked for, clamped to the width of   *)
(* its addresses, its mask says so bit by bit, and its host bits are zero; *)
(* a unique-local one is an fd00::/8 prefix of 48 bits (CIDR and Prefix).  *)
PrefixCanonical ==
  pc = "idle" /\ req.api \in {"CIDR", "Prefix"} =>
    /\ net.ipLen = IF req.kind = "IPv4CIDR" THEN 4 ELSE 16
    /\ IF req.kind = "IPv6ULAPrefix"
       THEN net.bits = 48 /\ \A i \in 0 .. 7 : net.ip[i] = IF i = 6 THEN 0 ELSE 1
       ELSE net.bits = IF req.bits < 8 * net.ipLen THEN req.bits ELSE 8 * net.ipLen
    /\ \A i \in 0 .. 8 * net.ipLen - 1 :
         /\ net.mask[i] = 1 <=> i < net.bits
         /\ i >= net.bits => net.ip[i] = 0

(* "AddrIn returns a random address inside prefix", and IPInCIDR inside    *)
(* ipNet: what is written of an address agrees with the network on every   *)
(* network bit and with the random words on every other bit, at every      *)
(* length from 0 to the full one, for masks that are no prefix, and also   *)
(* when the address goes over the network's own IP.                        *)
AddrInside ==
  \A i \in DOMAIN addr :
    LET written == pc = "done" \/ (pc = "second" /\ i < 64)
        x == drawn[IF i < 64 THEN 1 ELSE 2]
    IN  written =>
          addr[i] = IF NetworkBit(req.net, i) THEN Base(req.net)[i]
                    ELSE x[IF req.net.maskLen = 4 THEN 31 - i ELSE 63 - (i % 64)]

(* Drawing over the network's own IP, even when the second word never      *)
(* comes, leaves the network what it was: only host bits move.  This is    *)
(* for a mask as long as the IP; the IPv4 address a 16-byte IP stands for  *)
(* is written to its first four bytes, and then it stands for it no more.  *)
InPlaceKeepsNet ==
  pc \in {"first", "second", "done"} /\ req.net.ipLen = req.net.maskLen =>
    /\ net.mask = req.net.mask
    /\ \A i \in DOMAIN net.ip :
         net.ip[i] # req.net.ip[i] => req.inPlace /\ ~NetworkBit(req.net, i)
================================================================================
