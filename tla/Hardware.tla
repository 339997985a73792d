------------------------------- MODULE Hardware -------------------------------
(***************************************************************************)
(* Network.Hardware (hardware.go): link-layer addresses of each kind, made *)
(* from random words in a slice the caller supplies, from options some of  *)
(* which are slices of the caller too and may overlap it.  A call draws    *)
(* until it has a word its kind does not reject; of a rejected word only   *)
(* the OUI is kept.  bluetoothHash is RPACache's and external here.        *)
(***************************************************************************)
EXTENDS Octets, FiniteSets

CONSTANTS
  Calls,     \* calls: see CallFields
  Words,     \* the words the provider yields
  OUIs,      \* realOUIs, a sequence of triples of bytes
  Inputs,    \* the contents of memory before a call
  Hash       \* the hash bluetoothHash returns, a triple of bytes

FromMAC == {"EUI64FromMAC", "ModifiedEUI64FromMAC"}
Kinds == FromMAC \union
  {"MAC", "MACPrefix", "MACOUI", "MACELI", "MACRealOUI", "MACAAI", "MACSAI",
   "EUI64", "EUI64RealOUI", "BluetoothStatic", "BluetoothNRPA", "BluetoothRPA"}

CallFields ==
  [kind : Kinds, local : BOOLEAN, multicast : BOOLEAN,
   triple : [1 .. 3 -> Byte],   \* options.OUI or options.CID
   bits : Nat,                  \* options.PrefixBits
   irk : BOOLEAN,               \* options.IRK is not nil
   at : Int, len : Nat,         \* where options.MAC or Prefix lies, or IRK's length
   capacity : Nat]              \* of dst, which lies at 0

Universal == {OUIs[i] : i \in DOMAIN OUIs}

ASSUME HardwareAssumption ==
  /\ OUIs \in Seq(Universal) /\ OUIs # <<>>
  /\ \A oui \in Universal : oui \in [1 .. 3 -> Byte] /\ oui[1] % 4 = 0
  /\ Hash \in [1 .. 3 -> Byte]
  /\ Words \subseteq [0 .. 7 -> Byte]
  /\ Calls \subseteq CallFields

(* dst, a fresh slice and the slice an address is made from lie in memory. *)
ASSUME MemoryAssumption ==
  \A m \in Inputs :
    /\ m \in [DOMAIN m -> Byte] /\ DOMAIN m \subseteq Int
    /\ Fresh .. Fresh + 7 \subseteq DOMAIN m
    /\ \A c \in Calls :
         /\ 0 .. c.capacity - 1 \subseteq DOMAIN m
         /\ c.kind \in FromMAC \union {"MACPrefix"} =>
              c.at .. c.at + c.len - 1 \subseteq DOMAIN m

VARIABLES
  pc,      \* "idle", "draw", "redraw" or "done"
  call,    \* the call in progress
  oui,     \* the OUI chosen from its first word
  word,    \* the last word drawn
  mem,     \* memory: dst and the inputs
  before,  \* memory when the call began
  result   \* [at, len] of the address returned; len 0 is nil

vars == <<pc, call, oui, word, mem, before, result>>

NoWord == [k \in 0 .. 7 |-> 0]
Nil == [at |-> 0, len |-> 0]

Init ==
  /\ pc = "idle"
  /\ call \in Calls
  /\ oui = 0
  /\ word = NoWord
  /\ mem \in Inputs
  /\ before = mem
  /\ result = Nil

(* Defect: the index is made from the byte that also leads the extension.  *)
RealOUILowByte(high) == ((high % 256) % Len(OUIs)) + 1

(* realOUI: an index from the high 32 bits of a word.                      *)
RealOUI(high) == (high % Len(OUIs)) + 1

(* (x>>32) % len(realOUIs), byte by byte as x is long for the checker.     *)
OUIOf(x) ==
  LET m == Len(OUIs)
  IN  RealOUI(((((x[7] * 256 + x[6]) % m) * 256 + x[5]) % m) * 256 + x[4])

BluetoothInquiryLAP(lap) == lap \div 64 = 10390272 \div 64   \* 0x9e8b00

LAP(x) == Number(BigEndian(x, 2, 0))

LowBits46(x) == <<x[5] % 64>> \o BigEndian(x, 4, 0)
AllZero46(r) == \A i \in 1 .. 6 : r[i] = 0
AllOne46(r) == r[1] = 63 /\ \A i \in 2 .. 6 : r[i] = 255

Prand(x) == <<x[2] % 64, x[1], x[0]>>   \* 22 bits

(* Defect: 0xffff is redrawn, 0xfffe is not.                               *)
RejectsFFFFOnly(kind, x) == kind = "EUI64RealOUI" /\ x[4] = 255 /\ x[3] = 255

(* Which words are drawn again.                                            *)
Rejects(kind, x) ==
  CASE kind = "MACRealOUI" -> BluetoothInquiryLAP(LAP(x))
    [] kind = "EUI64RealOUI" -> x[4] = 255 /\ x[3] >= 254
    [] kind \in {"BluetoothStatic", "BluetoothNRPA"} ->
         AllZero46(LowBits46(x)) \/ AllOne46(LowBits46(x))
    [] kind = "BluetoothRPA" -> Prand(x) \in {<<0, 0, 0>>, <<63, 255, 255>>}
    [] OTHER -> FALSE

(* Which calls are refused.                                                *)
Refuses(c) ==
  CASE c.kind = "MACPrefix" -> c.bits \notin 1 .. 48 \/ c.len * 8 < c.bits
    [] c.kind = "MACELI" -> c.triple[1] % 16 # 10
    [] c.kind \in {"EUI64FromMAC", "ModifiedEUI64FromMAC"} -> c.len # 6
    [] c.kind = "BluetoothRPA" -> c.irk /\ c.len # 16
    [] OTHER -> FALSE

Size(kind) ==
  IF kind \in {"EUI64", "EUI64RealOUI", "EUI64FromMAC", "ModifiedEUI64FromMAC"}
  THEN 8 ELSE 6

(* A byte with its low n bits replaced.                                    *)
SetLow(x, n, value) == (x \div 2 ^ n) * 2 ^ n + value

WithFirst(bytes, x) == <<x>> \o Tail(bytes)

(* The address of a kind made from an accepted word.                       *)
Address(c, x, o) ==
  LET six == BigEndian(x, 5, 0)
  IN
  CASE c.kind = "MACOUI" -> c.triple \o LittleEndian(x, 3)
    [] c.kind = "MACELI" -> c.triple \o LittleEndian(x, 3)
    [] c.kind = "MACRealOUI" -> OUIs[o] \o BigEndian(x, 2, 0)
    [] c.kind = "MACAAI" -> WithFirst(six, SetLow(six[1], 4, 2))
    [] c.kind = "MACSAI" -> WithFirst(six, SetLow(six[1], 4, 14))
    [] c.kind = "EUI64" -> WithFirst(BigEndian(x, 7, 0), SetLow(x[7], 2, 2))
    [] c.kind = "EUI64RealOUI" -> OUIs[o] \o BigEndian(x, 4, 0)
    [] c.kind = "BluetoothStatic" -> WithFirst(LowBits46(x), LowBits46(x)[1] + 192)
    [] c.kind = "BluetoothNRPA" -> LowBits46(x)
    [] c.kind = "BluetoothRPA" ->
         WithFirst(Prand(x), Prand(x)[1] + 64)
           \o (IF c.irk THEN Hash ELSE BigEndian(x, 6, 4))
    [] OTHER ->
         WithFirst(six, SetLow(six[1], 2, (IF c.local THEN 2 ELSE 0)
                                            + (IF c.multicast THEN 1 ELSE 0)))

(* HardwareMACPrefix: random bytes, then the full bytes of the prefix over *)
(* them, then the first rem bits of its last one.                          *)
PutPrefix(m, b, c, x) ==
  LET full == c.bits \div 8
      rem == c.bits % 8
      filled == Write(m, b, LittleEndian(x, 6))
      copied == Write(filled, b, Slice(filled, c.at, full))
      low == 2 ^ (8 - rem)
  IN  IF rem = 0 THEN copied
      ELSE [copied EXCEPT ![b + full] =
              (copied[c.at + full] \div low) * low + (@ % low)]

Begin ==
  /\ pc = "idle"
  /\ IF Refuses(call) THEN pc' = "done" ELSE pc' = "draw"
  /\ UNCHANGED <<call, oui, word, mem, before, result>>

Finish(b, m) ==
  /\ mem' = m
  /\ pc' = "done"
  /\ result' = [at |-> b, len |-> Size(call.kind)]

(* Defect: the loop draws but goes on testing the word it has.             *)
DrawStale(y) ==
  LET x == IF pc = "draw" THEN y ELSE word
      b == FixedBytes(call.capacity, Size(call.kind))
      o == IF pc = "draw" THEN OUIOf(x) ELSE oui
  IN  /\ pc \in {"draw", "redraw"}
      /\ call.kind \notin FromMAC
      /\ oui' = o
      /\ word' = x
      /\ IF Rejects(call.kind, x)
         THEN pc' = "redraw" /\ UNCHANGED <<mem, result>>
         ELSE Finish(b, Write(mem, b, Address(call, x, o)))
      /\ UNCHANGED <<call, before>>

(* The kinds that draw: the first word, and more while they are rejected.  *)
Draw(x) ==
  LET b == FixedBytes(call.capacity, Size(call.kind))
      o == IF pc = "draw" THEN OUIOf(x) ELSE oui
  IN  /\ pc \in {"draw", "redraw"}
      /\ call.kind \notin FromMAC
      /\ oui' = o
      /\ word' = x
      /\ IF Rejects(call.kind, x)
         THEN pc' = "redraw" /\ UNCHANGED <<mem, result>>
         ELSE Finish(b, IF call.kind = "MACPrefix" THEN PutPrefix(mem, b, call, x)
                        ELSE Write(mem, b, Address(call, x, o)))
      /\ UNCHANGED <<call, before>>

(* The kinds that encapsulate a MAC draw nothing.  The U/L bit             *)
(* putModifiedEUI64 inverts is inverted back for the unmodified form.      *)
FromMACAddress ==
  LET b == FixedBytes(call.capacity, 8)
      m == PutModifiedEUI64(mem, b, call.at, 6)
  IN  /\ pc = "draw"
      /\ call.kind \in FromMAC
      /\ Finish(b, IF call.kind = "EUI64FromMAC" THEN [m EXCEPT ![b] = FlipLocal(@)]
                   ELSE m)
      /\ UNCHANGED <<call, oui, word, before>>

Finished == pc = "done" /\ UNCHANGED vars

Next == Begin \/ FromMACAddress \/ Finished \/ \E x \in Words : Draw(x)

Spec == Init /\ [][Next]_vars

(* The call is scheduled; the provider, drawing at random, sooner or later *)
(* yields a word that is not rejected.                                     *)
FairSpec ==
  /\ Spec
  /\ WF_vars(Begin \/ FromMACAddress)
  /\ WF_vars(\E x \in Words : Draw(x))
  /\ SF_vars(\E x \in Words : Draw(x) /\ ~Rejects(call.kind, x))

-------------------------------------------------------------------------------

Returned == Slice(mem, result.at, result.len)
Disjoint(a, n, b, m) == a + n <= b \/ b + m <= a
Bit(bytes, i) == (bytes[(i \div 8) + 1] \div 2 ^ (7 - (i % 8))) % 2

(* An address has the bits its kind is documented with (hardware.go:16-70) *)
(* and none of the values it excludes, also after redraws.  One with a     *)
(* prefix has the first PrefixBits bits of it and random ones after them,  *)
(* if the prefix is not in dst, which is filled before the prefix is read. *)
(* A resolvable one for a key, which is 16 bytes long, has the key's hash. *)
KindRules ==
  pc = "done" /\ result # Nil =>
    LET r == Returned
        ending == Number(SubSeq(r, 4, 6))
    IN
    CASE call.kind \in {"MACOUI", "MACELI"} -> SubSeq(r, 1, 3) = call.triple
      [] call.kind = "MACRealOUI" ->
           SubSeq(r, 1, 3) \in Universal /\ ending \notin 10390272 .. 10390335
      [] call.kind = "EUI64RealOUI" ->
           /\ SubSeq(r, 1, 3) \in Universal
           /\ SubSeq(r, 4, 5) \notin {<<255, 254>>, <<255, 255>>}
      [] call.kind = "MACAAI" -> r[1] % 16 = 2
      [] call.kind = "MACSAI" -> r[1] % 16 = 14
      [] call.kind = "EUI64" -> r[1] % 4 = 2
      [] call.kind \in {"BluetoothStatic", "BluetoothNRPA"} ->
           /\ r[1] \div 64 = (IF call.kind = "BluetoothStatic" THEN 3 ELSE 0)
           /\ \E i \in 1 .. 6 : r[i] # (IF i = 1 THEN (r[1] \div 64) * 64 ELSE 0)
           /\ \E i \in 1 .. 6 : r[i] # (IF i = 1 THEN (r[1] \div 64) * 64 + 63 ELSE 255)
      [] call.kind = "BluetoothRPA" ->
           /\ r[1] \div 64 = 1
           /\ SubSeq(r, 1, 3) \notin {<<64, 0, 0>>, <<127, 255, 255>>}
           /\ call.irk => call.len = 16 /\ SubSeq(r, 4, 6) = Hash
      [] call.kind = "MAC" ->
           r[1] % 4 = (IF call.local THEN 2 ELSE 0) + (IF call.multicast THEN 1 ELSE 0)
      [] call.kind = "MACPrefix" ->
           Disjoint(result.at, 6, call.at, call.len) =>
             \A i \in 0 .. 47 :
               Bit(r, i) = IF i < call.bits
                           THEN Bit(Slice(before, call.at, call.len), i)
                           ELSE Bit(LittleEndian(word, 6), i)
      [] OTHER -> TRUE

(* The EUI-64 of a MAC is that of the MAC that was passed, also when the   *)
(* MAC lies in dst from its third byte on (so buf[2:8] may become buf) or  *)
(* before it; not when it begins 5 bytes before to 1 byte after dst, where *)
(* ff:fe or the first bytes overwrite what is read later.                  *)
EUI64OfMAC ==
  /\ pc = "done" /\ result # Nil /\ call.kind \in FromMAC
  /\ call.at - result.at \notin -5 .. 1
  => LET mac == Slice(before, call.at, 6)
         eui == SubSeq(mac, 1, 3) \o <<255, 254>> \o SubSeq(mac, 4, 6)
     IN  Returned = IF call.kind = "EUI64FromMAC" THEN eui
                    ELSE [eui EXCEPT ![1] = FlipLocal(@)]

(* "leaving the low bits independent for the extension" (realOUI): the top *)
(* byte of an EUI-64's extension is also the low byte of the number the    *)
(* OUI is chosen by, yet each OUI goes with each value of it.  (This is so *)
(* because the table has an odd number of entries.)                        *)
ExtensionFree ==
  call.kind = "EUI64RealOUI" /\ pc = "draw" =>
    {<<RealOUI(high), high % 256>> : high \in 0 .. 256 * Len(OUIs) - 1}
      = (DOMAIN OUIs) \X Byte

(* A call returns under a provider that does not repeat rejected words for *)
(* ever (random46 and the other redraw loops).                             *)
Terminates == <>(pc = "done")
================================================================================
