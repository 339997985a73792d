------------------------------ MODULE MCHardware ------------------------------
(* Words that are rejected by some kind, that differ from such a word in   *)
(* one bit, and ordinary ones; a MAC at every distance from dst.           *)
EXTENDS Hardware

(* As many OUIs as realOUIs has.                                           *)
MCOUIs == [i \in 1 .. 279 |-> <<4 * (i % 64), i % 256, 7>>]
MCHash == <<1, 2, 3>>

MCWords == {WordOf(b) : b \in {
  <<0, 0, 0, 0, 0, 0, 0, 0>>, <<255, 255, 255, 255, 255, 255, 255, 255>>,
  <<17, 34, 192, 0, 0, 0, 0, 0>>, <<17, 34, 63, 255, 255, 255, 255, 255>>,
  <<17, 34, 192, 0, 0, 0, 0, 1>>, <<17, 34, 191, 255, 255, 255, 255, 254>>,
  <<1, 2, 3, 4, 5, 158, 139, 0>>, <<1, 2, 3, 5, 5, 158, 139, 63>>,
  <<1, 2, 3, 6, 5, 158, 139, 64>>, <<1, 2, 3, 4, 5, 158, 138, 255>>,
  <<1, 2, 3, 255, 254, 158, 139, 0>>, <<1, 2, 3, 255, 253, 158, 139, 0>>,
  <<1, 2, 3, 254, 255, 64, 0, 0>>, <<1, 2, 3, 255, 255, 191, 255, 255>>,
  <<170, 85, 170, 85, 170, 85, 170, 85>>}}

MCInputs == {[a \in -6 .. 15 \union Fresh .. Fresh + 7 |->
                IF a \in -6 .. 15 THEN ((16 * (a + 7)) % 256) + a + 6 ELSE 0]}

Plain == [kind |-> "MAC", local |-> FALSE, multicast |-> FALSE,
          triple |-> <<1, 2, 3>>, bits |-> 0, irk |-> FALSE,
          at |-> 8, len |-> 0, capacity |-> 8]

MCCalls ==
  {[Plain EXCEPT !.kind = k, !.capacity = c] :
     k \in {"MACOUI", "MACRealOUI", "MACAAI", "MACSAI", "EUI64", "EUI64RealOUI",
            "BluetoothStatic", "BluetoothNRPA"}, c \in {0, 6, 8}}
  \union {[Plain EXCEPT !.local = l, !.multicast = m] : l, m \in BOOLEAN}
  \union {[Plain EXCEPT !.kind = "MACELI", !.triple = <<x, 2, 3>>] : x \in {10, 11, 250}}
  \union {[Plain EXCEPT !.kind = "BluetoothRPA"]}
  \union {[Plain EXCEPT !.kind = "BluetoothRPA", !.irk = TRUE, !.len = n] :
            n \in {0, 15, 16, 17}}
  \union {[Plain EXCEPT !.kind = k, !.at = a, !.len = n, !.capacity = c] :
            k \in {"EUI64FromMAC", "ModifiedEUI64FromMAC"}, a \in -6 .. 8,
            n \in {6, 7}, c \in {7, 8}}
  \union {[Plain EXCEPT !.kind = "MACPrefix", !.at = a, !.len = n, !.bits = b] :
            a \in {-6, 0, 8}, n \in {3, 5, 6}, b \in {0, 1, 8, 24, 28, 36, 47, 48, 49}}
================================================================================
