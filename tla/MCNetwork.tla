------------------------------- MODULE MCNetwork -------------------------------
(* Words whose halves lie in, at the ends of, and next to reserved ranges. *)
EXTENDS Network

MCIPKinds == IPv4Kinds \union IPv6Kinds
MCValueKinds == NumberKinds

(* Addresses that are to be public, and nothing else.                      *)
MCPublicIPv4 == {"IPv4Public"}
MCNoValues == {}

Special == {
  <<0, 0, 0, 0>>, <<255, 255, 255, 255>>, <<10, 1, 2, 3>>, <<127, 0, 0, 0>>,
  <<100, 63, 255, 255>>, <<100, 64, 0, 0>>, <<100, 127, 255, 255>>,
  <<169, 253, 1, 1>>, <<169, 254, 0, 1>>, <<172, 31, 255, 9>>, <<172, 32, 0, 0>>,
  <<192, 0, 0, 1>>, <<192, 0, 1, 1>>, <<192, 0, 2, 1>>, <<192, 88, 99, 1>>,
  <<192, 88, 98, 1>>, <<192, 168, 0, 1>>, <<198, 17, 255, 1>>, <<198, 19, 0, 1>>,
  <<192, 31, 196, 1>>, <<192, 52, 193, 1>>, <<192, 175, 48, 1>>,
  <<198, 51, 100, 7>>, <<203, 0, 113, 9>>, <<203, 0, 112, 255>>, <<224, 0, 0, 0>>,
  <<0, 0, 91, 160>>, <<0, 0, 251, 239>>, <<0, 0, 251, 240>>, <<0, 1, 255, 255>>,
  <<0, 2, 0, 0>>, <<250, 86, 233, 255>>, <<250, 86, 234, 0>>}

(* Every special low half under a usable high half and under a reserved one. *)
Under(reserved) ==
  {WordOf(h \o l) : h \in {<<8, 8, 8, 8>>, reserved}, l \in Special}

EightByteWords ==
  {WordOf(b) : b \in {
    <<0, 0, 0, 0, 0, 0, 0, 0>>, <<255, 255, 255, 255, 255, 255, 255, 255>>,
    <<95, 0, 1, 2, 3, 4, 5, 6>>, <<32, 1, 1, 255, 9, 9, 9, 9>>,
    <<32, 1, 2, 0, 9, 9, 9, 9>>,
    <<32, 1, 13, 184, 0, 0, 0, 0>>, <<32, 1, 13, 185, 0, 0, 0, 0>>,
    <<32, 2, 0, 0, 0, 0, 0, 1>>, <<63, 255, 15, 255, 0, 0, 0, 0>>,
    <<63, 255, 16, 0, 0, 0, 0, 0>>, <<38, 32, 0, 79, 128, 0, 7, 7>>,
    <<38, 32, 0, 79, 128, 1, 7, 7>>, <<253, 255, 255, 255, 255, 255, 255, 128>>,
    <<253, 255, 255, 255, 255, 255, 255, 127>>, <<85, 85, 85, 85, 1, 2, 3, 4>>,
    <<85, 85, 85, 86, 1, 2, 3, 4>>, <<170, 170, 170, 171, 1, 2, 3, 4>>}}

MCWords ==
  [kind \in MCIPKinds \union MCValueKinds |->
     CASE kind \in IPv6Kinds -> EightByteWords
       [] kind = "IPv4Public" -> Under(<<203, 0, 113, 9>>)
       [] kind = "ASNPublic" -> Under(<<0, 0, 91, 160>>)
       [] OTHER -> Under(<<0, 0, 0, 0>>) \union EightByteWords]

MCMemory == [a \in -8 .. 32 |-> IF a \in 0 .. 15 THEN 7 * a
                               ELSE IF a < 0 THEN 248 + a ELSE 255 - 2 * (a - 16)]
MCMACs == {[at |-> a, len |-> n] : a \in {-8, 0, 16}, n \in {6, 8}}
          \union {[at |-> 16, len |-> 7]}
================================================================================
