------------------------------- MODULE MCCIDR -------------------------------
(* Words and addresses at their real width; the words are few, the lengths *)
(* those at which a byte, a half or an address begins or ends.             *)
EXTENDS CIDR

MCWords == {[i \in 0 .. 63 |-> 0], [i \in 0 .. 63 |-> 1],
            [i \in 0 .. 63 |-> IF i % 3 = 0 THEN 1 ELSE 0]}
MCLengths == {0, 1, 8, 9, 31, 32, 33, 63, 64, 65, 100, 127, 128, 129, 255}

Some(n) == [i \in 0 .. 8 * n - 1 |-> IF i % 3 = 0 THEN 1 ELSE 0]
Mapped(n) == [i \in 0 .. 127 |->
                IF i < 80 THEN 0 ELSE IF i < 96 THEN 1 ELSE Some(n)[i - 96]]
Sparse(n) == [i \in 0 .. 8 * n - 1 |-> IF i % 5 < 2 THEN 1 ELSE 0]
Prefixed(n, bits) == [i \in 0 .. 8 * n - 1 |-> IF i < bits THEN 1 ELSE 0]
Net(ip, ipLen, mask, maskLen, bits) ==
  [ip |-> ip, ipLen |-> ipLen, mask |-> mask, maskLen |-> maskLen, bits |-> bits]

(* Prefixes with host bits set, a mask with holes, an IPv4 network whose   *)
(* address has 16 bytes, an IPv6 mask on a 4-byte address, and mismatches. *)
MCCallerNets ==
  {Net(Some(n), n, Prefixed(n, bits), n, bits) : n \in {4}, bits \in {0, 13, 32}}
  \union {Net(Some(16), 16, Prefixed(16, bits), 16, bits) : bits \in {0, 13, 64, 77, 128}}
  \union {Net(Some(n), n, Sparse(n), n, NoBits) : n \in {4, 16}}
  \union {Net(Mapped(4), 16, Prefixed(4, 13), 4, NoBits),
          Net(Some(4), 4, Prefixed(16, 100), 16, NoBits),
          Net(Some(16), 16, Prefixed(4, 13), 4, NoBits),
          Net(Some(4), 4, NoNet.mask, 0, NoBits)}
================================================================================
