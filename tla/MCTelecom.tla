------------------------------- MODULE MCTelecom -------------------------------
(* Options around every limit; words that boundedFrom and the 18e18 test   *)
(* reject, and words next to them.                                         *)
EXTENDS Telecom

MCReportingBodyIDs == <<<<0, 1>>, <<3, 5>>, <<8, 6>>, <<3, 3>>, <<4, 4>>, <<4, 5>>,
  <<4, 9>>, <<5, 0>>, <<5, 1>>, <<5, 2>>, <<5, 3>>, <<5, 4>>, <<9, 1>>, <<9, 8>>>>

(* Codes of one, two and three digits.                                     *)
MCCountryCodes == <<<<1>>, <<7>>, <<4, 9>>, <<8, 6>>, <<3, 5, 2>>, <<9, 9, 8>>>>

(* 0; the highest word; 18e18 - 1 and 18e18; 10 ** 19 - 1; a mixed one.    *)
MCWords == {WordOf(b) : b \in {
  <<0, 0, 0, 0, 0, 0, 0, 0>>, <<255, 255, 255, 255, 255, 255, 255, 255>>,
  <<249, 204, 216, 161, 197, 7, 255, 255>>, <<249, 204, 216, 161, 197, 8, 0, 0>>,
  <<138, 199, 35, 4, 137, 231, 255, 255>>, <<87, 18, 52, 86, 120, 154, 188, 222>>}}

Plain == [kind |-> "IMEI", dst |-> <<>>, tac |-> <<>>, svn |-> <<>>, iin |-> <<>>,
          length |-> 0, test |-> FALSE]
Dst == {<<>>, <<7, 16, 7>>}
TACs == {<<>>, <<3, 5, 1, 2, 3, 4, 5, 6>>, <<3, 5, 1, 2, 3, 4, 5>>,
         <<3, 5, 1, 2, 3, 4, 5, 6, 7>>, <<3, 5, 1, 2, 3, 4, 5, 16>>}

MCCalls ==
  {[Plain EXCEPT !.dst = d, !.tac = t, !.test = b] : d \in Dst, t \in TACs, b \in BOOLEAN}
  \union {[Plain EXCEPT !.kind = "IMEISV", !.dst = d, !.tac = t, !.svn = v] :
            d \in Dst, t \in TACs,
            v \in {<<>>, <<0, 0>>, <<9, 8>>, <<9, 9>>, <<9>>, <<1, 2, 3>>, <<1, 16>>}}
  \union {[Plain EXCEPT !.kind = "ICCID", !.dst = d, !.iin = i, !.length = n] :
            d \in Dst, n \in {0, 17, 18, 19, 20, 21},
            i \in {<<>>, <<8, 9>>, <<8, 9, 1>>, <<8, 9, 1, 2, 3, 4, 5>>,
                   <<8, 9, 1, 2, 3, 4, 5, 6>>, <<9, 8, 1>>, <<8, 9, 16>>}}
  \union {[Plain EXCEPT !.kind = "MEID", !.dst = d] : d \in Dst}
================================================================================
