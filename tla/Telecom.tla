-------------------------------- MODULE Telecom --------------------------------
(***************************************************************************)
(* Telecom.Append and String (telecom.go): equipment and card identifiers, *)
(* appended to what the caller has.  A call first refuses bad options and  *)
(* then works off a list of parts: some are given, some are drawn, and the *)
(* check digit is computed over the others.                                *)
(*                                                                         *)
(* A character is the number of its digit (up to 15 in a MEID); 16 stands  *)
(* for any other one.                                                      *)
(***************************************************************************)
EXTENDS Octets, SequencesExt

CONSTANTS
  Calls,             \* calls: see CallFields
  Words,             \* the words the provider yields
  ReportingBodyIDs,  \* the tables, as sequences of sequences of digits
  CountryCodes,
  MaxDraws           \* bound: words drawn by a call

Strings == Seq(0 .. 16)

CallFields ==
  [kind : {"IMEI", "IMEISV", "ICCID", "MEID"}, dst : Strings, tac : Strings,
   svn : Strings, iin : Strings, length : Int, test : BOOLEAN]

ASSUME TelecomAssumption ==
  /\ Calls \subseteq CallFields
  /\ Words \subseteq [0 .. 7 -> Byte]
  /\ ReportingBodyIDs \in Seq([1 .. 2 -> 0 .. 9])
  /\ CountryCodes \in Seq(UNION {[1 .. n -> 0 .. 9] : n \in 1 .. 3})
  /\ {Len(ReportingBodyIDs), Len(CountryCodes)} \subseteq 1 .. MaxBound

VARIABLES
  call,   \* the call in progress
  todo,   \* the parts it has still to append
  out,    \* dst with the parts appended
  drawn   \* the words it has drawn

vars == <<call, todo, out, drawn>>

Put(digits) == [do |-> "put", digits |-> digits]
Pick(table) == [do |-> "pick", table |-> table]
RandomDigits(n) == [do |-> "digits", n |-> n]
Do(what) == [do |-> what]

IsDigits(s, min, max) == Len(s) \in min .. max /\ \A i \in DOMAIN s : s[i] <= 9

ICCIDLength(c) == IF c.length = 0 THEN 19 ELSE c.length

(* Which options are refused, before a word is drawn.                      *)
Refuses(c) ==
  CASE c.kind = "IMEISV" ->
         \/ c.svn # <<>> /\ (~IsDigits(c.svn, 2, 2) \/ c.svn = <<9, 9>>)
         \/ c.tac # <<>> /\ ~IsDigits(c.tac, 8, 8)
    [] c.kind = "ICCID" ->
         \/ ICCIDLength(c) \notin 18 .. 20
         \/ c.iin # <<>> /\ (~IsDigits(c.iin, 3, 7) \/ SubSeq(c.iin, 1, 2) # <<8, 9>>)
    [] c.kind = "MEID" -> FALSE
    [] OTHER -> c.tac # <<>> /\ ~IsDigits(c.tac, 8, 8)

(* appendTAC.                                                              *)
TAC(c) ==
  IF c.tac # <<>> THEN <<Put(c.tac)>>
  ELSE <<IF c.test THEN Put(<<0, 0>>) ELSE Pick(ReportingBodyIDs), RandomDigits(6)>>

(* The parts of an identifier.  ICCID's random digits fill it up to its    *)
(* length, whatever that of the country code is.                           *)
Parts(c) ==
  CASE c.kind = "IMEISV" ->
         TAC(c) \o <<RandomDigits(6), IF c.svn # <<>> THEN Put(c.svn) ELSE Do("svn")>>
    [] c.kind = "ICCID" ->
         (IF c.iin # <<>> THEN <<Put(c.iin)>>
          ELSE <<Put(<<8, 9>>), Pick(CountryCodes)>>)
         \o <<Do("fill"), Do("check")>>
    [] c.kind = "MEID" -> <<Do("regional"), Do("hex")>>
    [] OTHER -> TAC(c) \o <<RandomDigits(6), Do("check")>>

Init ==
  /\ call \in Calls
  /\ todo = IF Refuses(call) THEN <<>> ELSE Parts(call)
  /\ out = call.dst
  /\ drawn = <<>>

-------------------------------------------------------------------------------

Payload == SubSeq(out, Len(call.dst) + 1, Len(out))

(* f[1] + ... + f[n].                                                      *)
SumTo(f, n) ==
  LET sum[i \in 0 .. n] == IF i = 0 THEN 0 ELSE sum[i - 1] + f[i]
  IN  sum[n]

(* Defect: the digits to double are counted from the left, which is right  *)
(* for an IMEI and for an ICCID of the default length.                     *)
LuhnFromLeft(payload) ==
  LET weight(i) == LET v == IF i % 2 = 0 THEN 2 * payload[i] ELSE payload[i]
                   IN  IF v > 9 THEN v - 9 ELSE v
      sum == SumTo([i \in 1 .. Len(payload) |-> weight(i)], Len(payload))
  IN  (10 - (sum % 10)) % 10

(* luhnCheckDigit: every second digit from the last one on is doubled.     *)
LuhnCheckDigit(payload) ==
  LET n == Len(payload)
      weight(i) == LET v == IF (n - i) % 2 = 0 THEN 2 * payload[i] ELSE payload[i]
                   IN  IF v > 9 THEN v - 9 ELSE v
      sum == SumTo([i \in 1 .. n |-> weight(i)], n)
  IN  (10 - (sum % 10)) % 10

(* The part of an identifier that is appended without a draw.              *)
Given ==
  /\ todo # <<>>
  /\ \/ /\ Head(todo).do = "put"
        /\ out' = out \o Head(todo).digits
        /\ todo' = Tail(todo)
     \/ /\ Head(todo).do = "hex"   \* the low 48 bits of the first word, low first
        /\ out' = out \o [i \in 1 .. 12 |->
                            LET x == drawn[1][(i - 1) \div 2]
                            IN  IF i % 2 = 1 THEN x % 16 ELSE x \div 16]
        /\ todo' = Tail(todo)
     \/ /\ Head(todo).do = "fill"
        /\ todo' = <<RandomDigits(Len(call.dst) + ICCIDLength(call) - 1 - Len(out))>>
                     \o Tail(todo)
        /\ out' = out
     \/ /\ Head(todo).do = "check"
        /\ out' = Append(out, LuhnCheckDigit(Payload))
        /\ todo' = Tail(todo)
  /\ UNCHANGED <<call, drawn>>

(* Defect: one version number too many, the reserved 99.                   *)
ValuesUpTo99(part) ==
  CASE part.do = "pick" -> Len(part.table) [] part.do = "svn" -> 100 [] OTHER -> 96

(* The number of values boundedFrom chooses a part from.                   *)
Values(part) ==
  CASE part.do = "pick" -> Len(part.table) [] part.do = "svn" -> 99 [] OTHER -> 96

(* A part chosen with boundedFrom.                                         *)
Choose(x) ==
  /\ todo # <<>>
  /\ Head(todo).do \in {"pick", "svn", "regional"}
  /\ drawn' = Append(drawn, x)
  /\ LET part == Head(todo)
         v == BoundedValue(x, Values(part))
     IN  IF BoundedAccepts(x, Values(part))
         THEN /\ out' = out \o (CASE part.do = "pick" -> part.table[v + 1]
                                  [] part.do = "svn" -> <<v \div 10, v % 10>>
                                  [] OTHER -> <<10 + (v \div 16), v % 16>>)
              /\ todo' = Tail(todo)
         ELSE UNCHANGED <<out, todo>>
  /\ UNCHANGED call

(* appendRandomDigits: up to eighteen digits of a word below 18e18.        *)
DrawDigits(x) ==
  /\ todo # <<>>
  /\ Head(todo).do = "digits"
  /\ drawn' = Append(drawn, x)
  /\ LET n == Head(todo).n
         take == IF n < 18 THEN n ELSE 18
         top == Digits(x, 20)
     IN  IF 10 * top[1] + top[2] < 18
         THEN /\ out' = out \o Digits(x, take)
              /\ todo' = (IF n > take THEN <<RandomDigits(n - take)>> ELSE <<>>) \o Tail(todo)
         ELSE UNCHANGED <<out, todo>>
  /\ UNCHANGED call

(* The call is over, or the bounded behaviour is.                          *)
Finished == (todo = <<>> \/ Len(drawn) = MaxDraws) /\ UNCHANGED vars

Next ==
  \/ Given
  \/ Len(drawn) < MaxDraws /\ \E x \in Words : Choose(x) \/ DrawDigits(x)
  \/ Finished

Spec == Init /\ [][Next]_vars

-------------------------------------------------------------------------------

Done == todo = <<>>

(* ISO/IEC 7812: the digits of the doubled digits and the others add up to *)
(* a multiple of ten, over the whole identifier, whatever lies before it   *)
(* in dst and whichever length it has (luhnCheckDigit and its callers).    *)
LuhnValid ==
  Done /\ ~Refuses(call) /\ call.kind \in {"IMEI", "ICCID"} =>
    LET n == Len(Payload)
        twice(i) == 2 * Payload[i]
        value(i) == IF (n - i) % 2 = 0 THEN Payload[i]
                    ELSE (twice(i) \div 10) + (twice(i) % 10)
    IN  SumTo([i \in 1 .. n |-> value(i)], n) % 10 = 0

AllDigits(s) == \A i \in DOMAIN s : s[i] \in 0 .. 9

Valid(c) ==
  /\ c.kind \in {"IMEI", "IMEISV"} /\ c.tac # <<>> => Len(c.tac) = 8 /\ AllDigits(c.tac)
  /\ c.kind = "IMEISV" /\ c.svn # <<>> =>
       Len(c.svn) = 2 /\ AllDigits(c.svn) /\ 10 * c.svn[1] + c.svn[2] <= 98
  /\ c.kind = "ICCID" => c.length \in {0, 18, 19, 20}
  /\ c.kind = "ICCID" /\ c.iin # <<>> =>
       \E n \in 1 .. 5, s \in {c.iin} :
         Len(s) = 2 + n /\ s[1] = 8 /\ s[2] = 9 /\ AllDigits(s)

(* A call with a bad option returns dst unchanged; any other appends an    *)
(* identifier of exactly the documented length, made of digits, led by the *)
(* TAC or issuer it was given or by one of the tables', with a software    *)
(* version below 99 and a regional code from A0 (telecom.go:18-51).  dst   *)
(* is kept in either case, and at every moment of the call.                *)
LayoutOrRefused ==
  /\ SubSeq(out, 1, Len(call.dst)) = call.dst
  /\ Done => IF ~Valid(call) THEN out = call.dst
     ELSE LET starts == CASE call.kind = "MEID" -> {<<r>> : r \in 10 .. 15}
                          [] call.kind = "ICCID" ->
                               IF call.iin # <<>> THEN {call.iin}
                               ELSE {<<8, 9>> \o code : code \in ToSet(CountryCodes)}
                          [] OTHER -> IF call.tac # <<>> THEN {call.tac}
                                      ELSE IF call.test THEN {<<0, 0>>}
                                      ELSE ToSet(ReportingBodyIDs)
          IN  /\ \E s \in starts : IsPrefix(s, Payload)
              /\ call.kind # "MEID" => AllDigits(Payload)
              /\ Len(Payload) = CASE call.kind = "IMEI" -> 15
                                  [] call.kind = "IMEISV" -> 16
                                  [] call.kind = "MEID" -> 14
                                  [] OTHER -> IF call.length = 0 THEN 19 ELSE call.length
              /\ call.kind = "IMEISV" => SubSeq(Payload, 15, 16) # <<9, 9>>
                                         /\ (call.svn # <<>> => IsSuffix(call.svn, Payload))
================================================================================
