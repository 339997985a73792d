----------------------------- MODULE ProviderProofs -----------------------------
(***************************************************************************)
(* Proofs about the providers whose state goroutines share.                *)
(*                                                                         *)
(* SharedCounter, for every number of goroutines, every modulus, every     *)
(* gamma that generates the cycle and every injective avalanche: the       *)
(* interleaved calls consume the seed's one stream in order, and no word   *)
(* is handed out twice within a period.                                    *)
(*                                                                         *)
(* ActiveProvider, for every set of scopes, callers and providers:         *)
(* SetProvider returns the prior provider, a generator call is served by   *)
(* one provider that was active during it, and nested scopes restore what  *)
(* was set outside them.                                                   *)
(***************************************************************************)
EXTENDS SharedCounter, ActiveProvider, SequenceTheorems, TLAPS

-------------------------------------------------------------------------------
(* Arithmetic modulo the counter's width.                                  *)

(* A remainder is a word, and it is what division leaves over.             *)
LEMMA ModRange ==
  ASSUME NEW a \in Nat
  PROVE  /\ a % Modulus \in Words
         /\ \E q \in Nat : a = q * Modulus + (a % Modulus)
<1>1. Modulus \in Nat /\ Modulus > 0
  BY ModulusAssumption
<1>2. a % Modulus \in Words
  BY <1>1 DEF Words
<1>3. a = (a \div Modulus) * Modulus + (a % Modulus) /\ a \div Modulus \in Nat
  BY <1>1
<1> QED BY <1>2, <1>3

(* The remainder is the only word congruent to a.                          *)
LEMMA ModUnique ==
  ASSUME NEW q \in Nat, NEW r \in Words
  PROVE  (q * Modulus + r) % Modulus = r
<1>1. Modulus \in Nat /\ Modulus > 0 /\ r \in Nat /\ r < Modulus
  BY ModulusAssumption DEF Words
<1> QED BY <1>1

(* Reducing before an addition changes nothing after it.                   *)
LEMMA ModAdd ==
  ASSUME NEW a \in Nat, NEW b \in Nat
  PROVE  ((a % Modulus) + b) % Modulus = (a + b) % Modulus
<1>1. PICK q \in Nat : a = q * Modulus + (a % Modulus)
  BY ModRange
<1> DEFINE c == (a % Modulus) + b
<1>2. a % Modulus \in Nat /\ Modulus \in Nat
  BY ModRange, ModulusAssumption DEF Words
<1>3. c \in Nat
  BY <1>2
<1>4. PICK p \in Nat : c = p * Modulus + (c % Modulus)
  BY <1>3, ModRange
<1>5. a + b = (q + p) * Modulus + (c % Modulus)
  <2>1. a + b = q * Modulus + c
    BY <1>1, <1>2
  <2>2. (q + p) * Modulus = q * Modulus + p * Modulus
    BY <1>2
  <2>3. q * Modulus \in Nat /\ p * Modulus \in Nat /\ c % Modulus \in Nat
    BY <1>2, <1>3, ModRange DEF Words
  <2> HIDE DEF c
  <2> QED BY <2>1, <2>2, <2>3, <1>4
<1>6. (q + p) \in Nat /\ c % Modulus \in Words
  BY <1>3, ModRange
<1> QED BY <1>5, <1>6, ModUnique

(* Equal remainders differ by a multiple of the modulus.                   *)
LEMMA ModCancel ==
  ASSUME NEW a \in Nat, NEW d \in Nat, (a + d) % Modulus = a % Modulus
  PROVE  d % Modulus = 0
<1> DEFINE r == a % Modulus
           e == d % Modulus
<1>1. /\ Modulus \in Nat /\ Modulus > 0
      /\ r \in Nat /\ r < Modulus
      /\ e \in Nat /\ e < Modulus
  <2>1. r \in Words /\ e \in Words
    BY ModRange
  <2> HIDE DEF r, e
  <2> QED BY <2>1, ModulusAssumption DEF Words
<1>2. (r + e) % Modulus = r
  <2>1. (r + d) % Modulus = r
    BY ModAdd
  <2>2. (e + r) % Modulus = (d + r) % Modulus
    BY <1>1, ModAdd
  <2>3. e + r = r + e /\ d + r = r + d
    BY <1>1
  <2> QED BY <2>1, <2>2, <2>3
<1>3. CASE r + e < Modulus
  <2>1. r + e \in Words /\ 0 * Modulus + (r + e) = r + e
    BY <1>1, <1>3 DEF Words
  <2>2. (r + e) % Modulus = r + e
    BY <2>1, ModUnique
  <2> QED BY <2>2, <1>2, <1>1
<1>4. CASE r + e >= Modulus
  <2>1. r + e - Modulus \in Words /\ 1 * Modulus + (r + e - Modulus) = r + e
    BY <1>1, <1>4 DEF Words
  <2>2. (r + e) % Modulus = r + e - Modulus
    BY <2>1, ModUnique
  <2> QED BY <2>2, <1>2, <1>1
<1> QED BY <1>1, <1>3, <1>4
-------------------------------------------------------------------------------
(* The counter and the stream.                                             *)

(* Adding gamma moves from one position of a seed's stream to the next.    *)
LEMMA AddGammaNext ==
  ASSUME NEW s \in Words, NEW k \in Nat
  PROVE  /\ AddGamma((s + k * Gamma) % Modulus) = (s + (k + 1) * Gamma) % Modulus
         /\ s + k * Gamma \in Nat
<1>1. s \in Nat /\ Gamma \in Nat
  BY GammaAssumption, ModulusAssumption DEF Words
<1>2. s + k * Gamma \in Nat
  BY <1>1
<1>3. (k + 1) * Gamma = k * Gamma + Gamma
  BY <1>1
<1>4. (s + k * Gamma) + Gamma = s + (k + 1) * Gamma
  <2>1. k * Gamma \in Nat
    BY <1>1
  <2> QED BY <2>1, <1>1, <1>3
<1>5. AddGamma((s + k * Gamma) % Modulus) = ((s + k * Gamma) + Gamma) % Modulus
  BY <1>1, <1>2, ModAdd DEF AddGamma
<1> QED BY <1>2, <1>4, <1>5

(* Positions less than a period apart hold different words.                *)
LEMMA StreamInjective ==
  ASSUME NEW s \in Words, NEW i \in Nat, NEW j \in Nat,
         i < j, j - i < Modulus
  PROVE  Stream(s, i) # Stream(s, j)
<1> DEFINE a == s + i * Gamma
           d == (j - i) * Gamma
<1>1. s \in Nat /\ Gamma \in Nat /\ j - i \in 1 .. Modulus - 1
  BY GammaAssumption, ModulusAssumption DEF Words
<1>2. a \in Nat /\ d \in Nat /\ s + j * Gamma = a + d
  <2>1. i * Gamma \in Nat /\ d \in Nat
    BY <1>1
  <2>2. j * Gamma = i * Gamma + d
    BY <1>1
  <2> QED BY <1>1, <2>1, <2>2
<1>3. (a + d) % Modulus # a % Modulus
  <2> HIDE DEF a
  <2>1. d % Modulus # 0
    BY <1>1, GammaAssumption
  <2> HIDE DEF d
  <2> QED BY <1>2, <2>1, ModCancel
<1>4. (a + d) % Modulus \in Words /\ a % Modulus \in Words
  <2>1. a + d \in Nat
    BY <1>2
  <2> QED BY <2>1, <1>2, ModRange
<1>5. Mix[(a + d) % Modulus] # Mix[a % Modulus]
  BY <1>3, <1>4, MixAssumption
<1> QED BY <1>2, <1>5 DEF Stream
-------------------------------------------------------------------------------
(* The invariant the safety theorems rest on: enough of the types, and     *)
(* where the counter stands.                                               *)
StreamInv ==
  /\ seed \in Words
  /\ draws \in Seq([g : Goroutines, word : Words])
  /\ DrawsFollowStream

(* One atomic Add, by whichever call makes it, continues the stream.       *)
LEMMA AddPreserves ==
  ASSUME NEW g \in Goroutines, StreamInv, Add(g), UNCHANGED seed
  PROVE  StreamInv'
<1> DEFINE n == Len(draws)
<1>1. /\ n \in Nat
      /\ seed \in Words
      /\ state = (seed + n * Gamma) % Modulus
      /\ \A k \in 1 .. n : draws[k].word = Stream(seed, k)
  BY DEF StreamInv, DrawsFollowStream
<1>2. state' = (seed + (n + 1) * Gamma) % Modulus
  BY <1>1, AddGammaNext DEF Add
<1>3. Drawn = Stream(seed, n + 1)
  BY <1>2 DEF Add, Drawn, Stream
<1>4. state' \in Words
  <2>1. seed + (n + 1) * Gamma \in Nat
    BY <1>1, AddGammaNext
  <2> QED BY <1>2, <2>1, ModRange
<1>5. Drawn \in Words
  BY <1>4, MixAssumption DEF Add, Drawn
<1>6. /\ draws' = Append(draws, [g |-> g, word |-> Drawn])
      /\ draws' \in Seq([g : Goroutines, word : Words])
      /\ Len(draws') = n + 1
  BY <1>5 DEF StreamInv, Add
<1>7. \A k \in 1 .. n + 1 : draws'[k].word = Stream(seed, k)
  <2> TAKE k \in 1 .. n + 1
  <2>1. CASE k = n + 1
    BY <2>1, <1>3, <1>6 DEF StreamInv
  <2>2. CASE k \in 1 .. n
    BY <2>2, <1>1, <1>6 DEF StreamInv
  <2> QED BY <1>1, <2>1, <2>2
<1>8. DrawsFollowStream'
  <2>1. DOMAIN draws' = 1 .. n + 1
    BY <1>6
  <2>2. seed' = seed
    OBVIOUS
  <2>3. \A k : Stream(seed, k)' = Stream(seed, k)
    BY <2>2 DEF Stream
  <2> QED BY <2>1, <2>2, <1>2, <1>6, <1>7 DEF DrawsFollowStream, Stream
<1> QED BY <1>6, <1>8, <1>1 DEF StreamInv

LEMMA StreamInvInductive == Spec => []StreamInv
<1>1. Init => StreamInv
  <2> SUFFICES ASSUME Init PROVE StreamInv
    OBVIOUS
  <2>1. /\ seed \in Words /\ state = seed /\ draws = << >>
        /\ Len(draws) = 0 /\ DOMAIN draws = {}
    BY DEF Init
  <2>2. seed \in Nat /\ 0 * Gamma = 0
    BY <2>1, GammaAssumption, ModulusAssumption DEF Words
  <2>3. (seed + 0 * Gamma) % Modulus = seed
    <3>1. 0 * Modulus + seed = seed
      BY <2>2, ModulusAssumption
    <3> QED BY <3>1, <2>1, <2>2, ModUnique
  <2> QED BY <2>1, <2>3 DEF StreamInv, DrawsFollowStream
<1>2. StreamInv /\ [Next]_vars => StreamInv'
  <2> SUFFICES ASSUME StreamInv, [Next]_vars PROVE StreamInv'
    OBVIOUS
  <2>1. ASSUME UNCHANGED <<state, seed, draws>> PROVE StreamInv'
    BY <2>1 DEF StreamInv, DrawsFollowStream, Stream
  <2>2. ASSUME NEW g \in Goroutines, Sum64(g) PROVE StreamInv'
    BY <2>2, AddPreserves DEF Sum64, OneWordCall
  <2>3. ASSUME NEW g \in Goroutines, Sum32(g) PROVE StreamInv'
    BY <2>3, AddPreserves DEF Sum32, OneWordCall
  <2>9. ASSUME NEW g \in Goroutines, SumBytes(g) PROVE StreamInv'
    BY <2>9, AddPreserves DEF SumBytes, OneWordCall
  <2>4. ASSUME NEW g \in Goroutines, NEW m \in ReadLengths, Read(g, m)
        PROVE  StreamInv'
    BY <2>4, <2>1 DEF Read
  <2>5. ASSUME NEW g \in Goroutines, FillWord(g) PROVE StreamInv'
    BY <2>5, AddPreserves DEF FillWord, Fill
  <2>6. ASSUME NEW g \in Goroutines, FillTail(g) PROVE StreamInv'
    BY <2>6, AddPreserves DEF FillTail, Fill
  <2>7. ASSUME NEW g \in Goroutines, ReadReturns(g) PROVE StreamInv'
    BY <2>7, <2>1 DEF ReadReturns
  <2>8. CASE Finished \/ UNCHANGED vars
    BY <2>8, <2>1 DEF Finished, vars
  <2> QED BY <2>2, <2>3, <2>4, <2>5, <2>6, <2>7, <2>8, <2>9 DEF Next
<1> QED BY <1>1, <1>2, PTL DEF Spec

(* Equal seeds reproduce equal values under every interleaving: the draws  *)
(* of uint64Provider are always the first ones of the seed's stream.       *)
THEOREM DrawsFollowStreamHolds == Spec => []DrawsFollowStream
<1>1. StreamInv => DrawsFollowStream
  BY DEF StreamInv
<1> QED BY <1>1, StreamInvInductive, PTL

(* state.Add hands no word to two callers before the counter has gone      *)
(* round.                                                                  *)
THEOREM NoWordTwiceHolds == Spec => []NoWordTwice
<1>1. StreamInv => NoWordTwice
  <2> SUFFICES ASSUME StreamInv,
                      NEW i \in DOMAIN draws, NEW j \in DOMAIN draws,
                      i < j, j - i < Modulus
               PROVE  draws[i].word # draws[j].word
    BY DEF NoWordTwice
  <2>1. i \in Nat /\ j \in Nat /\ seed \in Words
    BY DEF StreamInv
  <2>2. draws[i].word = Stream(seed, i) /\ draws[j].word = Stream(seed, j)
    BY DEF StreamInv, DrawsFollowStream
  <2> QED BY <2>1, <2>2, StreamInjective
<1> QED BY <1>1, StreamInvInductive, PTL

(* The interleaved calls implement the abstract stream: the initial states *)
(* map to its initial states and every Add to one Take.                    *)
THEOREM ImplementsStreamHolds == Spec => ImplementsStream
<1>1. Init => Abstract!Init
  BY DEF Init, Abstract!Init
<1>2. StreamInv /\ StreamInv' /\ [Next]_vars => [Abstract!Next]_(Abstract!vars)
  <2> SUFFICES ASSUME StreamInv, StreamInv', [Next]_vars
               PROVE  [Abstract!Next]_(Abstract!vars)
    OBVIOUS
  <2>1. ASSUME NEW g \in Goroutines, Add(g), UNCHANGED seed
        PROVE  Abstract!Take(g)
    <3>1. draws' = Append(draws, [g |-> g, word |-> Drawn])
      BY <2>1 DEF Add
    <3>2. Drawn = Stream(seed, Len(draws) + 1)
      <4>1. Len(draws) \in Nat /\ seed \in Words
            /\ state = (seed + Len(draws) * Gamma) % Modulus
        BY DEF StreamInv, DrawsFollowStream
      <4> QED BY <4>1, AddGammaNext DEF Drawn, Stream
    <3> QED BY <2>1, <3>1, <3>2 DEF Abstract!Take
  <2>2. ASSUME UNCHANGED <<seed, draws>> PROVE UNCHANGED Abstract!vars
    BY <2>2 DEF Abstract!vars
  <2>3. ASSUME NEW g \in Goroutines, Sum64(g) PROVE Abstract!Next
    BY <2>3, <2>1 DEF Sum64, OneWordCall, Abstract!Next
  <2>4. ASSUME NEW g \in Goroutines, Sum32(g) PROVE Abstract!Next
    BY <2>4, <2>1 DEF Sum32, OneWordCall, Abstract!Next
  <2>10. ASSUME NEW g \in Goroutines, SumBytes(g) PROVE Abstract!Next
    BY <2>10, <2>1 DEF SumBytes, OneWordCall, Abstract!Next
  <2>5. ASSUME NEW g \in Goroutines, NEW m \in ReadLengths, Read(g, m)
        PROVE  UNCHANGED Abstract!vars
    BY <2>5, <2>2 DEF Read
  <2>6. ASSUME NEW g \in Goroutines, FillWord(g) PROVE Abstract!Next
    BY <2>6, <2>1 DEF FillWord, Fill, Abstract!Next
  <2>7. ASSUME NEW g \in Goroutines, FillTail(g) PROVE Abstract!Next
    BY <2>7, <2>1 DEF FillTail, Fill, Abstract!Next
  <2>8. ASSUME NEW g \in Goroutines, ReadReturns(g) PROVE UNCHANGED Abstract!vars
    BY <2>8, <2>2 DEF ReadReturns
  <2>9. CASE Finished \/ UNCHANGED vars
    BY <2>9, <2>2 DEF Finished, vars
  <2> QED BY <2>3, <2>4, <2>5, <2>6, <2>7, <2>8, <2>9, <2>10 DEF Next
<1> QED BY <1>1, <1>2, StreamInvInductive, PTL
        DEF Spec, ImplementsStream, Abstract!Spec
-------------------------------------------------------------------------------
(* Types.                                                                  *)

LEMMA DrawnInWords ==
  ASSUME state \in Words
  PROVE  Drawn \in Words /\ AddGamma(state) \in Words
<1>1. state + Gamma \in Nat
  BY GammaAssumption, ModulusAssumption DEF Words
<1>2. AddGamma(state) \in Words
  BY <1>1, ModRange DEF AddGamma
<1> QED BY <1>2, MixAssumption DEF Drawn

(* The cuts of a word are sequences of its bytes.                          *)
LEMMA CutsAreBytes ==
  ASSUME NEW w \in Words
  PROVE  /\ \A n \in 0 .. BytesPerWord :
              LowBytes(w, n) \in Seq(Bytes) /\ Len(LowBytes(w, n)) = n
         /\ HighHalf(w) \in Seq(Bytes) /\ Len(HighHalf(w)) \in Nat
<1>1. BytesPerWord \in Nat /\ BytesPerWord > 0
  BY SizesAssumption
<1>2. ASSUME NEW n \in 0 .. BytesPerWord
      PROVE  LowBytes(w, n) \in Seq(Bytes) /\ Len(LowBytes(w, n)) = n
  <2>1. \A j \in 1 .. n : <<w, j - 1>> \in Bytes
    BY <1>1 DEF Bytes
  <2>2. LowBytes(w, n) \in [1 .. n -> Bytes] /\ n \in Nat
    BY <2>1, <1>1 DEF LowBytes
  <2> QED BY <2>2
<1>3. HighHalf(w) \in Seq(Bytes) /\ Len(HighHalf(w)) \in Nat
  <2> DEFINE half == BytesPerWord \div 2
             m == BytesPerWord - half
  <2>1. half \in Nat /\ half <= BytesPerWord /\ m \in Nat
    BY <1>1
  <2>2. \A j \in 1 .. m : <<w, half + j - 1>> \in Bytes
    <3> HIDE DEF half
    <3> QED BY <1>1, <2>1 DEF Bytes
  <2>3. HighHalf(w) = [j \in 1 .. m |-> <<w, half + j - 1>>]
    BY DEF HighHalf
  <2> HIDE DEF half, m
  <2>4. HighHalf(w) \in [1 .. m -> Bytes]
    BY <2>2, <2>3
  <2> QED BY <2>1, <2>4
<1> QED BY <1>2, <1>3

(* One Fill, of at most a word and at most what is left, keeps the types.  *)
LEMMA FillTypes ==
  ASSUME TypeOK, NEW g \in Goroutines, NEW n \in 0 .. BytesPerWord,
         n <= Left(g), Fill(g, n)
  PROVE  TypeOK'
<1>1. /\ Drawn \in Words /\ AddGamma(state) \in Words
      /\ LowBytes(Drawn, n) \in Seq(Bytes) /\ Len(LowBytes(Drawn, n)) = n
      /\ n \in Nat
  BY DrawnInWords, CutsAreBytes, SizesAssumption DEF TypeOK
<1>2. /\ state' = AddGamma(state)
      /\ draws' = Append(draws, [g |-> g, word |-> Drawn])
      /\ out' = [out EXCEPT ![g] = @ \o LowBytes(Drawn, n)]
      /\ mine' = [mine EXCEPT ![g] = Append(@, Len(draws) + 1)]
      /\ UNCHANGED <<seed, pc, length, results>>
  BY DEF Fill, Add
<1>3. draws' \in Seq([g : Goroutines, word : Words])
  BY <1>1, <1>2 DEF TypeOK
<1>4. mine' \in [Goroutines -> Seq(Nat)]
  BY <1>2 DEF TypeOK
<1>5. out' \in [Goroutines -> Seq(Bytes)]
  BY <1>1, <1>2 DEF TypeOK
<1>6. \A h \in Goroutines : Len(out'[h]) <= length'[h]
  <2> TAKE h \in Goroutines
  <2>1. CASE h = g
    <3>1. out[g] \in Seq(Bytes) /\ length[g] \in Nat
      BY DEF TypeOK
    <3>2. out'[g] = out[g] \o LowBytes(Drawn, n)
      BY <1>2 DEF TypeOK
    <3>3. Len(out'[g]) = Len(out[g]) + n
      <4>1. \A s, t \in Seq(Bytes) : Len(s \o t) = Len(s) + Len(t)
        OBVIOUS
      <4> QED BY <3>1, <3>2, <4>1, <1>1
    <3> QED BY <2>1, <3>1, <3>3, <1>1, <1>2 DEF Left
  <2>2. CASE h # g
    BY <2>2, <1>2 DEF TypeOK
  <2> QED BY <2>1, <2>2
<1> QED BY <1>1, <1>2, <1>3, <1>4, <1>5, <1>6 DEF TypeOK

(* One Sum64, Sum32 or Sum keeps the types.                                *)
LEMMA OneWordTypes ==
  ASSUME TypeOK, NEW g \in Goroutines, NEW kind \in {"sum64", "sum32", "sum"},
         NEW bytes \in Seq(Bytes), OneWordCall(g, kind, bytes)
  PROVE  TypeOK'
<1>1. Drawn \in Words /\ AddGamma(state) \in Words
  BY DrawnInWords DEF TypeOK
<1>2. draws' \in Seq([g : Goroutines, word : Words])
  BY <1>1 DEF TypeOK, OneWordCall, Add
<1> DEFINE r == [g |-> g, kind |-> kind, len |-> Len(bytes),
                 bytes |-> bytes, from |-> <<Len(draws) + 1>>]
           R == [g : Goroutines, kind : {"sum64", "sum32", "sum", "read"},
                 len : Nat, bytes : Seq(Bytes), from : Seq(Nat)]
<1>3. r \in R
  <2>1. Len(bytes) \in Nat /\ Len(draws) + 1 \in Nat
    BY DEF TypeOK
  <2>2. <<Len(draws) + 1>> \in Seq(Nat)
    BY <2>1
  <2> QED BY <2>1, <2>2
<1>4. results' = Append(results, r)
  BY DEF OneWordCall
<1>5. results' \in Seq(R)
  <2> HIDE DEF r, R
  <2>1. results \in Seq(R)
    BY DEF TypeOK, R
  <2> QED BY <2>1, <1>3, <1>4
<1> QED BY <1>1, <1>2, <1>5 DEF TypeOK, OneWordCall, Add

(* The types hold, and no Read writes past its buffer, whatever the length *)
(* of the buffer and the size of a word.                                   *)
THEOREM TypeOKHolds == Spec => []TypeOK
<1>1. Init => TypeOK
  BY ModulusAssumption DEF Init, TypeOK
<1>2. TypeOK /\ [Next]_vars => TypeOK'
  <2> SUFFICES ASSUME TypeOK, [Next]_vars PROVE TypeOK'
    OBVIOUS
  <2>1. ASSUME NEW g \in Goroutines, Sum64(g) PROVE TypeOK'
    <3>1. LowBytes(Drawn, BytesPerWord) \in Seq(Bytes)
      BY DrawnInWords, CutsAreBytes, SizesAssumption DEF TypeOK
    <3> QED BY <2>1, <3>1, OneWordTypes DEF Sum64
  <2>2. ASSUME NEW g \in Goroutines, Sum32(g) PROVE TypeOK'
    <3>1. HighHalf(Drawn) \in Seq(Bytes)
      BY DrawnInWords, CutsAreBytes DEF TypeOK
    <3> QED BY <2>2, <3>1, OneWordTypes DEF Sum32
  <2>8. ASSUME NEW g \in Goroutines, SumBytes(g) PROVE TypeOK'
    <3>1. LowBytes(Drawn, BytesPerWord) \in Seq(Bytes)
      BY DrawnInWords, CutsAreBytes, SizesAssumption DEF TypeOK
    <3> QED BY <2>8, <3>1, OneWordTypes DEF SumBytes
  <2>3. ASSUME NEW g \in Goroutines, NEW n \in ReadLengths, Read(g, n)
        PROVE  TypeOK'
    <3>1. n \in Nat /\ Len(<<>>) = 0
      BY SizesAssumption
    <3>2. /\ pc' \in [Goroutines -> {"idle", "read"}]
          /\ length' \in [Goroutines -> Nat]
          /\ out' \in [Goroutines -> Seq(Bytes)]
          /\ mine' \in [Goroutines -> Seq(Nat)]
      BY <2>3, <3>1 DEF TypeOK, Read
    <3>3. \A h \in Goroutines : Len(out'[h]) <= length'[h]
      BY <2>3, <3>1 DEF TypeOK, Read
    <3> QED BY <2>3, <3>2, <3>3 DEF TypeOK, Read
  <2>4. ASSUME NEW g \in Goroutines, FillWord(g) PROVE TypeOK'
    <3>1. BytesPerWord \in 0 .. BytesPerWord
      BY SizesAssumption
    <3> QED BY <2>4, <3>1, FillTypes DEF FillWord
  <2>5. ASSUME NEW g \in Goroutines, FillTail(g) PROVE TypeOK'
    <3>1. Left(g) \in Int
      BY DEF Left, TypeOK
    <3>2. Left(g) \in 0 .. BytesPerWord /\ Left(g) <= Left(g)
      BY <2>5, <3>1, SizesAssumption DEF FillTail
    <3> QED BY <2>5, <3>2, FillTypes DEF FillTail
  <2>6. ASSUME NEW g \in Goroutines, ReadReturns(g) PROVE TypeOK'
    <3>1. [g |-> g, kind |-> "read", len |-> length[g], bytes |-> out[g],
           from |-> mine[g]]
            \in [g : Goroutines, kind : {"sum64", "sum32", "sum", "read"},
                 len : Nat, bytes : Seq(Bytes), from : Seq(Nat)]
      BY DEF TypeOK
    <3>2. pc' \in [Goroutines -> {"idle", "read"}]
      BY <2>6 DEF TypeOK, ReadReturns
    <3> QED BY <2>6, <3>1, <3>2 DEF TypeOK, ReadReturns
  <2>7. CASE Finished \/ UNCHANGED vars
    BY <2>7 DEF TypeOK, Finished, vars
  <2> QED BY <2>1, <2>2, <2>3, <2>4, <2>5, <2>6, <2>7, <2>8 DEF Next
<1> QED BY <1>1, <1>2, PTL DEF Spec
-------------------------------------------------------------------------------
(* What results are made of.                                               *)

(* Division by the size of a word is unique.                               *)
LEMMA DivUnique ==
  ASSUME NEW q \in Nat, NEW r \in 0 .. BytesPerWord - 1
  PROVE  /\ (q * BytesPerWord + r) \div BytesPerWord = q
         /\ (q * BytesPerWord + r) % BytesPerWord = r
<1>1. BytesPerWord \in Nat /\ BytesPerWord > 0 /\ r \in Nat /\ r < BytesPerWord
  BY SizesAssumption
<1> QED BY <1>1

(* The bytes are cut, in order and from position first on, from words that *)
(* g took in the draws d, one word after the other.                        *)
CutFrom(d, g, bytes, from, first) ==
  /\ \A i, j \in DOMAIN from : i < j => from[i] < from[j]
  /\ \A i \in DOMAIN from : from[i] \in DOMAIN d /\ d[from[i]].g = g
  /\ \A b \in DOMAIN bytes :
       /\ ((b - 1) \div BytesPerWord) + 1 \in DOMAIN from
       /\ bytes[b] = <<d[from[((b - 1) \div BytesPerWord) + 1]].word,
                       first + ((b - 1) % BytesPerWord)>>

WordsFor(len) == (len + BytesPerWord - 1) \div BytesPerWord

(* A Read in progress has drawn a word for every full group of bytes, and  *)
(* for the tail when it is done.                                           *)
ReadInv(g) ==
  /\ CutFrom(draws, g, out[g], mine[g], 0)
  /\ Left(g) > 0 => Len(out[g]) = Len(mine[g]) * BytesPerWord
  /\ Left(g) = 0 => Len(mine[g]) = WordsFor(length[g])

FirstOf(r) == IF r.kind = "sum32" THEN BytesPerWord \div 2 ELSE 0

ResultInv(d, r) ==
  /\ Len(r.bytes) = r.len
  /\ Len(r.from) = WordsFor(r.len)
  /\ CutFrom(d, r.g, r.bytes, r.from, FirstOf(r))

CutInv ==
  /\ TypeOK
  /\ \A g \in Goroutines : pc[g] = "read" => ReadInv(g)
  /\ \A k \in DOMAIN results : ResultInv(draws, results[k])

(* Draws that others make later do not change what was cut before.         *)
LEMMA CutGrows ==
  ASSUME NEW S, NEW d \in Seq(S), NEW x \in S, NEW g,
         NEW bytes, NEW from, NEW first,
         CutFrom(d, g, bytes, from, first)
  PROVE  CutFrom(Append(d, x), g, bytes, from, first)
<1>1. \A k \in DOMAIN d : k \in DOMAIN Append(d, x) /\ Append(d, x)[k] = d[k]
  OBVIOUS
<1> DEFINE e == Append(d, x)
<1>2. \A k \in DOMAIN d : k \in DOMAIN e /\ e[k] = d[k]
  BY <1>1
<1> HIDE DEF e
<1>3. CutFrom(e, g, bytes, from, first)
  BY <1>2 DEF CutFrom
<1> QED BY <1>3 DEF e

(* The first part of a concatenation is the first sequence, the rest the   *)
(* second.                                                                 *)
LEMMA ConcatFacts ==
  ASSUME NEW S, NEW s \in Seq(S), NEW t \in Seq(S)
  PROVE  /\ DOMAIN s = 1 .. Len(s) /\ Len(s) \in Nat
         /\ DOMAIN (s \o t) = 1 .. Len(s) + Len(t)
         /\ \A b \in 1 .. Len(s) : (s \o t)[b] = s[b]
         /\ \A j \in 1 .. Len(t) : (s \o t)[Len(s) + j] = t[j]
<1>1. Len(s) \in Nat /\ Len(t) \in Nat /\ DOMAIN s = 1 .. Len(s)
  OBVIOUS
<1>2. s \o t \in Seq(S) /\ Len(s \o t) = Len(s) + Len(t)
  OBVIOUS
<1>3. DOMAIN (s \o t) = 1 .. Len(s) + Len(t)
  BY <1>1, <1>2
<1>4. \A b \in 1 .. Len(s) : (s \o t)[b] = s[b]
  BY <1>1
<1>5. \A j \in 1 .. Len(t) : (s \o t)[Len(s) + j] = t[j]
  BY <1>1
<1> QED BY <1>1, <1>3, <1>4, <1>5

(* The low n bytes of a new draw continue a cut of whole words.            *)
LEMMA CutExtends ==
  ASSUME NEW d \in Seq([g : Goroutines, word : Words]),
         NEW g \in Goroutines, NEW w \in Words,
         NEW bytes \in Seq(Bytes), NEW from \in Seq(Nat),
         NEW n \in 0 .. BytesPerWord,
         Len(bytes) = Len(from) * BytesPerWord,
         CutFrom(d, g, bytes, from, 0)
  PROVE  CutFrom(Append(d, [g |-> g, word |-> w]), g,
                 bytes \o LowBytes(w, n), Append(from, Len(d) + 1), 0)
<1> DEFINE e == Append(d, [g |-> g, word |-> w])
           f == Append(from, Len(d) + 1)
           m == Len(from)
           c == bytes \o LowBytes(w, n)
           at(b) == ((b - 1) \div BytesPerWord) + 1
<1>1. BytesPerWord \in Nat /\ BytesPerWord > 0 /\ m \in Nat /\ n \in Nat
      /\ n <= BytesPerWord /\ Len(d) \in Nat
  BY SizesAssumption
<1>2. /\ \A k \in DOMAIN d : k \in DOMAIN e /\ e[k] = d[k]
      /\ Len(d) + 1 \in DOMAIN e
      /\ e[Len(d) + 1].g = g /\ e[Len(d) + 1].word = w
  OBVIOUS
<1>3. /\ DOMAIN f = 1 .. m + 1 /\ DOMAIN from = 1 .. m
      /\ \A i \in 1 .. m : f[i] = from[i]
      /\ f[m + 1] = Len(d) + 1
  OBVIOUS
<1>4. /\ LowBytes(w, n) \in Seq(Bytes) /\ Len(LowBytes(w, n)) = n
      /\ \A j \in 1 .. n : LowBytes(w, n)[j] = <<w, j - 1>>
  BY CutsAreBytes DEF LowBytes
<1>5. /\ DOMAIN c = 1 .. m * BytesPerWord + n
      /\ DOMAIN bytes = 1 .. m * BytesPerWord
      /\ \A b \in 1 .. m * BytesPerWord : c[b] = bytes[b]
      /\ \A j \in 1 .. n : c[m * BytesPerWord + j] = <<w, j - 1>>
  <2> DEFINE t == LowBytes(w, n)
  <2>1. t \in Seq(Bytes) /\ Len(t) = n /\ \A j \in 1 .. n : t[j] = <<w, j - 1>>
    BY <1>4
  <2> HIDE DEF t
  <2>2. /\ DOMAIN bytes = 1 .. Len(bytes) /\ Len(bytes) \in Nat
        /\ DOMAIN (bytes \o t) = 1 .. Len(bytes) + Len(t)
        /\ \A b \in 1 .. Len(bytes) : (bytes \o t)[b] = bytes[b]
        /\ \A j \in 1 .. Len(t) : (bytes \o t)[Len(bytes) + j] = t[j]
    <3>1. bytes \in Seq(Bytes) /\ t \in Seq(Bytes)
      BY <2>1
    <3> QED BY ONLY <3>1, ConcatFacts, SMTT(30)
  <2>3. c = bytes \o t
    BY DEF t
  <2> HIDE DEF c, m
  <2>4. Len(bytes) = m * BytesPerWord
    BY DEF m
  <2> QED BY <2>1, <2>2, <2>3, <2>4
<1>6. \A i \in 1 .. m : from[i] \in DOMAIN d /\ d[from[i]].g = g
  BY <1>3 DEF CutFrom
<1> HIDE DEF e, f, m, c
<1>7. \A i, j \in DOMAIN f : i < j => f[i] < f[j]
  <2> SUFFICES ASSUME NEW i \in 1 .. m + 1, NEW j \in 1 .. m + 1, i < j
               PROVE  f[i] < f[j]
    BY <1>3
  <2>1. CASE j \in 1 .. m
    <3>1. i \in 1 .. m
      BY <1>1, <2>1
    <3> QED BY <2>1, <3>1, <1>3 DEF CutFrom
  <2>2. CASE j = m + 1
    <3>1. i \in 1 .. m
      BY <1>1, <2>2
    <3>2. from[i] \in 1 .. Len(d)
      BY <3>1, <1>6
    <3> QED BY <2>2, <3>1, <3>2, <1>1, <1>3
  <2> QED BY <1>1, <2>1, <2>2
<1>8. \A i \in DOMAIN f : f[i] \in DOMAIN e /\ e[f[i]].g = g
  <2> SUFFICES ASSUME NEW i \in 1 .. m + 1
               PROVE  f[i] \in DOMAIN e /\ e[f[i]].g = g
    BY <1>3
  <2>1. CASE i \in 1 .. m
    BY <2>1, <1>2, <1>3, <1>6
  <2>2. CASE i = m + 1
    BY <2>2, <1>2, <1>3
  <2> QED BY <1>1, <2>1, <2>2
<1>9. ASSUME NEW b \in DOMAIN c
      PROVE  at(b) \in DOMAIN f /\ c[b] = <<e[f[at(b)]].word, 0 + ((b - 1) % BytesPerWord)>>
  <2>0. m * BytesPerWord \in Nat
    BY <1>1
  <2>1. CASE b \in 1 .. m * BytesPerWord
    <3>1. at(b) \in 1 .. m /\ bytes[b] = <<d[from[at(b)]].word, 0 + ((b - 1) % BytesPerWord)>>
      BY <2>1, <1>3, <1>5 DEF CutFrom
    <3> HIDE DEF at
    <3>2. f[at(b)] = from[at(b)] /\ e[from[at(b)]] = d[from[at(b)]] /\ c[b] = bytes[b]
      BY <2>1, <3>1, <1>2, <1>3, <1>5, <1>6
    <3>3. at(b) \in DOMAIN f
      BY <3>1, <1>1, <1>3
    <3> QED BY <3>1, <3>2, <3>3
  <2>2. CASE b \in m * BytesPerWord + 1 .. m * BytesPerWord + n
    <3> DEFINE j == b - m * BytesPerWord
    <3>1. j \in 1 .. n /\ b = m * BytesPerWord + j /\ j - 1 \in 0 .. BytesPerWord - 1
      BY <2>0, <2>2, <1>1
    <3> HIDE DEF j
    <3>2. b - 1 = m * BytesPerWord + (j - 1)
      BY <2>0, <3>1, <1>1
    <3>3. (b - 1) \div BytesPerWord = m /\ (b - 1) % BytesPerWord = j - 1
      BY <3>1, <3>2, <1>1, DivUnique
    <3>4. c[b] = <<w, j - 1>>
      BY <3>1, <1>5
    <3>5. at(b) = m + 1
      BY <3>3
    <3>6. 0 + (j - 1) = j - 1
      BY <3>1
    <3> HIDE DEF at
    <3> QED BY <3>3, <3>4, <3>5, <3>6, <1>1, <1>2, <1>3
  <2>3. b \in 1 .. m * BytesPerWord + n
    BY <1>5
  <2> QED BY <2>0, <2>1, <2>2, <2>3, <1>1
<1>10. CutFrom(e, g, c, f, 0)
  BY <1>7, <1>8, <1>9 DEF CutFrom
<1> QED BY <1>10 DEF e, f, c

(* What one Add does to the facts about a Read that does not draw now, and *)
(* about the results there are.                                            *)
LEMMA OthersKeepCuts ==
  ASSUME CutInv, NEW g \in Goroutines, Add(g)
  PROVE  /\ \A h \in Goroutines :
              /\ pc[h] = "read"
              /\ UNCHANGED <<out[h], mine[h], length[h]>>
              => ReadInv(h)'
         /\ \A r : ResultInv(draws, r) => ResultInv(draws', r)
<1> DEFINE x == [g |-> g, word |-> Drawn]
           S == [g : Goroutines, word : Words]
<1>1. x \in S /\ draws \in Seq(S) /\ draws' = Append(draws, x)
  BY DrawnInWords DEF CutInv, TypeOK, Add
<1> HIDE DEF x, S
<1>2. ASSUME NEW h, NEW bytes, NEW from, NEW first,
             CutFrom(draws, h, bytes, from, first)
      PROVE  CutFrom(draws', h, bytes, from, first)
  BY <1>1, <1>2, CutGrows
<1>3. ASSUME NEW h \in Goroutines, pc[h] = "read",
             UNCHANGED <<out[h], mine[h], length[h]>>
      PROVE  ReadInv(h)'
  <2>1. ReadInv(h) /\ CutFrom(draws, h, out[h], mine[h], 0)
    BY <1>3 DEF CutInv, ReadInv
  <2>2. CutFrom(draws', h, out'[h], mine'[h], 0)
    BY <1>2, <1>3, <2>1
  <2> QED BY <1>3, <2>1, <2>2 DEF ReadInv, Left
<1>4. ASSUME NEW r, ResultInv(draws, r) PROVE ResultInv(draws', r)
  <2>1. CutFrom(draws, r.g, r.bytes, r.from, FirstOf(r))
    BY <1>4 DEF ResultInv
  <2>2. CutFrom(draws', r.g, r.bytes, r.from, FirstOf(r))
    BY <1>2, <2>1
  <2> QED BY <1>4, <2>2 DEF ResultInv
<1> QED BY <1>3, <1>4

(* A Read that draws a whole word, or the tail that is left.               *)
LEMMA FillKeepsCuts ==
  ASSUME CutInv, TypeOK', NEW g \in Goroutines, NEW n \in 1 .. BytesPerWord,
         n <= Left(g), n = BytesPerWord \/ n = Left(g),
         pc[g] = "read", Fill(g, n)
  PROVE  CutInv'
<1> DEFINE m == Len(mine[g])
<1>1. /\ BytesPerWord \in Nat /\ BytesPerWord > 0
      /\ n \in 0 .. BytesPerWord /\ n \in Nat /\ n > 0
  BY SizesAssumption
<1>2. /\ draws \in Seq([g : Goroutines, word : Words])
      /\ Drawn \in Words
      /\ out[g] \in Seq(Bytes) /\ mine[g] \in Seq(Nat) /\ length[g] \in Nat
      /\ Len(out[g]) \in Nat /\ m \in Nat
  BY DrawnInWords DEF CutInv, TypeOK
<1>3. /\ draws' = Append(draws, [g |-> g, word |-> Drawn])
      /\ out'[g] = out[g] \o LowBytes(Drawn, n)
      /\ mine'[g] = Append(mine[g], Len(draws) + 1)
      /\ \A h \in Goroutines : h # g => out'[h] = out[h] /\ mine'[h] = mine[h]
      /\ pc' = pc /\ length' = length /\ results' = results
  BY DEF Fill, Add, CutInv, TypeOK
<1>4. Left(g) \in Nat /\ Left(g) > 0 /\ Left(g) = length[g] - Len(out[g])
  BY <1>1, <1>2 DEF Left
<1>5. ReadInv(g) /\ Len(out[g]) = m * BytesPerWord
  BY <1>4 DEF CutInv, ReadInv
<1>6. CutFrom(draws', g, out'[g], mine'[g], 0)
  BY <1>1, <1>2, <1>3, <1>5, CutExtends DEF ReadInv
<1>7. Len(out'[g]) = m * BytesPerWord + n /\ Len(mine'[g]) = m + 1
  <2>1. LowBytes(Drawn, n) \in Seq(Bytes) /\ Len(LowBytes(Drawn, n)) = n
    BY <1>1, <1>2, CutsAreBytes
  <2>2. Len(out'[g]) = Len(out[g]) + n
    <3>1. \A s, t \in Seq(Bytes) : Len(s \o t) = Len(s) + Len(t)
      OBVIOUS
    <3> QED BY <1>2, <1>3, <2>1, <3>1
  <2>3. Len(mine'[g]) = m + 1
    BY <1>2, <1>3
  <2> QED BY <1>5, <2>2, <2>3
<1>8. Left(g)' = Left(g) - n
  <2> DEFINE p == m * BytesPerWord
  <2>1. p \in Nat
    BY <1>1, <1>2
  <2>2. Left(g)' = length[g] - (p + n) /\ Left(g) = length[g] - p
    BY <1>3, <1>4, <1>5, <1>7 DEF Left
  <2> HIDE DEF p
  <2> QED BY <1>1, <1>2, <2>1, <2>2
<1>9. ReadInv(g)'
  <2>1. ASSUME Left(g)' > 0
        PROVE  Len(out'[g]) = Len(mine'[g]) * BytesPerWord
    <3>1. n = BytesPerWord
      BY <2>1, <1>1, <1>4, <1>8
    <3>2. m * BytesPerWord + BytesPerWord = (m + 1) * BytesPerWord
      BY <1>1, <1>2
    <3> QED BY <3>1, <3>2, <1>7
  <2>2. ASSUME Left(g)' = 0
        PROVE  Len(mine'[g]) = WordsFor(length'[g])
    <3> DEFINE p == m * BytesPerWord
    <3>1. p \in Nat
      BY <1>1, <1>2
    <3>2. length[g] = p + n
      <4>1. length[g] - p = n
        BY <2>2, <1>1, <1>4, <1>5, <1>8
      <4> HIDE DEF p
      <4> QED BY <4>1, <3>1, <1>1, <1>2
    <3>3. length[g] + BytesPerWord - 1 = (m + 1) * BytesPerWord + (n - 1)
      <4>1. (m + 1) * BytesPerWord = p + BytesPerWord
        BY <1>1, <1>2
      <4> HIDE DEF p
      <4> QED BY <4>1, <3>1, <3>2, <1>1
    <3>4. n - 1 \in 0 .. BytesPerWord - 1 /\ m + 1 \in Nat
      BY <1>1, <1>2
    <3>5. (length[g] + BytesPerWord - 1) \div BytesPerWord = m + 1
      BY <3>3, <3>4, DivUnique
    <3> QED BY <3>5, <1>3, <1>7 DEF WordsFor
  <2> QED BY <1>6, <2>1, <2>2 DEF ReadInv
<1>10. ASSUME NEW h \in Goroutines, pc'[h] = "read" PROVE ReadInv(h)'
  <2>1. CASE h = g
    BY <2>1, <1>9
  <2>2. CASE h # g
    BY <2>2, <1>3, <1>10, OthersKeepCuts DEF Fill
  <2> QED BY <2>1, <2>2
<1>11. \A k \in DOMAIN results' : ResultInv(draws', results'[k])
  BY <1>3, OthersKeepCuts DEF CutInv, Fill
<1> QED BY <1>10, <1>11 DEF CutInv

(* A call of one word, of which it takes n bytes from first on.            *)
LEMMA OneWordKeepsCuts ==
  ASSUME CutInv, TypeOK', NEW g \in Goroutines, NEW kind, NEW bytes,
         NEW n \in 1 .. BytesPerWord, NEW first \in Nat,
         bytes = [j \in 1 .. n |-> <<Drawn, first + j - 1>>],
         first = IF kind = "sum32" THEN BytesPerWord \div 2 ELSE 0,
         OneWordCall(g, kind, bytes)
  PROVE  CutInv'
<1> DEFINE d == Len(draws) + 1
           r == [g |-> g, kind |-> kind, len |-> Len(bytes),
                 bytes |-> bytes, from |-> <<d>>]
<1>1. /\ BytesPerWord \in Nat /\ BytesPerWord > 0 /\ n \in Nat
      /\ n > 0 /\ n <= BytesPerWord
  BY SizesAssumption
<1>2. Len(bytes) = n /\ DOMAIN bytes = 1 .. n
  BY <1>1
<1>3. /\ results' = Append(results, r)
      /\ draws' = Append(draws, [g |-> g, word |-> Drawn])
      /\ UNCHANGED <<pc, length, out, mine>>
      /\ Add(g)
  BY DEF OneWordCall, Add
<1>4. d \in DOMAIN draws' /\ draws'[d].g = g /\ draws'[d].word = Drawn
  <2>1. draws \in Seq([g : Goroutines, word : Words])
    BY DEF CutInv, TypeOK
  <2> QED BY <2>1, <1>3
<1>5. \A b \in 1 .. n : /\ (b - 1) \div BytesPerWord = 0
                        /\ (b - 1) % BytesPerWord = b - 1
  <2> TAKE b \in 1 .. n
  <2>1. b - 1 \in 0 .. BytesPerWord - 1 /\ 0 * BytesPerWord + (b - 1) = b - 1
    BY <1>1
  <2> QED BY <2>1, DivUnique
<1>6. WordsFor(n) = 1
  <2>1. n - 1 \in 0 .. BytesPerWord - 1
        /\ 1 * BytesPerWord + (n - 1) = n + BytesPerWord - 1
    BY <1>1
  <2> QED BY <2>1, DivUnique DEF WordsFor
<1>7. CutFrom(draws', g, bytes, <<d>>, first)
  <2>1. DOMAIN <<d>> = {1} /\ <<d>>[1] = d
    OBVIOUS
  <2>2. \A i, j \in DOMAIN <<d>> : i < j => <<d>>[i] < <<d>>[j]
    BY <2>1
  <2>3. \A b \in 1 .. n : bytes[b] = <<Drawn, first + (b - 1)>>
    BY <1>1
  <2> HIDE DEF d
  <2> QED BY <2>1, <2>2, <2>3, <1>2, <1>4, <1>5 DEF CutFrom
<1>8. ResultInv(draws', r)
  <2>1. /\ r.g = g /\ r.bytes = bytes /\ r.from = <<d>> /\ r.len = n
        /\ FirstOf(r) = first /\ Len(<<d>>) = 1
    BY <1>2 DEF FirstOf
  <2> HIDE DEF r, d
  <2> QED BY <2>1, <1>2, <1>6, <1>7 DEF ResultInv
<1>9. \A k \in DOMAIN results' : ResultInv(draws', results'[k])
  <2> HIDE DEF r
  <2>1. \A k \in DOMAIN results : ResultInv(draws', results[k])
    BY <1>3, OthersKeepCuts DEF CutInv
  <2>2. \E R : results \in Seq(R)
    BY DEF CutInv, TypeOK
  <2>3. \A k \in DOMAIN results' :
          \/ k \in DOMAIN results /\ results'[k] = results[k]
          \/ results'[k] = r
    BY <2>2, <1>3
  <2> QED BY <2>1, <2>3, <1>8
<1>10. \A h \in Goroutines : pc'[h] = "read" => ReadInv(h)'
  BY <1>3, OthersKeepCuts
<1> QED BY <1>9, <1>10 DEF CutInv

LEMMA CutInvInductive == Spec => []CutInv
<1>1. Init /\ TypeOK => CutInv
  BY DEF Init, CutInv
<1>2. CutInv /\ TypeOK' /\ [Next]_vars => CutInv'
  <2> SUFFICES ASSUME CutInv, TypeOK', [Next]_vars PROVE CutInv'
    OBVIOUS
  <2>0. /\ BytesPerWord \in Nat /\ BytesPerWord > 0
        /\ BytesPerWord \in 1 .. BytesPerWord /\ 0 \in Nat
        /\ BytesPerWord \div 2 \in Nat
        /\ BytesPerWord - (BytesPerWord \div 2) \in 1 .. BytesPerWord
    BY SizesAssumption
  <2>10. \A h \in Goroutines : Left(h) \in Nat
    BY DEF CutInv, TypeOK, Left
  <2>9. LowBytes(Drawn, BytesPerWord) = [j \in 1 .. BytesPerWord |-> <<Drawn, 0 + j - 1>>]
    BY <2>0 DEF LowBytes
  <2>1. ASSUME NEW g \in Goroutines, Sum64(g) PROVE CutInv'
    BY <2>0, <2>1, <2>9, OneWordKeepsCuts DEF Sum64
  <2>2. ASSUME NEW g \in Goroutines, Sum32(g) PROVE CutInv'
    BY <2>0, <2>2, OneWordKeepsCuts DEF Sum32, HighHalf
  <2>3. ASSUME NEW g \in Goroutines, SumBytes(g) PROVE CutInv'
    BY <2>0, <2>3, <2>9, OneWordKeepsCuts DEF SumBytes
  <2>4. ASSUME NEW g \in Goroutines, NEW n \in ReadLengths, Read(g, n)
        PROVE  CutInv'
    <3>1. /\ pc' = [pc EXCEPT ![g] = "read"]
          /\ length' = [length EXCEPT ![g] = n]
          /\ out' = [out EXCEPT ![g] = <<>>]
          /\ mine' = [mine EXCEPT ![g] = <<>>]
          /\ n \in Nat /\ UNCHANGED <<draws, results>>
      BY <2>4, SizesAssumption DEF Read
    <3>2. ReadInv(g)'
      <4>1. out'[g] = <<>> /\ mine'[g] = <<>> /\ length'[g] = n
        BY <3>1 DEF CutInv, TypeOK
      <4>2. CutFrom(draws', g, <<>>, <<>>, 0)
        BY DEF CutFrom
      <4>3. Left(g)' = n /\ Len(<<>>) = 0 * BytesPerWord
        BY <4>1, <3>1, <2>0 DEF Left
      <4>4. WordsFor(0) = 0
        <5>1. BytesPerWord - 1 \in 0 .. BytesPerWord - 1
              /\ 0 * BytesPerWord + (BytesPerWord - 1) = 0 + BytesPerWord - 1
          BY <2>0
        <5> QED BY <5>1, DivUnique DEF WordsFor
      <4> QED BY <4>1, <4>2, <4>3, <4>4 DEF ReadInv
    <3>3. ASSUME NEW h \in Goroutines, pc'[h] = "read", h # g PROVE ReadInv(h)'
      BY <3>1, <3>3 DEF CutInv, TypeOK, ReadInv, Left
    <3>4. \A k \in DOMAIN results' : ResultInv(draws', results'[k])
      BY <3>1 DEF CutInv, ResultInv
    <3> QED BY <3>2, <3>3, <3>4 DEF CutInv
  <2>5. ASSUME NEW g \in Goroutines, FillWord(g) PROVE CutInv'
    BY <2>0, <2>5, <2>10, FillKeepsCuts DEF FillWord
  <2>6. ASSUME NEW g \in Goroutines, FillTail(g) PROVE CutInv'
    <3>1. Left(g) \in 1 .. BytesPerWord /\ Left(g) <= Left(g)
      BY <2>0, <2>6, <2>10 DEF FillTail
    <3> QED BY <3>1, <2>6, FillKeepsCuts DEF FillTail
  <2>7. ASSUME NEW g \in Goroutines, ReadReturns(g) PROVE CutInv'
    <3> DEFINE r == [g |-> g, kind |-> "read", len |-> length[g],
                     bytes |-> out[g], from |-> mine[g]]
    <3>1. /\ results' = Append(results, r)
          /\ pc' = [pc EXCEPT ![g] = "idle"]
          /\ Left(g) = 0 /\ pc[g] = "read"
          /\ UNCHANGED <<length, out, mine, draws>>
      BY <2>7 DEF ReadReturns
    <3>2. ResultInv(draws, r)
      <4>1. ReadInv(g)
        BY <3>1 DEF CutInv
      <4>2. Len(out[g]) = length[g]
        BY <3>1 DEF Left, CutInv, TypeOK
      <4>3. FirstOf(r) = 0
        BY DEF FirstOf
      <4> QED BY <4>1, <4>2, <4>3, <3>1 DEF ResultInv, ReadInv
    <3> HIDE DEF r
    <3>3. \E R : results \in Seq(R)
      BY DEF CutInv, TypeOK
    <3>4. \A k \in DOMAIN results' :
            \/ k \in DOMAIN results /\ results'[k] = results[k]
            \/ results'[k] = r
      BY <3>1, <3>3
    <3>5. \A k \in DOMAIN results' : ResultInv(draws', results'[k])
      BY <3>1, <3>2, <3>4 DEF CutInv, ResultInv
    <3>6. \A h \in Goroutines : pc'[h] = "read" => ReadInv(h)'
      BY <3>1 DEF CutInv, TypeOK, ReadInv, Left
    <3> QED BY <3>5, <3>6 DEF CutInv
  <2>8. CASE Finished \/ UNCHANGED vars
    <3>1. UNCHANGED vars
      BY <2>8 DEF Finished
    <3> QED BY <3>1 DEF vars, CutInv, ReadInv, ResultInv, Left
  <2> QED BY <2>1, <2>2, <2>3, <2>4, <2>5, <2>6, <2>7, <2>8 DEF Next
<1> QED BY <1>1, <1>2, TypeOKHolds, PTL DEF Spec

(* Every call returns bytes of words it drew itself, in the order it drew  *)
(* them, none left out and none drawn in vain, whatever other goroutines   *)
(* take from the counter between two words of a Read.                      *)
THEOREM ResultsMatchDrawsHolds == Spec => []ResultsMatchDraws
<1>1. CutInv => ResultsMatchDraws
  BY DEF CutInv, ResultInv, CutFrom, FirstOf, WordsFor, ResultsMatchDraws
<1> QED BY <1>1, CutInvInductive, PTL

-------------------------------------------------------------------------------
(* The active provider.                                                    *)

(* RemoveAt(q, k) keeps the elements before k and moves the later ones     *)
(* down by one.                                                            *)
LEMMA RemoveAtProperties ==
  ASSUME NEW S, NEW q \in Seq(S), NEW k \in 1 .. Len(q)
  PROVE  /\ RemoveAt(q, k) \in Seq(S)
         /\ Len(RemoveAt(q, k)) = Len(q) - 1
         /\ \A i \in 1 .. Len(q) - 1 :
              RemoveAt(q, k)[i] = IF i < k THEN q[i] ELSE q[i + 1]
<1> DEFINE n == Len(q)
           a == SubSeq(q, 1, k - 1)
           b == SubSeq(q, k + 1, n)
<1>1. n \in Nat /\ k \in Nat /\ 1 <= k /\ k <= n
  OBVIOUS
<1>2. /\ a \in Seq(S) /\ Len(a) = k - 1
      /\ \A i \in 1 .. k - 1 : a[i] = q[i]
  <2>1. \A i \in 1 .. k - 1 : q[i] \in S
    BY <1>1
  <2>2. /\ SubSeq(q, 1, k - 1) \in Seq(S)
        /\ Len(SubSeq(q, 1, k - 1)) = IF 1 <= k - 1 THEN (k - 1) - 1 + 1 ELSE 0
        /\ \A i \in 1 .. (k - 1) - 1 + 1 : SubSeq(q, 1, k - 1)[i] = q[1 + i - 1]
    BY <1>1, <2>1, SubSeqProperties
  <2> QED BY <1>1, <2>2
<1>3. /\ b \in Seq(S) /\ Len(b) = n - k
      /\ \A i \in 1 .. n - k : b[i] = q[k + i]
  <2>1. \A i \in k + 1 .. n : q[i] \in S
    BY <1>1
  <2>2. /\ SubSeq(q, k + 1, n) \in Seq(S)
        /\ Len(SubSeq(q, k + 1, n)) = IF k + 1 <= n THEN n - (k + 1) + 1 ELSE 0
        /\ \A i \in 1 .. n - (k + 1) + 1 :
             SubSeq(q, k + 1, n)[i] = q[(k + 1) + i - 1]
    BY <1>1, <2>1, SubSeqProperties
  <2> QED BY <1>1, <2>2
<1>4. RemoveAt(q, k) = a \o b
  BY DEF RemoveAt
<1> HIDE DEF a, b
<1>5. /\ a \o b \in Seq(S) /\ Len(a \o b) = n - 1
      /\ \A i \in 1 .. n - 1 :
           (a \o b)[i] = IF i <= Len(a) THEN a[i] ELSE b[i - Len(a)]
  <2>1. /\ a \o b \in Seq(S)
        /\ Len(a \o b) = Len(a) + Len(b)
        /\ \A i \in 1 .. Len(a) + Len(b) :
             (a \o b)[i] = IF i <= Len(a) THEN a[i] ELSE b[i - Len(a)]
    BY <1>2, <1>3, ConcatProperties
  <2>2. Len(a) + Len(b) = n - 1
    BY <1>1, <1>2, <1>3
  <2> QED BY <2>1, <2>2
<1> QED BY <1>1, <1>2, <1>3, <1>4, <1>5
-------------------------------------------------------------------------------
(* Types.                                                                  *)

LEMMA ResolveType ==
  ASSUME NEW p \in Providers \union {Nil}
  PROVE  Resolve(p) \in Providers /\ (p \in Providers => Resolve(p) = p)
BY ProvidersAssumption DEF Resolve

LEMMA SwapTypes ==
  ASSUME ActiveTypeOK, NEW s \in Scopes, Swap(s)
  PROVE  /\ active' \in Providers
         /\ installed' \in Seq(Providers)
         /\ returned' \in Seq(Providers)
         /\ window' \in [Callers -> SUBSET Providers]
         /\ Result(s) \in Providers
BY DEF ActiveTypeOK, Swap, Result

LEMMA ActiveTypeOKInductive ==
  ASSUME ActiveTypeOK, [ActiveNext]_activeVars
  PROVE  ActiveTypeOK'
<1>1. ASSUME NEW s \in Scopes, NEW p \in Providers \union {Nil}, NEW to,
             to \in {"opening", "closing", "setting"}, Begin(s, p, to)
      PROVE  ActiveTypeOK'
  BY <1>1, ResolveType DEF ActiveTypeOK, Begin, calls
<1>2. ASSUME NEW s \in Scopes, NEW p \in Providers \union {Nil},
             Open(s, p) \/ Set(s, p)
      PROVE  ActiveTypeOK'
  BY <1>1, <1>2 DEF Open, Set
<1>3. ASSUME NEW s \in Scopes, Close(s) PROVE ActiveTypeOK'
  <2>1. prev[s] \in Providers \union {Nil}
    BY DEF ActiveTypeOK
  <2> QED BY <1>1, <1>3, <2>1 DEF Close
<1>4. ASSUME NEW s \in Scopes, OpenSwaps(s) PROVE ActiveTypeOK'
  BY <1>4, SwapTypes DEF ActiveTypeOK, OpenSwaps, calls
<1>5. ASSUME NEW s \in Scopes, SetSwaps(s) PROVE ActiveTypeOK'
  <2>1. arg[s] \in Providers /\ base \in Providers
    BY DEF ActiveTypeOK
  <2>2. base' \in Providers
    BY <1>5, <2>1 DEF SetSwaps
  <2> QED BY <1>5, <2>2, SwapTypes DEF ActiveTypeOK, SetSwaps, calls
<1>6. ASSUME NEW s \in Scopes, CloseSwaps(s) PROVE ActiveTypeOK'
  <2>1. PICK k \in DOMAIN open :
          open' = RemoveAt(open, k) /\ nested' = (nested /\ k = Len(open))
    BY <1>6 DEF CloseSwaps
  <2>2. open' \in Seq(Scopes)
    <3>1. open \in Seq(Scopes) /\ k \in 1 .. Len(open)
      BY DEF ActiveTypeOK
    <3> QED BY <2>1, <3>1, RemoveAtProperties
  <2>3. nested' \in BOOLEAN
    BY <2>1
  <2> QED BY <1>6, <2>2, <2>3, SwapTypes DEF ActiveTypeOK, CloseSwaps, calls
<1>7. ASSUME NEW c \in Callers, Enter(c) \/ Load(c) \/ Draw(c) \/ Return(c)
      PROVE  ActiveTypeOK'
  <2>1. CASE Enter(c)
    BY <2>1 DEF ActiveTypeOK, Enter, settings
  <2>2. CASE Load(c)
    BY <2>2 DEF ActiveTypeOK, Load, settings
  <2>3. CASE Draw(c)
    BY <2>3 DEF ActiveTypeOK, Draw, settings
  <2>4. CASE Return(c)
    BY <2>4 DEF ActiveTypeOK, Return, settings
  <2> QED BY <1>7, <2>1, <2>2, <2>3, <2>4
<1>8. CASE UNCHANGED activeVars
  BY <1>8 DEF ActiveTypeOK, activeVars, settings, calls
<1> QED BY <1>2, <1>3, <1>4, <1>5, <1>6, <1>7, <1>8 DEF ActiveNext

(* Only providers are ever active, handed to a generator or returned by    *)
(* SetProvider: a nil argument never gets through.                         *)
THEOREM ActiveTypeOKHolds == ActiveSpec => []ActiveTypeOK
<1>1. ActiveInit => ActiveTypeOK
  BY ProvidersAssumption DEF ActiveInit, ActiveTypeOK
<1> QED BY <1>1, ActiveTypeOKInductive, PTL DEF ActiveSpec
-------------------------------------------------------------------------------
(* The chain of swaps.                                                     *)

LEMMA SwapExtendsChain ==
  ASSUME ActiveTypeOK, SwapChain, NEW s \in Scopes, Swap(s)
  PROVE  SwapChain'
<1> DEFINE n == Len(returned)
<1>1. /\ installed \in Seq(Providers) /\ returned \in Seq(Providers)
      /\ n \in Nat /\ Len(installed) = n + 1
      /\ \A k \in 1 .. n : returned[k] = installed[k]
      /\ active = installed[n + 1]
  BY DEF ActiveTypeOK, SwapChain
<1>2. /\ active' = arg[s] /\ arg[s] \in Providers /\ active \in Providers
      /\ installed' = Append(installed, arg[s])
      /\ returned' = Append(returned, active)
  BY DEF ActiveTypeOK, Swap, Result
<1>3. /\ Len(installed') = n + 2 /\ Len(returned') = n + 1
      /\ \A k \in 1 .. n + 1 : installed'[k] = installed[k]
      /\ installed'[n + 2] = arg[s]
      /\ \A k \in 1 .. n : returned'[k] = returned[k]
      /\ returned'[n + 1] = active
  <2>1. \A k \in 1 .. n : returned'[k] = returned[k]
    BY <1>1, <1>2, AppendProperties
  <2>2. returned'[n + 1] = active /\ Len(returned') = n + 1
    BY <1>1, <1>2, AppendProperties
  <2>3. \A k \in 1 .. n + 1 : installed'[k] = installed[k]
    BY <1>1, <1>2, AppendProperties
  <2>4. installed'[n + 2] = arg[s] /\ Len(installed') = n + 2
    BY <1>1, <1>2, AppendProperties
  <2> QED BY <2>1, <2>2, <2>3, <2>4
<1>4. DOMAIN returned' = 1 .. n + 1
  BY <1>1, <1>2, <1>3
<1>5. \A k \in 1 .. n + 1 : returned'[k] = installed'[k]
  <2> TAKE k \in 1 .. n + 1
  <2>1. CASE k = n + 1
    BY <2>1, <1>1, <1>3
  <2>2. CASE k \in 1 .. n
    BY <2>2, <1>1, <1>3
  <2> QED BY <1>1, <2>1, <2>2
<1>6. Len(installed') = Len(returned') + 1 /\ active' = installed'[Len(installed')]
  BY <1>1, <1>2, <1>3
<1> QED BY <1>4, <1>5, <1>6 DEF SwapChain

(* SetProvider returns the prior provider, whatever runs beside it.        *)
THEOREM SwapChainHolds == ActiveSpec => []SwapChain
<1>1. ActiveInit => SwapChain
  BY ProvidersAssumption DEF ActiveInit, SwapChain
<1>2. ActiveTypeOK /\ SwapChain /\ [ActiveNext]_activeVars => SwapChain'
  <2> SUFFICES ASSUME ActiveTypeOK, SwapChain, [ActiveNext]_activeVars PROVE SwapChain'
    OBVIOUS
  <2>1. ASSUME UNCHANGED <<active, installed, returned>> PROVE SwapChain'
    BY <2>1 DEF SwapChain
  <2>2. ASSUME NEW s \in Scopes, NEW p \in Providers \union {Nil},
               Open(s, p) \/ Set(s, p)
        PROVE  SwapChain'
    BY <2>1, <2>2 DEF Open, Set, Begin
  <2>3. ASSUME NEW s \in Scopes, Close(s) PROVE SwapChain'
    BY <2>1, <2>3 DEF Close, Begin
  <2>4. ASSUME NEW s \in Scopes, OpenSwaps(s) \/ SetSwaps(s) \/ CloseSwaps(s)
        PROVE  SwapChain'
    BY <2>4, SwapExtendsChain DEF OpenSwaps, SetSwaps, CloseSwaps
  <2>5. ASSUME NEW c \in Callers, Enter(c) \/ Load(c) \/ Draw(c) \/ Return(c)
        PROVE  SwapChain'
    BY <2>1, <2>5 DEF Enter, Load, Draw, Return, settings
  <2>6. CASE UNCHANGED activeVars
    BY <2>1, <2>6 DEF activeVars, settings
  <2> QED BY <2>2, <2>3, <2>4, <2>5, <2>6 DEF ActiveNext
<1> QED BY <1>1, <1>2, ActiveTypeOKHolds, PTL DEF ActiveSpec
-------------------------------------------------------------------------------
(* Generator calls.                                                        *)

(* A call that has entered will load a provider of its window, and one     *)
(* that has loaded has drawn from its snapshot only.                       *)
CallInv ==
  \A c \in Callers :
    /\ call[c] = "entered" => active \in window[c] /\ used[c] = <<>>
    /\ call[c] = "drawing" =>
         /\ snapshot[c] \in window[c]
         /\ \A i \in DOMAIN used[c] : used[c][i] = snapshot[c]

LEMMA SwapKeepsCallInv ==
  ASSUME ActiveTypeOK, CallInv, NEW s \in Scopes, Swap(s), UNCHANGED calls
  PROVE  CallInv'
<1> SUFFICES ASSUME NEW c \in Callers
             PROVE  /\ call[c] = "entered" => arg[s] \in window'[c] /\ used[c] = <<>>
                    /\ call[c] = "drawing" =>
                         /\ snapshot[c] \in window'[c]
                         /\ \A i \in DOMAIN used[c] : used[c][i] = snapshot[c]
  BY DEF CallInv, Swap, calls
<1>1. call[c] # "out" => window'[c] = window[c] \union {arg[s]}
  BY DEF Swap
<1> QED BY <1>1 DEF CallInv

(* One provider per call, active at some moment of it, however SetProvider *)
(* calls of any number of goroutines fall between its draws.               *)
THEOREM OneProviderPerCallHolds == ActiveSpec => []OneProviderPerCall
<1>1. ActiveInit => CallInv
  BY DEF ActiveInit, CallInv
<1>2. ActiveTypeOK /\ CallInv /\ [ActiveNext]_activeVars => CallInv'
  <2> SUFFICES ASSUME ActiveTypeOK, CallInv, [ActiveNext]_activeVars PROVE CallInv'
    OBVIOUS
  <2>1. ASSUME UNCHANGED <<active, calls, window>> PROVE CallInv'
    BY <2>1 DEF CallInv, calls
  <2>2. ASSUME NEW s \in Scopes, NEW p \in Providers \union {Nil},
               Open(s, p) \/ Set(s, p)
        PROVE  CallInv'
    BY <2>1, <2>2 DEF Open, Set, Begin
  <2>3. ASSUME NEW s \in Scopes, Close(s) PROVE CallInv'
    BY <2>1, <2>3 DEF Close, Begin
  <2>4. ASSUME NEW s \in Scopes, OpenSwaps(s) \/ SetSwaps(s) \/ CloseSwaps(s)
        PROVE  CallInv'
    BY <2>4, SwapKeepsCallInv DEF OpenSwaps, SetSwaps, CloseSwaps
  <2>5. ASSUME NEW c \in Callers, Enter(c) PROVE CallInv'
    BY <2>5 DEF CallInv, ActiveTypeOK, Enter, settings
  <2>6. ASSUME NEW c \in Callers, Load(c) PROVE CallInv'
    BY <2>6 DEF CallInv, ActiveTypeOK, Load, settings
  <2>7. ASSUME NEW c \in Callers, Draw(c) PROVE CallInv'
    <3> SUFFICES ASSUME NEW d \in Callers
                 PROVE  /\ call[d] = "entered" =>
                             active \in window[d] /\ used'[d] = <<>>
                        /\ call[d] = "drawing" =>
                             /\ snapshot[d] \in window[d]
                             /\ \A i \in DOMAIN used'[d] : used'[d][i] = snapshot[d]
      BY <2>7 DEF CallInv, Draw, settings
    <3>1. CASE d = c
      <4>1. used'[c] = Append(used[c], snapshot[c]) /\ call[c] = "drawing"
        BY <2>7 DEF Draw, ActiveTypeOK
      <4>2. used[c] \in Seq(Providers) /\ snapshot[c] \in Providers
        BY DEF ActiveTypeOK
      <4>3. \A i \in DOMAIN used'[c] : used'[c][i] = snapshot[c]
        BY <4>1, <4>2, AppendProperties DEF CallInv
      <4> QED BY <3>1, <4>1, <4>3 DEF CallInv
    <3>2. CASE d # c
      <4>1. used'[d] = used[d]
        BY <3>2, <2>7 DEF Draw, ActiveTypeOK
      <4> QED BY <4>1 DEF CallInv
    <3> QED BY <3>1, <3>2
  <2>8. ASSUME NEW c \in Callers, Return(c) PROVE CallInv'
    BY <2>8 DEF CallInv, ActiveTypeOK, Return, settings
  <2>9. CASE UNCHANGED activeVars
    BY <2>1, <2>9 DEF activeVars, settings
  <2> QED BY <2>2, <2>3, <2>4, <2>5, <2>6, <2>7, <2>8, <2>9 DEF ActiveNext
<1>3. ActiveTypeOK /\ CallInv => OneProviderPerCall
  <2> SUFFICES ASSUME ActiveTypeOK, CallInv, NEW c \in Callers, call[c] # "out",
                      NEW i \in DOMAIN used[c], NEW j \in DOMAIN used[c]
               PROVE  used[c][i] = used[c][j] /\ used[c][i] \in window[c]
    BY DEF OneProviderPerCall
  <2>1. call[c] = "entered" \/ call[c] = "drawing"
    BY DEF ActiveTypeOK
  <2>2. CASE call[c] = "entered"
    BY <2>2 DEF CallInv
  <2>3. CASE call[c] = "drawing"
    BY <2>3 DEF CallInv
  <2> QED BY <2>1, <2>2, <2>3
<1> QED BY <1>1, <1>2, <1>3, ActiveTypeOKHolds, PTL DEF ActiveSpec
-------------------------------------------------------------------------------
(* Scopes.                                                                 *)

(* The open list holds exactly the scopes inside, each once; the outermost *)
(* of them saved what was set outside; a closing scope installs what it    *)
(* saved.  The property alone is not inductive: it says nothing while a    *)
(* scope is open.                                                          *)
ScopeInv ==
  /\ \A s \in Scopes : place[s] \in {"inside", "closing"} =>
       \E k \in DOMAIN open : open[k] = s
  /\ \A k \in DOMAIN open : place[open[k]] \in {"inside", "closing"}
  /\ \A j, k \in DOMAIN open : open[j] = open[k] => j = k
  /\ \A s \in Scopes : place[s] = "closing" => arg[s] = prev[s]
  /\ nested => IF open = <<>> THEN active = base ELSE prev[open[1]] = base

LEMMA OpenSwapsKeepsScopeInv ==
  ASSUME ActiveTypeOK, ScopeInv, NEW s \in Scopes, OpenSwaps(s)
  PROVE  ScopeInv'
<1> DEFINE n == Len(open)
<1>1. /\ open \in Seq(Scopes) /\ n \in Nat
      /\ open' = Append(open, s) /\ open' \in Seq(Scopes)
      /\ DOMAIN open = 1 .. n /\ DOMAIN open' = 1 .. n + 1
      /\ \A k \in 1 .. n : open'[k] = open[k] /\ open[k] \in Scopes
      /\ open'[n + 1] = s
  BY AppendProperties DEF ActiveTypeOK, OpenSwaps
<1>2. /\ place[s] = "opening" /\ place' = [place EXCEPT ![s] = "inside"]
      /\ prev' = [prev EXCEPT ![s] = active]
      /\ arg' = arg /\ base' = base /\ nested' = nested
      /\ place \in [Scopes -> {"out", "opening", "inside", "closing", "setting"}]
      /\ prev \in [Scopes -> Providers]
  BY DEF ActiveTypeOK, OpenSwaps, Result
<1>3. \A k \in 1 .. n : open[k] # s
  BY <1>1, <1>2 DEF ScopeInv
<1>4. \A t \in Scopes : place'[t] \in {"inside", "closing"} =>
        \E k \in 1 .. n + 1 : open'[k] = t
  <2> SUFFICES ASSUME NEW t \in Scopes, place'[t] \in {"inside", "closing"}
               PROVE  \E k \in 1 .. n + 1 : open'[k] = t
    OBVIOUS
  <2>1. CASE t = s
    BY <2>1, <1>1
  <2>2. CASE t # s
    <3>1. PICK k \in 1 .. n : open[k] = t
      BY <2>2, <1>1, <1>2 DEF ScopeInv
    <3> QED BY <3>1, <1>1
  <2> QED BY <2>1, <2>2
<1>5. \A k \in 1 .. n + 1 : place'[open'[k]] \in {"inside", "closing"}
  <2> TAKE k \in 1 .. n + 1
  <2>1. CASE k = n + 1
    BY <2>1, <1>1, <1>2
  <2>2. CASE k \in 1 .. n
    BY <2>2, <1>1, <1>2, <1>3 DEF ScopeInv
  <2> QED BY <1>1, <2>1, <2>2
<1>6. \A j, k \in 1 .. n + 1 : open'[j] = open'[k] => j = k
  BY <1>1, <1>3 DEF ScopeInv
<1>7. \A t \in Scopes : place'[t] = "closing" => arg'[t] = prev'[t]
  BY <1>2 DEF ScopeInv
<1>8. nested' => IF open' = <<>> THEN active' = base' ELSE prev'[open'[1]] = base'
  <2> SUFFICES ASSUME nested PROVE prev'[open'[1]] = base
    BY <1>1, <1>2
  <2>1. CASE n = 0
    <3>1. open = <<>>
      BY <2>1, <1>1
    <3> QED BY <2>1, <3>1, <1>1, <1>2 DEF ScopeInv
  <2>2. CASE n > 0
    <3>1. open # <<>> /\ 1 \in 1 .. n
      BY <2>2, <1>1
    <3> QED BY <3>1, <1>1, <1>2, <1>3 DEF ScopeInv
  <2> QED BY <1>1, <2>1, <2>2
<1> QED BY <1>1, <1>4, <1>5, <1>6, <1>7, <1>8 DEF ScopeInv

LEMMA CloseSwapsKeepsScopeInv ==
  ASSUME ActiveTypeOK, ScopeInv, NEW s \in Scopes, CloseSwaps(s)
  PROVE  ScopeInv'
<1> DEFINE n == Len(open)
<1>0. \E k \in 1 .. n :
        /\ open[k] = s
        /\ open' = RemoveAt(open, k)
        /\ nested' => (nested /\ k = n)
  <2>1. \E k \in DOMAIN open :
          /\ open[k] = s
          /\ open' = RemoveAt(open, k)
          /\ nested' => (nested /\ k = n)
    BY Zenon DEF CloseSwaps
  <2>2. DOMAIN open = 1 .. n
    BY DEF ActiveTypeOK
  <2> QED BY <2>1, <2>2, Zenon
<1>1. PICK k \in 1 .. n :
        /\ open[k] = s
        /\ open' = RemoveAt(open, k)
        /\ nested' => (nested /\ k = n)
  BY <1>0
<1>10. k \in 1 .. n /\ open[k] = s /\ open' = RemoveAt(open, k)
  BY <1>1, Zenon
<1>2. /\ open \in Seq(Scopes) /\ n \in Nat /\ DOMAIN open = 1 .. n
      /\ open' \in Seq(Scopes) /\ Len(open') = n - 1 /\ DOMAIN open' = 1 .. n - 1
      /\ \A i \in 1 .. n - 1 : open'[i] = IF i < k THEN open[i] ELSE open[i + 1]
  <2>1. open \in Seq(Scopes)
    BY DEF ActiveTypeOK
  <2>2. /\ open' \in Seq(Scopes) /\ Len(open') = n - 1
        /\ \A i \in 1 .. n - 1 : open'[i] = IF i < k THEN open[i] ELSE open[i + 1]
    BY <1>10, <2>1, RemoveAtProperties
  <2> QED BY <2>1, <2>2
<1>3. /\ place[s] = "closing" /\ place' = [place EXCEPT ![s] = "out"]
      /\ active' = arg[s] /\ arg' = arg /\ prev' = prev /\ base' = base
      /\ place \in [Scopes -> {"out", "opening", "inside", "closing", "setting"}]
  BY DEF ActiveTypeOK, CloseSwaps, Swap
<1>4. \A i \in 1 .. n - 1 : open'[i] \in Scopes /\ open'[i] # s
  BY <1>10, <1>2 DEF ScopeInv
<1>5. \A t \in Scopes : place'[t] \in {"inside", "closing"} =>
        \E i \in 1 .. n - 1 : open'[i] = t
  <2> SUFFICES ASSUME NEW t \in Scopes, place'[t] \in {"inside", "closing"}
               PROVE  \E i \in 1 .. n - 1 : open'[i] = t
    OBVIOUS
  <2>1. t # s /\ place[t] \in {"inside", "closing"}
    BY <1>3
  <2>2. PICK m \in 1 .. n : open[m] = t
    BY <2>1, <1>2 DEF ScopeInv
  <2>3. CASE m < k
    BY <2>2, <2>3, <1>10, <1>2
  <2>4. CASE m > k
    <3>1. m - 1 \in 1 .. n - 1 /\ ~(m - 1 < k) /\ (m - 1) + 1 = m
      BY <2>4, <1>10, <1>2
    <3> QED BY <3>1, <2>2, <1>2
  <2> QED BY <2>1, <2>2, <2>3, <2>4, <1>10, <1>2
<1>6. \A i \in 1 .. n - 1 : place'[open'[i]] \in {"inside", "closing"}
  <2> TAKE i \in 1 .. n - 1
  <2>1. PICK m \in 1 .. n : open'[i] = open[m]
    BY <1>2, <1>10
  <2>2. place[open[m]] \in {"inside", "closing"}
    BY <1>2 DEF ScopeInv
  <2> QED BY <2>1, <2>2, <1>3, <1>4
<1>7. \A i, j \in 1 .. n - 1 : open'[i] = open'[j] => i = j
  <2> SUFFICES ASSUME NEW i \in 1 .. n - 1, NEW j \in 1 .. n - 1, i < j
               PROVE  open'[i] # open'[j]
    BY <1>2
  <2>1. /\ i \in 1 .. n /\ i + 1 \in 1 .. n /\ i # j /\ i # j + 1
        /\ j \in 1 .. n /\ j + 1 \in 1 .. n /\ i + 1 # j + 1
        /\ open'[i] = IF i < k THEN open[i] ELSE open[i + 1]
        /\ open'[j] = IF j < k THEN open[j] ELSE open[j + 1]
        /\ j < k => i < k
    BY <1>10, <1>2
  <2>2. \A l, m \in 1 .. n : open[l] = open[m] => l = m
    BY <1>2 DEF ScopeInv
  <2> QED BY <2>1, <2>2
<1>8. \A t \in Scopes : place'[t] = "closing" => arg'[t] = prev'[t]
  BY <1>3 DEF ScopeInv
<1>9. nested' => IF open' = <<>> THEN active' = base' ELSE prev'[open'[1]] = base'
  <2> SUFFICES ASSUME nested, k = n
               PROVE  IF open' = <<>> THEN arg[s] = base ELSE prev[open'[1]] = base
    BY <1>1, <1>3, Zenon
  <2>1. open # <<>> /\ prev[open[1]] = base
    BY <1>10, <1>2 DEF ScopeInv
  <2>2. CASE n = 1
    <3>1. open' = <<>> /\ open[1] = s
      BY <2>2, <1>10, <1>2
    <3>2. arg[s] = prev[s]
      BY <1>3 DEF ScopeInv
    <3> QED BY <3>1, <3>2, <2>1
  <2>3. CASE n > 1
    <3>1. open' # <<>> /\ open'[1] = open[1]
      BY <2>3, <1>10, <1>2
    <3> QED BY <3>1, <2>1
  <2> QED BY <1>10, <1>2, <2>2, <2>3
<1> QED BY <1>2, <1>5, <1>6, <1>7, <1>8, <1>9 DEF ScopeInv

(* previous := SetProvider(p); defer SetProvider(previous) puts back what  *)
(* was there, for any number of scopes, as long as they close in the       *)
(* reverse order of opening.                                               *)
THEOREM NestedScopesRestoreHolds == ActiveSpec => []NestedScopesRestore
<1>1. ActiveInit => ScopeInv
  BY DEF ActiveInit, ScopeInv
<1>2. ActiveTypeOK /\ ScopeInv /\ [ActiveNext]_activeVars => ScopeInv'
  <2> SUFFICES ASSUME ActiveTypeOK, ScopeInv, [ActiveNext]_activeVars PROVE ScopeInv'
    OBVIOUS
  <2>1. ASSUME NEW s \in Scopes, NEW p \in Providers \union {Nil},
               Open(s, p) \/ Set(s, p)
        PROVE  ScopeInv'
    <3>1. PICK to \in {"opening", "setting"} : place[s] = "out" /\ Begin(s, p, to)
      BY <2>1 DEF Open, Set
    <3>2. /\ place' = [place EXCEPT ![s] = to] /\ arg' = [arg EXCEPT ![s] = Resolve(p)]
          /\ UNCHANGED <<active, prev, open, base, nested>>
      BY <3>1 DEF Begin
    <3>3. place[s] = "out" /\ \A k \in DOMAIN open : open[k] # s
      BY <3>1 DEF ScopeInv
    <3>4. /\ place \in [Scopes -> {"out", "opening", "inside", "closing", "setting"}]
          /\ arg \in [Scopes -> Providers]
          /\ open \in Seq(Scopes)
      BY DEF ActiveTypeOK
    <3>5. \A t \in Scopes : t # s => place'[t] = place[t] /\ arg'[t] = arg[t]
      BY <3>2, <3>4
    <3>6. place'[s] \notin {"inside", "closing"}
      BY <3>2, <3>4
    <3>7. \A t \in Scopes : place'[t] \in {"inside", "closing"} =>
            \E k \in DOMAIN open : open[k] = t
      BY <3>5, <3>6 DEF ScopeInv
    <3>8. \A k \in DOMAIN open : place'[open[k]] \in {"inside", "closing"}
      BY <3>3, <3>4, <3>5 DEF ScopeInv
    <3>9. \A t \in Scopes : place'[t] = "closing" => arg'[t] = prev[t]
      BY <3>5, <3>6 DEF ScopeInv
    <3> QED BY <3>2, <3>7, <3>8, <3>9 DEF ScopeInv
  <2>2. ASSUME NEW s \in Scopes, Close(s) PROVE ScopeInv'
    <3>1. Resolve(prev[s]) = prev[s]
      BY ResolveType DEF ActiveTypeOK
    <3> QED BY <2>2, <3>1 DEF Close, Begin, ScopeInv, ActiveTypeOK
  <2>3. ASSUME NEW s \in Scopes, OpenSwaps(s) PROVE ScopeInv'
    BY <2>3, OpenSwapsKeepsScopeInv
  <2>4. ASSUME NEW s \in Scopes, SetSwaps(s) PROVE ScopeInv'
    BY <2>4 DEF SetSwaps, Swap, ScopeInv, ActiveTypeOK
  <2>5. ASSUME NEW s \in Scopes, CloseSwaps(s) PROVE ScopeInv'
    BY <2>5, CloseSwapsKeepsScopeInv
  <2>6. ASSUME UNCHANGED settings PROVE ScopeInv'
    BY <2>6 DEF settings, ScopeInv
  <2>7. ASSUME NEW c \in Callers, Enter(c) \/ Load(c) \/ Draw(c) \/ Return(c)
        PROVE  ScopeInv'
    BY <2>6, <2>7 DEF Enter, Load, Draw, Return
  <2>8. CASE UNCHANGED activeVars
    BY <2>6, <2>8 DEF activeVars
  <2> QED BY <2>1, <2>2, <2>3, <2>4, <2>5, <2>7, <2>8 DEF ActiveNext
<1>3. ScopeInv => NestedScopesRestore
  BY DEF ScopeInv, NestedScopesRestore
<1> QED BY <1>1, <1>2, <1>3, ActiveTypeOKHolds, PTL DEF ActiveSpec
===============================================================================
