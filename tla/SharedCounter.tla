---------------------------- MODULE SharedCounter ----------------------------
(***************************************************************************)
(* The providers that share one atomic SplitMix64 counter between all      *)
(* goroutines: uint64Provider (provider.go) and, on the same               *)
(* fillAtomicRandomBytes, hashPool (hashpool.go).                          *)
(*                                                                         *)
(* state.Add(gamma) is the only access to shared memory, so it is the only *)
(* place where goroutines interleave: Sum, Sum64 and Sum32 perform one Add, *)
(* Read performs one per started group of BytesPerWord bytes and can be    *)
(* overtaken between any two of them.                                      *)
(*                                                                         *)
(* A byte is represented by the word it was cut from and its position in   *)
(* that word, <<word, j>>, j = 0 being the least significant byte: what    *)
(* the properties tell apart is which word a byte is from and whether the  *)
(* right end of it was kept.                                               *)
(***************************************************************************)
EXTENDS Integers, Sequences, FiniteSets

CONSTANTS
  Goroutines,
  Modulus,       \* 2^64 in the code: the counter wraps
  Gamma,         \* splitMixGamma
  Mix,           \* the avalanche splitMix64, as a function on words
  BytesPerWord,  \* 8 in the code
  ReadLengths,   \* the buffer lengths Read is called with
  MaxCalls       \* bound: the number of provider calls in a behaviour

Words == 0 .. Modulus - 1

ASSUME ModulusAssumption == Modulus \in Nat \ {0}

(* An odd gamma generates the whole cycle: no multiple of it below Modulus *)
(* steps returns the counter to where it was.                              *)
ASSUME GammaAssumption ==
  /\ Gamma \in Words
  /\ \A d \in 1 .. Modulus - 1 : (d * Gamma) % Modulus # 0

(* Every step of splitMix64 (xor with a right shift, multiplication by an  *)
(* odd number) is invertible.                                              *)
ASSUME MixAssumption ==
  /\ Mix \in [Words -> Words]
  /\ \A x, y \in Words : Mix[x] = Mix[y] => x = y

ASSUME SizesAssumption ==
  /\ BytesPerWord \in Nat \ {0}
  /\ ReadLengths \subseteq Nat
  /\ MaxCalls \in Nat

VARIABLES
  state,    \* the atomic counter
  seed,     \* what the counter was created with
  pc,       \* per goroutine: "idle" or "read" (inside fillAtomicRandomBytes)
  length,   \* per goroutine: len(out) of the Read in progress
  out,      \* per goroutine: the bytes of out written so far
  mine,     \* per goroutine: which draws the Read in progress has made
  draws,    \* history: every Add, with its goroutine and the word it became
  results   \* history: what each completed call returned, and from which draws

vars == <<state, seed, pc, length, out, mine, draws, results>>

-------------------------------------------------------------------------------

(* The wrapping addition of atomic.Uint64.Add.                             *)
AddGamma(s) == (s + Gamma) % Modulus

(* Defect: the tail keeps the upper end of the word.                        *)
UpperBytes(w, n) == [j \in 1 .. n |-> <<w, BytesPerWord - n + j - 1>>]

(* The low n bytes of w, little-endian: PutUint64 for n = BytesPerWord,    *)
(* putTail for fewer.                                                      *)
LowBytes(w, n) == [j \in 1 .. n |-> <<w, j - 1>>]

(* uint32(w >> 32): the upper half of the word.                            *)
HighHalf(w) ==
  LET half == BytesPerWord \div 2
  IN  [j \in 1 .. BytesPerWord - half |-> <<w, half + j - 1>>]

(* Defect: the word is made from the counter before the addition.          *)
DrawnBeforeAdd == Mix[state]

(* splitMix64(state.Add(splitMixGamma)): Add returns the new value.        *)
Drawn == Mix[AddGamma(state)]

(* Defect: load, add and store instead of one atomic Add: the store of a   *)
(* goroutine may be overwritten by another that loaded the same value.     *)
LostAdd(g) ==
  /\ state' \in {state, AddGamma(state)}
  /\ draws' = Append(draws, [g |-> g, word |-> Drawn])

Add(g) ==
  /\ state' = AddGamma(state)
  /\ draws' = Append(draws, [g |-> g, word |-> Drawn])

CallsMade == Len(results) + Cardinality({g \in Goroutines : pc[g] # "idle"})

Init ==
  /\ seed \in Words
  /\ state = seed
  /\ pc = [g \in Goroutines |-> "idle"]
  /\ length = [g \in Goroutines |-> 0]
  /\ out = [g \in Goroutines |-> <<>>]
  /\ mine = [g \in Goroutines |-> <<>>]
  /\ draws = <<>>
  /\ results = <<>>

(* A call that takes one word and returns the bytes that cut makes of it.  *)
OneWordCall(g, kind, bytes) ==
  /\ pc[g] = "idle"
  /\ CallsMade < MaxCalls
  /\ Add(g)
  /\ results' = Append(results, [g |-> g, kind |-> kind, len |-> Len(bytes),
                                 bytes |-> bytes, from |-> <<Len(draws) + 1>>])
  /\ UNCHANGED <<seed, pc, length, out, mine>>

Sum64(g) == OneWordCall(g, "sum64", LowBytes(Drawn, BytesPerWord))

Sum32(g) == OneWordCall(g, "sum32", HighHalf(Drawn))

(* What Sum appends to the slice it is given, little-endian.               *)
SumBytes(g) == OneWordCall(g, "sum", LowBytes(Drawn, BytesPerWord))

Read(g, n) ==
  /\ pc[g] = "idle"
  /\ CallsMade < MaxCalls
  /\ pc' = [pc EXCEPT ![g] = "read"]
  /\ length' = [length EXCEPT ![g] = n]
  /\ out' = [out EXCEPT ![g] = <<>>]
  /\ mine' = [mine EXCEPT ![g] = <<>>]
  /\ UNCHANGED <<state, seed, draws, results>>

(* Draw a word and write its low n bytes at the end of what is written.    *)
Fill(g, n) ==
  /\ Add(g)
  /\ out' = [out EXCEPT ![g] = @ \o LowBytes(Drawn, n)]
  /\ mine' = [mine EXCEPT ![g] = Append(@, Len(draws) + 1)]
  /\ UNCHANGED <<seed, pc, length, results>>

Left(g) == length[g] - Len(out[g])

(* Defect: i < len(out) writes a full word where only a tail is left.      *)
FillWordPastEnd(g) ==
  /\ pc[g] = "read"
  /\ Left(g) > 0
  /\ Fill(g, BytesPerWord)

(* The loop body: while i+8 <= len(out).                                   *)
FillWord(g) ==
  /\ pc[g] = "read"
  /\ Left(g) >= BytesPerWord
  /\ Fill(g, BytesPerWord)

(* The remainder after the loop, if i < len(out).                          *)
FillTail(g) ==
  /\ pc[g] = "read"
  /\ Left(g) > 0
  /\ Left(g) < BytesPerWord
  /\ Fill(g, Left(g))

ReadReturns(g) ==
  /\ pc[g] = "read"
  /\ Left(g) = 0
  /\ pc' = [pc EXCEPT ![g] = "idle"]
  /\ results' = Append(results, [g |-> g, kind |-> "read", len |-> length[g],
                                 bytes |-> out[g], from |-> mine[g]])
  /\ UNCHANGED <<state, seed, length, out, mine, draws>>

(* All calls of the bounded behaviour are over.                            *)
Finished ==
  /\ CallsMade = MaxCalls
  /\ \A g \in Goroutines : pc[g] = "idle"
  /\ UNCHANGED vars

Next ==
  \/ \E g \in Goroutines :
       \/ Sum64(g)
       \/ Sum32(g)
       \/ SumBytes(g)
       \/ \E n \in ReadLengths : Read(g, n)
       \/ FillWord(g)
       \/ FillTail(g)
       \/ ReadReturns(g)
  \/ Finished

Spec == Init /\ [][Next]_vars

-------------------------------------------------------------------------------

Bytes == Words \X (0 .. BytesPerWord - 1)

(* Every variable has its type, and a Read never writes past its buffer.   *)
TypeOK ==
  /\ state \in Words
  /\ seed \in Words
  /\ pc \in [Goroutines -> {"idle", "read"}]
  /\ length \in [Goroutines -> Nat]
  /\ out \in [Goroutines -> Seq(Bytes)]
  /\ \A g \in Goroutines : Len(out[g]) <= length[g]
  /\ mine \in [Goroutines -> Seq(Nat)]
  /\ draws \in Seq([g : Goroutines, word : Words])
  /\ results \in Seq([g : Goroutines, kind : {"sum64", "sum32", "sum", "read"},
                      len : Nat, bytes : Seq(Bytes), from : Seq(Nat)])

(* Word number k of the stream a seed s fixes.                             *)
Stream(s, k) == Mix[(s + k * Gamma) % Modulus]

(* Equal seeds reproduce equal values (NewUint64Provider): however the     *)
(* calls interleave, the words drawn so far are exactly the first ones of  *)
(* the seed's stream, in order, with none lost, repeated or skipped.       *)
DrawsFollowStream ==
  /\ state = (seed + Len(draws) * Gamma) % Modulus
  /\ \A k \in DOMAIN draws : draws[k].word = Stream(seed, k)

(* No two draws less than a full period apart produce the same word,       *)
(* whichever goroutines made them: the counter never hands a word to two   *)
(* callers, and splitMix64 never folds two counter values into one word.   *)
NoWordTwice ==
  \A i, j \in DOMAIN draws :
    i < j /\ j - i < Modulus => draws[i].word # draws[j].word

(* A call returns its words in the order it drew them, though other        *)
(* goroutines draw in between: byte b of a result is byte b of the word    *)
(* (from the upper half for Sum32) of the draw it belongs to, that draw    *)
(* was the caller's own, and no more words were drawn than the bytes need. *)
ResultsMatchDraws ==
  \A k \in DOMAIN results :
    LET r == results[k]
        drawOf(b) == draws[r.from[((b - 1) \div BytesPerWord) + 1]]
        first == IF r.kind = "sum32" THEN BytesPerWord \div 2 ELSE 0
    IN  /\ Len(r.bytes) = r.len
        /\ Len(r.from) = (r.len + BytesPerWord - 1) \div BytesPerWord
        /\ \A i, j \in DOMAIN r.from : i < j => r.from[i] < r.from[j]
        /\ \A i \in DOMAIN r.from : draws[r.from[i]].g = r.g
        /\ \A b \in DOMAIN r.bytes :
             r.bytes[b] = <<drawOf(b).word, first + ((b - 1) % BytesPerWord)>>

(* The counter implements the abstract stream.                             *)
Abstract == INSTANCE WordStream WITH handed <- draws

ImplementsStream == Abstract!Spec
================================================================================
