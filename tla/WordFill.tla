------------------------------- MODULE WordFill -------------------------------
(***************************************************************************)
(* Random words without adjacent duplicates (word.go): appendCustom's      *)
(* checks, the batched sampler fillBatchedNoRepeat with its roll-back of a *)
(* rejected word, and fillWideNoRepeat for dictionaries of more than       *)
(* WideAbove bytes.                                                        *)
(*                                                                         *)
(* One word yields up to Batch digits in base n-1, peeled off its top by   *)
(* repeated multiplication; whether the word may be used at all is known   *)
(* only when the last digit is out, so everything it wrote has to be taken *)
(* back if it may not.                                                     *)
(***************************************************************************)
EXTENDS Mul64, SequencesExt

CONSTANTS
  WordBits,      \* 64 in the code
  Dictionaries,  \* the dictionaries words are drawn from, sequences of bytes
  Lengths,       \* the lengths asked for
  WideAbove,     \* 256 in the code: longer dictionaries are not batched
  NoByte         \* what out holds where nothing has been written

(* n^k, a factor at a time.                                                *)
Power(n) ==
  LET prod[k \in 0 .. WordBits] == IF k = 0 THEN 1 ELSE prod[k - 1] * n
  IN  prod

ASSUME WordBitsAssumption ==
  WordBits \in Nat \ {0} /\ W = Power(2)[WordBits]

ASSUME DictionariesAssumption ==
  /\ \A D \in Dictionaries : D \in Seq(Range(D)) /\ Len(D) < W
  /\ Lengths \subseteq Int
  /\ WideAbove \in Nat

VARIABLES
  pc,        \* "idle", "first", "word", "digit", "wide" or "done"
  dict,
  length,
  st,        \* the sampler: out, i, last, lastIdx and the batch's lo, prod, d
  saved,     \* start, saveLast, saveIdx
  kept       \* history: what st was when the last word was accepted

vars == <<pc, dict, length, st, saved, kept>>

-------------------------------------------------------------------------------
(* newBatchSpec                                                            *)

(* The low half of -prod % prod: words beyond a whole number of shares.    *)
Excess(prod) == Threshold(prod)

(* The first loop stops when the product no longer fits in a word; n is at *)
(* least 2.                                                                *)
Fitting(n) == {k \in 1 .. WordBits : Power(n)[k] < W}

(* The second one gives up digits while more than one word in sixteen      *)
(* would be rejected.                                                      *)
BatchSize(n) ==
  IF n < 2 THEN WordBits
  ELSE Max({k \in Fitting(n) : k = 1 \/ Excess(Power(n)[k]) <= W \div 16})

(* The batch for every base that is batched, computed once.                *)
batchSpecs == [n \in 0 .. WideAbove |-> BatchSize(n)]

-------------------------------------------------------------------------------
(* One digit of a batch.                                                   *)

skipPast(idx, lastIdx) == IF idx >= lastIdx THEN 1 ELSE 0

(* The byte at a zero-based position.                                      *)
At(d, idx) == d[idx + 1]

Write(s, idx, c) ==
  [s EXCEPT !.out[s.i] = c, !.last = c, !.lastIdx = idx, !.i = s.i + 1]

(* Defect: a symbol that equals the previous byte is written.              *)
PeelAlways(s, D) ==
  LET n1 == Len(D) - 1
      hi == Hi(s.lo, n1)
      idx == hi + skipPast(hi, s.lastIdx)
      next == [s EXCEPT !.lo = Lo(s.lo, n1), !.prod = @ * n1, !.d = @ + 1]
  IN  Write(next, idx, At(D, idx))

(* The loop body: a position equal to the previous byte consumes a digit   *)
(* and writes nothing.                                                     *)
Peel(s, D) ==
  LET n1 == Len(D) - 1
      hi == Hi(s.lo, n1)
      idx == hi + skipPast(hi, s.lastIdx)
      next == [s EXCEPT !.lo = Lo(s.lo, n1), !.prod = @ * n1, !.d = @ + 1]
  IN  IF At(D, idx) = s.last THEN next ELSE Write(next, idx, At(D, idx))

(* Defect: the batch runs on when out is full.                             *)
CanPeelWhenFull(s, D, len) == s.d < batchSpecs[Len(D) - 1]

(* The condition of that loop; out is full when i has passed len.          *)
CanPeel(s, D, len) == s.d < batchSpecs[Len(D) - 1] /\ s.i <= len

(* Defect: a word is never rejected.                                       *)
NeverRejected(s) == FALSE

(* lo < prod && lo < -prod%prod                                            *)
BatchRejected(s) == s.lo < s.prod /\ s.lo < Excess(s.prod)

BeginBatch(s, x) == [s EXCEPT !.lo = x, !.prod = 1, !.d = 0]

Blank(len) ==
  [out |-> [k \in 1 .. len |-> NoByte], i |-> 1, last |-> NoByte, lastIdx |-> 0,
   lo |-> 0, prod |-> 1, d |-> 0]

Position(s) == [i |-> s.i, last |-> s.last, lastIdx |-> s.lastIdx]

(* Defect: the position is taken back, the previous symbol is not.         *)
RestorePosition(s, sv) == [s EXCEPT !.i = sv.i]

(* last, lastIdx = saveLast, saveIdx; i = start                            *)
Restore(s, sv) == [s EXCEPT !.i = sv.i, !.last = sv.last, !.lastIdx = sv.lastIdx]

-------------------------------------------------------------------------------

Init ==
  /\ pc = "idle"
  /\ dict = <<>>
  /\ length = 0
  /\ st = Blank(0)
  /\ saved = Position(Blank(0))
  /\ kept = Blank(0)

(* Defect: only empty dictionaries are refused.                            *)
RefusesEmpty(D, len) == len <= 0 \/ D = <<>>

(* appendCustom's early returns: nothing to draw, or, for more than one    *)
(* symbol, no second byte that differs from the first.                     *)
Refuses(D, len) ==
  \/ len <= 0
  \/ D = <<>>
  \/ len > 1 /\ \A k \in DOMAIN D : D[k] = D[1]

Begin(D, len) ==
  /\ pc = "idle"
  /\ dict' = D
  /\ length' = len
  /\ UNCHANGED saved

Refuse(D, len) ==
  /\ Begin(D, len)
  /\ Refuses(D, len)
  /\ pc' = "done"
  /\ UNCHANGED <<st, kept>>

Start(D, len) ==
  /\ Begin(D, len)
  /\ ~Refuses(D, len)
  /\ pc' = IF Len(D) <= WideAbove THEN "first" ELSE "wide"
  /\ st' = Blank(len)
  /\ kept' = Blank(len)

(* boundedFrom draws until it accepts; the words it rejects leave no trace *)
(* in the sampler.                                                         *)
BoundedAccepts(x, n) == ~Rejects(Lo(x, n), n)

(* The first symbol, uniform over all positions.                           *)
First(x) ==
  LET idx == Hi(x, Len(dict))
  IN  /\ pc = "first"
      /\ BoundedAccepts(x, Len(dict))
      /\ st' = Write(st, idx, At(dict, idx))
      /\ kept' = st'
      /\ pc' = IF length = 1 \/ Len(dict) < 2 THEN "done" ELSE "word"
      /\ UNCHANGED <<dict, length, saved>>

DrawWord(x) ==
  /\ pc = "word"
  /\ st' = BeginBatch(st, x)
  /\ saved' = Position(st)
  /\ pc' = "digit"
  /\ UNCHANGED <<dict, length, kept>>

Digit ==
  /\ pc = "digit"
  /\ CanPeel(st, dict, length)
  /\ st' = Peel(st, dict)
  /\ UNCHANGED <<pc, dict, length, saved, kept>>

BatchOver == pc = "digit" /\ ~CanPeel(st, dict, length)

RejectWord ==
  /\ BatchOver
  /\ BatchRejected(st)
  /\ st' = Restore(st, saved)
  /\ pc' = "word"
  /\ UNCHANGED <<dict, length, saved, kept>>

AcceptWord ==
  /\ BatchOver
  /\ ~BatchRejected(st)
  /\ kept' = st
  /\ pc' = IF st.i > length THEN "done" ELSE "word"
  /\ UNCHANGED <<dict, length, st, saved>>

(* fillWideNoRepeat: one accepted word per try.                            *)
WideWrite(idx) ==
  /\ st' = Write(st, idx, At(dict, idx))
  /\ kept' = st'
  /\ pc' = IF st.i = length THEN "done" ELSE "wide"
  /\ UNCHANGED <<dict, length, saved>>

WideFirst(x) ==
  /\ pc = "wide"
  /\ st.i = 1
  /\ BoundedAccepts(x, Len(dict))
  /\ WideWrite(Hi(x, Len(dict)))

(* A try that meets the previous byte is repeated with nothing changed.    *)
WideNext(x) ==
  LET n1 == Len(dict) - 1
      idx == Hi(x, n1) + skipPast(Hi(x, n1), st.lastIdx)
  IN  /\ pc = "wide"
      /\ st.i > 1
      /\ BoundedAccepts(x, n1)
      /\ At(dict, idx) # st.last
      /\ WideWrite(idx)

Return ==
  /\ pc = "done"
  /\ pc' = "idle"
  /\ dict' = <<>>
  /\ length' = 0
  /\ st' = Blank(0)
  /\ saved' = Position(Blank(0))
  /\ kept' = Blank(0)

Next ==
  \/ \E D \in Dictionaries, len \in Lengths : Refuse(D, len) \/ Start(D, len)
  \/ \E x \in Words : First(x) \/ DrawWord(x) \/ WideFirst(x) \/ WideNext(x)
  \/ Digit
  \/ RejectWord
  \/ AcceptWord
  \/ Return

Spec == Init /\ [][Next]_vars

(* Words that are accepted after however many digits, and whose first      *)
(* digit is written.                                                       *)
Advances(x) ==
  LET n1 == Len(dict) - 1
  IN  /\ At(dict, Hi(x, n1) + skipPast(Hi(x, n1), st.lastIdx)) # st.last
      /\ \A k \in 1 .. batchSpecs[n1] : Lo(x, Power(n1)[k]) >= Excess(Power(n1)[k])

(* The sampler keeps running.  A random provider sooner or later delivers  *)
(* a word that is accepted and adds a symbol; a deterministic one need     *)
(* not, and then the code does not return either.                          *)
Fairness ==
  /\ WF_vars(\E x \in Words : First(x) \/ DrawWord(x) \/ WideFirst(x) \/ WideNext(x))
  /\ WF_vars(Digit \/ RejectWord \/ AcceptWord)
  /\ SF_vars(\E x \in Words : DrawWord(x) /\ Advances(x))

FairSpec == Spec /\ Fairness

-------------------------------------------------------------------------------

Bytes == UNION {Range(D) : D \in Dictionaries}

Sampler(s) ==
  /\ Len(s.out) = IF pc \in {"idle", "done"} /\ s.i = 1 THEN 0 ELSE length
  /\ Range(s.out) \subseteq Bytes \union {NoByte}
  /\ s.i \in 1 .. Len(s.out) + 1
  /\ s.last \in Bytes \union {NoByte}
  /\ s.lastIdx \in Nat
  /\ s.lo \in Words /\ s.prod \in Words
  /\ s.d \in 0 .. WordBits

(* Every variable has its type; the product of the bases never wraps, and  *)
(* no write is past the end of out.                                        *)
TypeOK ==
  /\ pc \in {"idle", "first", "word", "digit", "wide", "done"}
  /\ dict \in Dictionaries \union {<<>>}
  /\ length \in Lengths \union {0}
  /\ Sampler(st)
  /\ Sampler(kept)
  /\ saved \in [i : Nat, last : Bytes \union {NoByte}, lastIdx : Nat]

(* "no two adjacent bytes are equal", in the middle of a batch as well as  *)
(* in the result; the result has the length asked for and is made of the   *)
(* dictionary's bytes, unless the request was refused.                     *)
NoAdjacentDuplicates ==
  /\ \A k \in 1 .. st.i - 2 : st.out[k] # st.out[k + 1]
  /\ pc = "done" => \/ Refuses(dict, length) /\ st.out = <<>>
                    \/ /\ st.i = length + 1
                       /\ \A k \in 1 .. length : st.out[k] \in Range(dict)

(* "a rejected word restores the state from before its batch": whenever    *)
(* the next word is drawn, the sampler stands where the last accepted word *)
(* left it, and the previous symbol it remembers is the one it wrote.      *)
RejectionRestores ==
  pc = "word" =>
    /\ Position(st) = Position(kept)
    /\ \A k \in 1 .. st.i - 1 : st.out[k] = kept.out[k]
    /\ st.last = st.out[st.i - 1]
    /\ At(dict, st.lastIdx) = st.last

IsUnique(D) == IsInjective(D)

(* The sampler after all digits of the word x.                             *)
Run(x) ==
  LET step(s) == IF CanPeel(s, dict, length) THEN Peel(s, dict) ELSE s
      run[k \in 0 .. WordBits] ==
        IF k = 0 THEN BeginBatch(st, x) ELSE step(run[k - 1])
  IN  run[WordBits]

Ends == {<<x, Run(x)>> : x \in Words}

AcceptedEnds == {e \in Ends : ~BatchRejected(e[2])}

(* "which keeps every digit exactly uniform", and "a bijection onto the    *)
(* other positions, so unique dictionaries never retry": from wherever a   *)
(* word is drawn, the accepted words add all continuations of the same     *)
(* length without adjacent duplicates, each by equally many words.         *)
BatchUniform ==
  pc = "word" /\ IsUnique(dict) =>
    LET n1 == Len(dict) - 1
        left == length - st.i + 1
        m == IF left < batchSpecs[n1] THEN left ELSE batchSpecs[n1]
        accepted == AcceptedEnds
        texts == {SubSeq(e[2].out, st.i, e[2].i - 1) : e \in accepted}
    IN  /\ Cardinality(texts) = Power(n1)[m]
        /\ \A t \in texts :
             Cardinality({e \in accepted : SubSeq(e[2].out, st.i, e[2].i - 1) = t})
               = W \div Power(n1)[m]

(* A request that is not refused is answered.                              *)
Terminates == pc \in {"first", "word", "digit", "wide"} ~> pc = "done"

-------------------------------------------------------------------------------
(* What a comment in word.go says, in more cases than the code makes true. *)

(* fillBatchedNoRepeat: "positions holding the previous byte are skipped,  *)
(* leaving every other position equally likely", of dictionaries with      *)
(* repeated bytes.                                                         *)
PositionsEquallyLikely ==
  pc = "word" =>
    LET n1 == Len(dict) - 1
        free == {p \in 0 .. n1 : At(dict, p) # st.last}
        position(x) == Hi(x, n1) + skipPast(Hi(x, n1), st.lastIdx)
        first(p) == {e \in AcceptedEnds : position(e[1]) = p}
    IN  \A p, q \in free : Cardinality(first(p)) = Cardinality(first(q))
================================================================================
