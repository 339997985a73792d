------------------------------- MODULE Bounded -------------------------------
(***************************************************************************)
(* Bounded integers (number.go): Lemire's nearly divisionless sampling in  *)
(* boundedFrom and boundedSlow, and the four generators over it and over   *)
(* the plain word, IntInterval, UintInterval, Int and Uint.                *)
(*                                                                         *)
(* Words are the numbers below W (see Mul64).  The generators are          *)
(* generic in their integer type; a type is given by the number of its     *)
(* values, a power of two that divides W.  Signed values are represented   *)
(* by themselves and converted to and from words as Go converts them.      *)
(***************************************************************************)
EXTENDS Mul64, FiniteSets

CONSTANT TypeSizes   \* the number of values of each integer type

ASSUME TypeSizesAssumption ==
  \A size \in TypeSizes : size \in Nat \ {0} /\ size % 2 = 0 /\ W % size = 0

VARIABLES
  stage,   \* "idle", "draw" (no word yet), "slow" (in boundedSlow) or "done"
  call,    \* the call in progress: its kind, type size, ordered interval and n
  word,    \* the last word drawn
  hi, lo,  \* its product with n, as bits.Mul64 splits it
  result   \* the value returned

boundedVars == <<stage, call, word, hi, lo, result>>

-------------------------------------------------------------------------------
(* Conversions.                                                            *)

SignedValues(size) == -(size \div 2) .. (size \div 2) - 1
UnsignedValues(size) == 0 .. size - 1

(* uint64(int64(x)): two's complement.                                     *)
ToWord(x) == x % W

(* x ^ signMask: flipping the top bit adds half the range.                 *)
FlipSign(w) == (w + W \div 2) % W

(* T(w) for an unsigned type: the low bits.                                *)
ToUnsigned(w, size) == w % size

(* T(w) for a signed type: the low bits, read as two's complement.         *)
ToSigned(w, size) ==
  LET low == w % size
  IN  IF low < size \div 2 THEN low ELSE low - size

-------------------------------------------------------------------------------
(* The generators: which n they draw, and what they make of the drawn v.   *)

(* Defect: the bounds are taken in the order given.                        *)
OrderedAsGiven(a, b) == <<a, b>>

(* min, max = max, min if min > max                                        *)
Ordered(a, b) == IF a > b THEN <<b, a>> ELSE <<a, b>>

IntSpan(lower, upper) ==
  (FlipSign(ToWord(upper)) - FlipSign(ToWord(lower))) % W

UintSpan(lower, upper, size) == (upper - lower) % size

(* The value a call c returns for the bounded word v.                      *)
Value(c, v) ==
  CASE c.kind = "IntInterval" ->
         ToSigned(FlipSign((FlipSign(ToWord(c.lower)) + v) % W), c.size)
    [] c.kind = "UintInterval" ->
         ToUnsigned(c.lower + ToUnsigned(v, c.size), c.size)
    [] c.kind = "Int" -> ToSigned(v, c.size)
    [] c.kind = "Uint" -> ToUnsigned(v, c.size)

NoCall == [kind |-> "none", size |-> 0, lower |-> 0, upper |-> 0, n |-> 0]

BoundedInit ==
  /\ stage = "idle"
  /\ call = NoCall
  /\ word = 0
  /\ hi = 0
  /\ lo = 0
  /\ result = 0

(* Equal bounds return at once; otherwise the call goes on to draw.        *)
StartInterval(kind, size, a, b, span(_, _)) ==
  LET o == Ordered(a, b)
  IN  /\ stage = "idle"
      /\ call' = [kind |-> kind, size |-> size, lower |-> o[1], upper |-> o[2],
                  n |-> IF a = b THEN 0 ELSE span(o[1], o[2])]
      /\ IF a = b
         THEN stage' = "done" /\ result' = a
         ELSE stage' = "draw" /\ UNCHANGED result
      /\ UNCHANGED <<word, hi, lo>>

IntInterval(size, a, b) == StartInterval("IntInterval", size, a, b, IntSpan)

UintInterval(size, a, b) ==
  StartInterval("UintInterval", size, a, b, LAMBDA l, u : UintSpan(l, u, size))

(* Int and Uint convert one whole word: the interval is the type's range.  *)
WholeWord(kind, size, low, x) ==
  LET c == [kind |-> kind, size |-> size, lower |-> low, upper |-> low + size,
            n |-> 0]
  IN  /\ stage = "idle"
      /\ call' = c
      /\ word' = x
      /\ result' = Value(c, x)
      /\ stage' = "done"
      /\ UNCHANGED <<hi, lo>>

Int_(size, x) == WholeWord("Int", size, -(size \div 2), x)

Uint_(size, x) == WholeWord("Uint", size, 0, x)

Multiply(x) ==
  /\ word' = x
  /\ hi' = Hi(x, call.n)
  /\ lo' = Lo(x, call.n)

Finish(h) ==
  /\ stage' = "done"
  /\ result' = Value(call, h)

(* uniformUint64n's own draw, and boundedFrom's fast path.                 *)
Draw(x) ==
  /\ stage = "draw"
  /\ Multiply(x)
  /\ IF FastPath(Lo(x, call.n), call.n)
     THEN Finish(Hi(x, call.n))
     ELSE stage' = "slow" /\ UNCHANGED result
  /\ UNCHANGED call

(* Defect: the new word's low half is tested, the old one's high half      *)
(* returned.                                                               *)
RedrawKeepsHi(x) ==
  /\ stage = "slow"
  /\ Rejects(lo, call.n)
  /\ word' = x
  /\ lo' = Lo(x, call.n)
  /\ UNCHANGED <<stage, call, hi, result>>

(* boundedSlow: a rejected word is replaced ...                            *)
Redraw(x) ==
  /\ stage = "slow"
  /\ Rejects(lo, call.n)
  /\ Multiply(x)
  /\ UNCHANGED <<stage, call, result>>

(* ... and the first accepted one ends the loop.                           *)
Accept ==
  /\ stage = "slow"
  /\ ~Rejects(lo, call.n)
  /\ Finish(hi)
  /\ UNCHANGED <<call, word, hi, lo>>

ReturnBounded ==
  /\ stage = "done"
  /\ stage' = "idle"
  /\ call' = NoCall
  /\ word' = 0
  /\ hi' = 0
  /\ lo' = 0
  /\ result' = 0

BoundedNext ==
  \/ \E size \in TypeSizes :
       \/ \E a, b \in SignedValues(size) : IntInterval(size, a, b)
       \/ \E a, b \in UnsignedValues(size) : UintInterval(size, a, b)
       \/ \E x \in Words : Int_(size, x) \/ Uint_(size, x)
  \/ \E x \in Words : Draw(x) \/ Redraw(x)
  \/ Accept
  \/ ReturnBounded

BoundedSpec == BoundedInit /\ [][BoundedNext]_boundedVars

(* The call keeps running, and the provider, drawing at random, cannot     *)
(* produce rejected words for ever.  This is a demand on the provider: one *)
(* that repeats a rejected word keeps boundedSlow in its loop.             *)
BoundedFairness ==
  /\ WF_boundedVars(\E x \in Words : Draw(x))
  /\ WF_boundedVars(Accept)
  /\ SF_boundedVars(\E x \in Words : Redraw(x) /\ ~Rejects(lo', call.n))

FairBoundedSpec == BoundedSpec /\ BoundedFairness

-------------------------------------------------------------------------------

Accepted(n, v) == {x \in Words : Hi(x, n) = v /\ ~Rejects(Lo(x, n), n)}

AcceptedAtOnce(n, v) == {x \in Words : Hi(x, n) = v /\ FastPath(Lo(x, n), n)}

(* boundedFrom "maps the random word x to a uniform value in [0, n)": for  *)
(* the n of the call in progress every value is the image of exactly       *)
(* W \div n accepted words, and the fast path takes none that the loop     *)
(* would reject.                                                           *)
WordsUniform ==
  stage \in {"draw", "slow"} =>
    \A v \in 0 .. call.n - 1 :
      /\ Cardinality(Accepted(call.n, v)) = W \div call.n
      /\ AcceptedAtOnce(call.n, v) \subseteq Accepted(call.n, v)

(* IntInterval and UintInterval return "a value in [min, max)": from the n *)
(* bounded words they reach each value between the ordered bounds, in      *)
(* spite of sign flips, truncation and wrap-around, and no other; n is the *)
(* number of those values, so none is reached twice.                       *)
IntervalCovered ==
  stage \in {"draw", "slow"} =>
    /\ call.n = call.upper - call.lower
    /\ {Value(call, v) : v \in 0 .. call.n - 1} = call.lower .. call.upper - 1

(* What a finished interval call returns is what its last word, an         *)
(* accepted one, maps to: no value of a rejected word leaks out.           *)
ResultFromAcceptedWord ==
  stage = "done" /\ call.n > 0 =>
    /\ ~Rejects(Lo(word, call.n), call.n)
    /\ result = Value(call, Hi(word, call.n))

(* A bounded draw ends under a provider that does not repeat rejected      *)
(* words for ever.                                                         *)
DrawTerminates == stage \in {"draw", "slow"} ~> stage = "done"
================================================================================
