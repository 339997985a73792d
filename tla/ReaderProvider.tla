--------------------------- MODULE ReaderProvider ---------------------------
(***************************************************************************)
(* readerProvider (provider.go): goroutines draw bytes, 32-bit and 64-bit  *)
(* words from one io.Reader they share.  The reader is safe for concurrent *)
(* use, so one call of its Read is one step, but it may return fewer bytes *)
(* than asked for, none at all, or an error with or without bytes; the     *)
(* provider loops in io.ReadFull, and the loops of goroutines interleave.  *)
(*                                                                         *)
(* The reader's stream is immutable: a byte is its position, from 1, and   *)
(* taken is the position the reader has reached.  CallersByte stands for   *)
(* whatever is in a slice before the provider's bytes.                     *)
(***************************************************************************)
EXTENDS Integers, Sequences, FiniteSets

CONSTANTS
  Goroutines,
  MaxCalls,        \* bound: calls begun in a behaviour
  BytesPerWord,    \* 8 in the code
  BytesPerHalf,    \* 4 in the code
  Lengths          \* the lengths of slices to fill

ASSUME ReaderAssumption ==
  /\ BytesPerWord \in Nat \ {0}
  /\ BytesPerHalf \in 1 .. BytesPerWord
  /\ Lengths \subseteq Nat
  /\ MaxCalls \in Nat

VARIABLES
  taken,   \* the number of bytes the reader has handed out
  call,    \* call[g]: the call g is in, NoCall outside of one
  buf,     \* buf[g]: what its io.ReadFull in progress has read
  err,     \* err[g]: the error the reader returned to it last
  out,     \* out[g]: what the call has written for its caller
  results  \* the calls that ended, in order

vars == <<taken, call, buf, err, out, results>>

CallersByte == 0
NoCall == [kind |-> "none", len |-> 0, chunk |-> 0, from |-> 0, alone |-> TRUE]
Errors == {"nil", "EOF", "failure"}

Active == {g \in Goroutines : call[g] # NoCall}

Init ==
  /\ taken = 0
  /\ call = [g \in Goroutines |-> NoCall]
  /\ buf = [g \in Goroutines |-> <<>>]
  /\ err = [g \in Goroutines |-> "nil"]
  /\ out = [g \in Goroutines |-> <<>>]
  /\ results = <<>>

(* A call that produces len bytes after those of prefix, reading chunk     *)
(* bytes at a time.  alone records whether another call overlaps it.       *)
Begin(g, kind, len, chunk, prefix) ==
  /\ call[g] = NoCall
  /\ Len(results) + Cardinality(Active) < MaxCalls
  /\ call' = [h \in Goroutines |->
                IF h = g
                THEN [kind |-> kind, len |-> len, chunk |-> chunk,
                      from |-> taken, alone |-> Active = {}]
                ELSE IF h \in Active THEN [call[h] EXCEPT !.alone = FALSE]
                ELSE NoCall]
  /\ out' = [out EXCEPT ![g] = prefix]
  /\ UNCHANGED <<taken, buf, err, results>>

Read(g, n) == Begin(g, "Read", n, n, <<>>)

Sum(g) == Begin(g, "Sum", BytesPerWord, BytesPerWord, <<CallersByte>>)

Sum32(g) == Begin(g, "Sum32", BytesPerHalf, BytesPerHalf, <<>>)

Sum64(g) == Begin(g, "Sum64", BytesPerWord, BytesPerWord, <<>>)

(* fillRandomBytes on this provider: a Sum64 for each eight bytes, and one *)
(* whose low bytes make the tail.                                          *)
FillRandomBytes(g, n) == Begin(g, "fill", n, BytesPerWord, <<>>)

Prefix(g) == IF call[g].kind = "Sum" THEN <<CallersByte>> ELSE <<>>

Left(g) == call[g].len + Len(Prefix(g)) - Len(out[g])

(* io.ReadFull: read on while the buffer is not full and no error came.    *)
Reading(g) ==
  /\ g \in Active
  /\ Left(g) > 0
  /\ Len(buf[g]) < call[g].chunk
  /\ err[g] = "nil"

(* The reader serves k bytes, perhaps with an error.                       *)
Serve(g, k, e) ==
  /\ Reading(g)
  /\ k \in 0 .. call[g].chunk - Len(buf[g])
  /\ taken' = taken + k
  /\ buf' = [buf EXCEPT ![g] = @ \o [i \in 1 .. k |-> taken + i]]
  /\ err' = [err EXCEPT ![g] = e]
  /\ UNCHANGED <<call, out, results>>

(* ReadFull's n >= min: the buffer is full, an error that came with its    *)
(* last bytes is dropped.                                                  *)
Filled(g) ==
  /\ g \in Active
  /\ Left(g) > 0
  /\ Len(buf[g]) = call[g].chunk

Failed(g) ==
  /\ g \in Active
  /\ Left(g) > 0
  /\ ~Filled(g)
  /\ err[g] # "nil"

(* Defect: the word is drawn once for the whole slice.                     *)
DeliverKeepsWord(g) ==
  /\ Filled(g)
  /\ LET n == IF Left(g) < call[g].chunk THEN Left(g) ELSE call[g].chunk
     IN  out' = [out EXCEPT ![g] = @ \o SubSeq(buf[g], 1, n)]
  /\ UNCHANGED <<taken, call, buf, err, results>>

(* Defect: the tail of a slice is made from the upper end of its word.     *)
DeliverUpperEnd(g) ==
  /\ Filled(g)
  /\ LET n == IF Left(g) < call[g].chunk THEN Left(g) ELSE call[g].chunk
     IN  out' = [out EXCEPT ![g] =
                   @ \o SubSeq(buf[g], call[g].chunk - n + 1, call[g].chunk)]
  /\ buf' = [buf EXCEPT ![g] = <<>>]
  /\ err' = [err EXCEPT ![g] = "nil"]
  /\ UNCHANGED <<taken, call, results>>

(* The buffer's bytes reach the caller: little-endian out of the reader    *)
(* and into the slice, so in stream order; of the last word of a slice     *)
(* only as many as there is room for.                                      *)
Deliver(g) ==
  /\ Filled(g)
  /\ LET n == IF Left(g) < call[g].chunk THEN Left(g) ELSE call[g].chunk
     IN  out' = [out EXCEPT ![g] = @ \o SubSeq(buf[g], 1, n)]
  /\ buf' = [buf EXCEPT ![g] = <<>>]
  /\ err' = [err EXCEPT ![g] = "nil"]
  /\ UNCHANGED <<taken, call, results>>

End(g, bytes, e) ==
  /\ results' = Append(results, [call |-> call[g], bytes |-> bytes, err |-> e,
                                 upto |-> taken])
  /\ call' = [call EXCEPT ![g] = NoCall]
  /\ buf' = [buf EXCEPT ![g] = <<>>]
  /\ err' = [err EXCEPT ![g] = "nil"]
  /\ out' = [out EXCEPT ![g] = <<>>]
  /\ UNCHANGED taken

Return(g) ==
  /\ g \in Active
  /\ Left(g) = 0
  /\ End(g, out[g], "nil")

(* ReadFull calls an end of the stream after some bytes unexpected.        *)
FullError(g) == IF err[g] = "EOF" /\ buf[g] # <<>> THEN "ErrUnexpectedEOF" ELSE err[g]

(* Defect: only the end of the stream ends Read.                           *)
ReadFailsAtEOF(g) ==
  /\ Failed(g)
  /\ call[g].kind = "Read"
  /\ err[g] = "EOF"
  /\ End(g, buf[g], FullError(g))

(* Read reports the error and leaves the bytes in the caller's slice.      *)
ReadFails(g) ==
  /\ Failed(g)
  /\ call[g].kind = "Read"
  /\ End(g, buf[g], FullError(g))

(* Defect: the error is dropped; the rest of the word is the zeros of its  *)
(* fresh array.                                                            *)
WordIgnoresError(g) ==
  /\ Failed(g)
  /\ call[g].kind # "Read"
  /\ End(g, out[g] \o buf[g], "nil")

(* Sum, Sum32 and Sum64 panic: no word, and what was read is lost.  A      *)
(* slice being filled keeps the words written to it before.                *)
WordPanics(g) ==
  /\ Failed(g)
  /\ call[g].kind # "Read"
  /\ End(g, out[g], "panic")

Finished ==
  /\ Len(results) = MaxCalls
  /\ UNCHANGED vars

InCall(g) ==
  \/ \E k \in 1 .. call[g].chunk : \E e \in Errors : Serve(g, k, e)
  \/ \E e \in Errors \ {"nil"} : Serve(g, 0, e)
  \/ Deliver(g) \/ Return(g) \/ ReadFails(g) \/ WordPanics(g)

Next ==
  \/ \E g \in Goroutines :
       \/ \E n \in Lengths : Read(g, n) \/ FillRandomBytes(g, n)
       \/ Sum(g) \/ Sum32(g) \/ Sum64(g)
       \/ \E k \in 0 .. call[g].chunk, e \in Errors : Serve(g, k, e)
       \/ Deliver(g) \/ Return(g) \/ ReadFails(g) \/ WordPanics(g)
  \/ Finished

Spec == Init /\ [][Next]_vars

(* A goroutine in a call is scheduled, and the reader does not return      *)
(* "nothing, no error" to it for ever, which io.Reader discourages and     *)
(* crypto/rand.Reader never does.                                          *)
FairSpec == Spec /\ \A g \in Goroutines : WF_vars(InCall(g))

-------------------------------------------------------------------------------

Bytes(s) == {s[i] : i \in DOMAIN s} \ {CallersByte}

(* The bytes of finished calls and of calls in progress.                   *)
Holdings == {<<"ended", i>> : i \in DOMAIN results} \union {<<"active", g>> : g \in Active}
Held(h) ==
  IF h[1] = "ended" THEN results[h[2]].bytes ELSE out[h[2]] \o buf[h[2]]

(* However the ReadFull loops of goroutines interleave, no byte of the     *)
(* reader is given to two calls or twice to one, and a call's bytes are in *)
(* the order of the stream (io.ReadFull in Read, provider.go:174).         *)
BytesOnceInOrder ==
  /\ \A h1, h2 \in Holdings :
       h1 # h2 => Bytes(Held(h1)) \intersect Bytes(Held(h2)) = {}
  /\ \A h \in Holdings : \A i, j \in DOMAIN Held(h) :
       i < j => Held(h)[i] < Held(h)[j]

(* A call that returns without an error has all its bytes, every one of    *)
(* them from the reader: no short read and no error in the middle of a     *)
(* word leaves the zeros of a fresh array in a random value.  A call that  *)
(* does not have them says so, Read with ReadFull's error, the others by   *)
(* panicking, and a slice keeps only whole words then.                     *)
WholeOrError ==
  \A i \in DOMAIN results :
    LET r == results[i]
        got == Cardinality(Bytes(r.bytes))
    IN  CASE r.err = "nil" -> got = r.call.len
          [] r.err = "panic" ->
               /\ r.call.kind # "Read"
               /\ got < r.call.len
               /\ got % BytesPerWord = 0
          [] OTHER ->
               /\ r.call.kind = "Read"
               /\ got < r.call.len
               /\ (r.err = "EOF") => got = 0
               /\ (r.err = "ErrUnexpectedEOF") => got > 0

RoundUp(n) == ((n + BytesPerWord - 1) \div BytesPerWord) * BytesPerWord

(* A call that no other overlaps gets the next bytes of the stream, so     *)
(* that filling a slice word by word and reading it in one go give the     *)
(* same bytes; the former uses up whole words (fillRandomBytes).           *)
AloneIsContiguous ==
  \A i \in DOMAIN results :
    LET r == results[i]
        c == r.call
    IN  r.err = "nil" /\ c.alone =>
          /\ \A b \in Bytes(r.bytes) : b \in c.from + 1 .. c.from + c.len
          /\ r.upto = c.from + (IF c.kind = "fill" THEN RoundUp(c.len) ELSE c.len)

(* A call ends, by returning or by raising, whatever the reader does to it *)
(* but stall.                                                              *)
CallEnds == \A g \in Goroutines : call[g] # NoCall ~> call[g] = NoCall
================================================================================
