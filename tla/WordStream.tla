------------------------------ MODULE WordStream ------------------------------
(***************************************************************************)
(* What a seeded provider promises its callers, said without a counter:    *)
(* there is one infinite sequence of words, fixed by the seed, and every   *)
(* word a goroutine is handed is the next one of that sequence.  How the   *)
(* goroutines interleave decides who gets a word, never which words there  *)
(* are.                                                                    *)
(***************************************************************************)
EXTENDS Naturals, Sequences

CONSTANTS
  Goroutines,
  Words,
  Stream(_, _)   \* Stream(s, k): word number k (from 1) of the stream of seed s

VARIABLES
  seed,          \* the provider's seed, chosen once
  handed         \* the words handed out so far, each with its receiver

vars == <<seed, handed>>

Init ==
  /\ seed \in Words
  /\ handed = <<>>

Take(g) ==
  /\ handed' = Append(handed, [g |-> g, word |-> Stream(seed, Len(handed) + 1)])
  /\ UNCHANGED seed

Next == \E g \in Goroutines : Take(g)

Spec == Init /\ [][Next]_vars
================================================================================
