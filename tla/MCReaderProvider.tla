--------------------------- MODULE MCReaderProvider ---------------------------
(* Two-byte words with one-byte halves; slices that are empty and that   *)
(* need a word and a tail.                                                 *)
EXTENDS ReaderProvider

CONSTANTS g1, g2

MCGoroutines == {g1, g2}
MCLengths == {0, 3}
================================================================================
