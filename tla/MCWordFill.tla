------------------------------ MODULE MCWordFill ------------------------------
(* Six-bit words.  The dictionaries: none, one symbol, one symbol twice,   *)
(* unique ones of two, three and four symbols, repeated bytes, and one too *)
(* long to be batched.                                                     *)
EXTENDS WordFill

CONSTANTS a, b, c, d

MCDictionaries ==
  {<<>>, <<a>>, <<a, a>>, <<a, b>>, <<a, b, c>>, <<a, b, c, d>>, <<a, a, b>>,
   <<a, b, a, c>>, <<a, b, c, d, a>>}

MCRepeated == {<<a, a, b, c>>}

MCLengths == {-1, 1, 2, 4}
================================================================================
