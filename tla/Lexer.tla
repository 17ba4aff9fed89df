-------------------------------- MODULE Lexer -------------------------------
(***************************************************************************)
(* The part of uio.Lexer, a library outside this repository, that the      *)
(* codecs use: consuming bytes, numbers of w bytes in network order, and   *)
(* groups of n bytes.  A lexer that runs short keeps its error, so that a  *)
(* decoder which ends with FinError fails when it read too much, or left   *)
(* something.  A decoder returns Ok(value) or Fail.                        *)
(***************************************************************************)
EXTENDS Bytes, SequencesExt

Ok(v) == [ok |-> TRUE, val |-> v]
Fail == [ok |-> FALSE, val |-> <<>>]

Write(n, w) == [i \in 1..w |-> (n \div Base^(w - i)) % Base]
Read(d) == FoldLeft(LAMBDA n, b : n * Base + b, 0, d)
Groups(d, n) == [i \in 1..(Len(d) \div n) |-> SubSeq(d, (i - 1) * n + 1, i * n)]
Concat(ss) == FoldLeft(LAMBDA a, b : a \o b, <<>>, ss)
=============================================================================
