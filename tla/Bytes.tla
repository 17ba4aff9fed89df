-------------------------------- MODULE Bytes -------------------------------
(* Byte sequences, and the slices that the code takes of them.             *)
EXTENDS Integers, Sequences

Base == 256   \* the values of a byte
Byte == 0..Base-1

(* The first n elements, or all; what comes after them.                    *)
Take(s, n) == SubSeq(s, 1, IF n < Len(s) THEN n ELSE Len(s))
Drop(s, n) == SubSeq(s, n + 1, Len(s))
=============================================================================
