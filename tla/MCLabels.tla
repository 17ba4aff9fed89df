----------------------------- MODULE MCLabels -----------------------------
(* Labels on all short byte sequences over a scaled alphabet: byte values  *)
(* 0..7, pointers from 6 on (the code: 0..255 and 192).                    *)
EXTENDS Labels, SequencesExt

Alphabet == {0, 1, 2, Dot, 6, 7}

MCBufs == BoundedSeq(Alphabet, 5)

(* Label lists a user may assign: plain, with several parts, with an empty *)
(* part, with a part too long for the length byte to say so.               *)
MCEdits ==
  {<<>>, <<<<>>>>, <<<<1>>>>, <<<<1, Dot, 2>>, <<2>>>>, <<<<1, Dot, Dot, 1>>>>,
   <<<<1, 1, 1, 1, 1>>>>, <<<<1, 1, 1, 1, 1, 1>>>>}
=============================================================================
