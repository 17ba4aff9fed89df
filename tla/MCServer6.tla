----------------------------- MODULE MCServer6 -----------------------------
(* Instances of Server6 for TLC. *)
EXTENDS Server6, TLC

CONSTANTS s1, s2, s3, k1, k2
=============================================================================
