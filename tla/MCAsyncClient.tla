--------------------------- MODULE MCAsyncClient ---------------------------
(* Instances of AsyncClient for TLC. *)
EXTENDS AsyncClient, TLC

CONSTANTS a, b, xa, xb, xz

TwoXids == (a :> xa) @@ (b :> xb)

(* Datagrams for nobody: one that carries no ID, one that nobody uses. *)
Unwanted == {NoXid, xz}
=============================================================================
