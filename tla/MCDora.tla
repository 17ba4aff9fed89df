------------------------------- MODULE MCDora -------------------------------
(* Instances of Dora for TLC. *)
EXTENDS Dora, TLC

CONSTANTS a, x, ours

OneCaller == a :> {x}
OfferOrAny == {None, {offer}}
=============================================================================
