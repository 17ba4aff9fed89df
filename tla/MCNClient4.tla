----------------------------- MODULE MCNClient4 -----------------------------
(* Constants of the NClient4 runs. *)
EXTENDS NClient4, TLC

CONSTANTS a, b, x, y, offer, ack, ours, theirs

(* One transaction ID is shared, the other is used by b alone. *)
PartlyShared == a :> {x} @@ b :> {x, y}

(* Both callers use one transaction ID. *)
SharedXid == a :> {x} @@ b :> {x}

(* Each caller has a transaction ID of its own. *)
OwnXids == a :> {x} @@ b :> {y}

(* A matcher that accepts nothing, and with it the nil matcher. *)
Nothing == {{}}
NilOrNothing == {None, {}}
=============================================================================
