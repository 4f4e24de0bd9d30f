------------------------------ MODULE MCTiered ------------------------------
(***************************************************************************)
(* Instances of Tiered for TLC.                                            *)
(***************************************************************************)
EXTENDS Tiered, TLC

CONSTANTS p1, p2, k1, k2

\* One process stores a key, and clears the one the other reads.
ReadAndStore ==
    p1 :> (({"get", "set", "persist"} \X {k1}) \cup {<<"clear", k2>>})
    @@ p2 :> {<<"get", k2>>}

\* Two clears, of two kinds.
TwoKinds == {[kind \in ClearKinds |-> IF kind = none THEN 0 ELSE 1] : none \in ClearKinds}
=============================================================================
