----------------------------- MODULE MCEviction -----------------------------
(***************************************************************************)
(* Instances of Eviction for TLC.                                          *)
(***************************************************************************)
EXTENDS Eviction, TLC

CONSTANTS k1, k2, k3

\* One value was dear, the others cheap.
OneDear == k1 :> 4 @@ k2 :> 1 @@ k3 :> 1
=============================================================================
