---------------------------- MODULE MCWriteQueue ----------------------------
(* Instances of WriteQueue for TLC. *)
EXTENDS WriteQueueStore, TLC

CONSTANTS k1, k2

\* One key's copy fits the bound with room to spare, one fills it, and one
\* exceeds it alone.
SmallAndBig == [k \in Keys |-> IF k = k1 THEN 1 ELSE IF k = k2 THEN 2 ELSE 3]

\* The callers are interchangeable.
CallerSymmetry == Permutations(Callers)
=============================================================================
