---------------------------- MODULE MCChunkStore ----------------------------
(* Instances of ChunkStore for TLC. *)
EXTENDS ChunkStore, TLC

CONSTANTS r1, r2, w1, w2, s1, s2, d1, d2

\* One backend, whose write worker stores, evicts and removes.
Alone == [t \in Threads |-> r1]
AllOf == [t \in Threads |-> {"set", "remove", "clear"}]

\* Two processes over one directory, a thread on each.
TwoStores == [t \in Threads |-> IF t = w1 THEN r1 ELSE r2]
OnlySets == [t \in Threads |-> {"set"}]
SecondOnlyRemoves == [t \in Threads |-> IF t = w1 THEN {"set", "remove"} ELSE {"remove"}]
=============================================================================
