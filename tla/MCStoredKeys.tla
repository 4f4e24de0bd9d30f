---------------------------- MODULE MCStoredKeys ----------------------------
(* Instances of StoredKeys for TLC. *)
EXTENDS StoredKeys, TLC

CONSTANTS a1, a2, t1, t2, k1, k2

\* One thread notes, the other asks, drains and closes.
NotesAndAsks == a1 :> {"note", "fork"} @@ a2 :> {"read", "drain", "close"}

\* Up to the names of the keys, every pair of notes but two of different keys
\* that are both kept in RAM only, which schedule no write.
TwoStoredOneInRam == {<<k1, "keys">>, <<k2, "keys">>, <<k1, "ram_only">>}
=============================================================================
