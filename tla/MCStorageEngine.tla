--------------------------- MODULE MCStorageEngine ---------------------------
(* Small instances of StorageEngine: two interchangeable keys and values.   *)
EXTENDS StorageEngine, TLC

Symmetry  == Permutations(Key) \cup Permutations(Value)
=============================================================================
