-------------------------- MODULE MCEngineRefinesKV --------------------------
(* A small instance of StorageEngine for checking that it implements KVStore. *)
EXTENDS EngineRefinesKV, TLC

Symmetry == Permutations(Key) \cup Permutations(Value)
=============================================================================
