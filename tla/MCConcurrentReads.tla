------------------------- MODULE MCConcurrentReads -------------------------
(* Small instances of ConcurrentReads. *)
EXTENDS ConcurrentReads, TLC

Symmetry == Permutations(Key) \cup Permutations(Reader)
=============================================================================
