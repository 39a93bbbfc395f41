----------------------------- MODULE MCSqlLayer -----------------------------
(* Small instances of SqlLayer. *)
EXTENDS SqlLayer, TLC

Symmetry == Permutations(Session) \cup Permutations(Val)
=============================================================================
