------------------------------ MODULE MCSSTable ------------------------------
(* Every table over the odd keys below MCMaxKey; requests name odd and even keys. *)
EXTENDS SSTable

CONSTANTS MCMaxKey, v, t

MCKey == 0..MCMaxKey
MCVal == {v, t}

Stored == [i \in 1..(MCMaxKey \div 2) |-> [key |-> 2 * i - 1, val |-> IF i % 3 = 0 THEN t ELSE v]]
MCTables == {SelectSeq(Stored, LAMBDA e : e.key \in S) : S \in SUBSET {e.key : e \in Range(Stored)}} \ {<<>>}

\* Hash values that collide: keys 1 and 5 share all bits, others overlap.
MCH1 == [k \in MCKey |-> k % 4]
MCH2 == [k \in MCKey |-> IF k % 2 = 0 THEN Word - 1 ELSE k % 4]
=============================================================================
