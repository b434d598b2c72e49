------------------------------ MODULE MCHashMap ------------------------------
(* TLC instance of the hash map: all keys collide but one. *)
EXTENDS HashMapProps, TLC

CONSTANTS k1, k2, k3

MCKeys == {k1, k2, k3}

\* k1 and k2 collide on the last slot, so their searches wrap round; a NULL key
\* of length 0 hashes to 0.
MCHome == [k \in Keys \cup {NoKey} |-> IF k \in {k1, k2} THEN Capacity - 1 ELSE 0]

Symmetry == Permutations(Threads) \cup Permutations({k1, k2})
==============================================================================
