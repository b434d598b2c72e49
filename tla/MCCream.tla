------------------------------- MODULE MCCream -------------------------------
(* TLC instance of the server. *)
EXTENDS CreamProps, TLC

CONSTANTS k1, k2

MCKeys == {k1, k2}
MCHome == [k \in Keys \cup {NoKey} |-> IF k = NoKey THEN 0 ELSE Capacity - 1]

\* The workers and the two colliding keys are interchangeable.
Symmetry == Permutations(Workers) \cup Permutations(Keys)
==============================================================================
