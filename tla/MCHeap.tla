-------------------------------- MODULE MCHeap --------------------------------
EXTENDS HeapProps, TLC
Symmetry == Permutations(Grants)
=============================================================================
