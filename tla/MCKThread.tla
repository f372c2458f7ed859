----------------------------- MODULE MCKThread -----------------------------
EXTENDS KThread, TLC

CONSTANTS k1, k2, k3, k4

MCTids == {k1, k2, k3, k4}

Symmetry == Permutations(MCTids)
=============================================================================
