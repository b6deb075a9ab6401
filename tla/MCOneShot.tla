------------------------------ MODULE MCOneShot ------------------------------
EXTENDS OneShot, TLC

Symmetry == Permutations(Calls)
=============================================================================
