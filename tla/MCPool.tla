------------------------------- MODULE MCPool -------------------------------
EXTENDS PoolProperties, TLC

Symmetry == Permutations(Runs) \cup Permutations(Holders)
=============================================================================
