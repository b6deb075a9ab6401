------------------------------ MODULE MCHolder -------------------------------
EXTENDS Holder, TLC

Symmetry == Permutations(Procs \ {HolderProc})
=============================================================================
