------------------------------- MODULE MCSynch ------------------------------
EXTENDS Synch, TLC

Symmetry == Permutations(Thread \ {Main})
=============================================================================
