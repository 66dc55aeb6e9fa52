---------------------------- MODULE MCPointerList ---------------------------
EXTENDS PointerList, TLC

\* The keys are the opposites of priorities: negative, zero and positive.
MCSortkey == {-1, 0, 1}

Symmetry == Permutations(Node) \cup Permutations(Item)
=============================================================================
