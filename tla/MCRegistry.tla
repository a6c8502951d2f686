---------------------------- MODULE MCRegistry ----------------------------
EXTENDS Registry, TLC

\* Nothing tells two serials or threads apart.
Symmetry == Permutations(Serials) \cup Permutations(Threads)

===========================================================================
