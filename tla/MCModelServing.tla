--------------------------- MODULE MCModelServing ----------------------------
\* Instances of ModelServing for TLC.
EXTENDS ModelServing, TLC

Symmetry == Permutations(Threads)
=============================================================================
