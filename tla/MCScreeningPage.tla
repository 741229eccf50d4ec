--------------------------- MODULE MCScreeningPage ---------------------------
\* Instances of ScreeningPage for TLC.
EXTENDS ScreeningPage, TLC

Symmetry == Permutations(Tasks) \cup Permutations(Candidates)
=============================================================================
