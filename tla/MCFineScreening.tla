--------------------------- MODULE MCFineScreening ---------------------------
\* Instances of FineScreening for TLC: two runs of one candidate, one run of two.
EXTENDS FineScreening, TLC

AsBounded == [r \in Requests |-> MaxPool]

Symmetry == Permutations(Experts) \cup Permutations(Requests)
=============================================================================
