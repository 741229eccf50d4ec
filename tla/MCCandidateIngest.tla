-------------------------- MODULE MCCandidateIngest --------------------------
\* Instances of CandidateIngest for TLC.
EXTENDS CandidateIngest, TLC

Symmetry == Permutations(Uploads) \cup Permutations(Emails)
=============================================================================
