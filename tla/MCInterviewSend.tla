--------------------------- MODULE MCInterviewSend ---------------------------
\* Instances of InterviewSend for TLC.
EXTENDS InterviewSend, TLC

Symmetry == Permutations(Invitations) \cup Permutations(Pages) \cup Permutations(Requests)
=============================================================================
