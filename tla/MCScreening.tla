----------------------------- MODULE MCScreening -----------------------------
(* Instances of Screening for TLC. *)
EXTENDS Screening, TLC

\* Tasks, workers, candidates and contents are interchangeable; configurations are not, since
\* EmptyRun chooses one.
Interchangeable ==
  Permutations(Tasks) \cup Permutations(Workers) \cup Permutations(Candidates)
    \cup Permutations(Contents)
=============================================================================
