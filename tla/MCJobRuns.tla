----------------------------- MODULE MCJobRuns -----------------------------
(* Instances of JobRuns for TLC. *)
EXTENDS JobRuns, TLC

\* Run ids, messages and workers are interchangeable.
Symmetry == Permutations(Runs) \cup Permutations(Messages) \cup Permutations(Workers)

=============================================================================
