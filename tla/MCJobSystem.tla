---------------------------- MODULE MCJobSystem ----------------------------
(* JobSystem for TLC: model values for the processes, and their symmetry. *)
EXTENDS JobSystem, TLC

WorkerSymmetry == Permutations(Workers)
ReviewerSymmetry == Permutations(Reviewers)
=============================================================================
