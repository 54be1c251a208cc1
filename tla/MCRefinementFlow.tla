-------------------------- MODULE MCRefinementFlow --------------------------
(* Small instances of RefinementFlow for TLC. *)
EXTENDS RefinementFlow, TLC

\* Ids of Feedback and of Refinement Runs are interchangeable.
Symmetry == Permutations(Feedback) \cup Permutations(Refinement)
=============================================================================
