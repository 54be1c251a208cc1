--------------------------- MODULE MCGovernanceRun ---------------------------
(* Small instances of GovernanceRun for TLC.                               *)
EXTENDS GovernanceRun, TLC

\* The schedules are interchangeable in every handler.
Symmetry == Permutations(Schedule)
==============================================================================
