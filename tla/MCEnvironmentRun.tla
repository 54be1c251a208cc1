--------------------------- MODULE MCEnvironmentRun ---------------------------
(* A small Environment for TLC.                                            *)
EXTENDS EnvironmentGates, TLC

\* Two Actions in the first State, one in the second.
TwoThenOne == <<1, 1, 2>>
===============================================================================
