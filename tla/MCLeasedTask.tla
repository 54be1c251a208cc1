---------------------------- MODULE MCLeasedTask ----------------------------
(* Small instances of LeasedTask for TLC. *)
EXTENDS LeasedTask
=============================================================================
