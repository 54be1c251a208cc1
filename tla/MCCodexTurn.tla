----------------------------- MODULE MCCodexTurn -----------------------------
(* Small instances of CodexTurn for TLC.                                   *)
EXTENDS CodexTurn

\* Approved under write access only.
OneRequest == {[kind |-> "command", place |-> "inside", scoped |-> TRUE]}
==============================================================================
