------------------------- MODULE MCDaemonControl -------------------------
(* One task, a daemon that is started twice, and one fault.                 *)
EXTENDS DaemonControl
OneTask == {1}
==========================================================================
