---------------------------- MODULE MCTaskWindow ----------------------------
(* TaskWindow for TLC: the bounds are constants of the configuration. *)
EXTENDS TaskWindow
============================================================================
