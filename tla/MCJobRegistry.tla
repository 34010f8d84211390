--------------------------- MODULE MCJobRegistry ---------------------------
(* JobRegistry for TLC: the bounds are constants of the configurations. *)
EXTENDS JobRegistry
============================================================================
