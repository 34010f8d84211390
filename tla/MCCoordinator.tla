--------------------------- MODULE MCCoordinator ---------------------------
(* Coordinator for TLC: the bounds are constants of the configuration. *)
EXTENDS Coordinator
=============================================================================
