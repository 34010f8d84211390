---------------------------- MODULE MCShareQueue ----------------------------
(* ShareQueue for TLC: the bounds are constants of the configuration. *)
EXTENDS ShareQueue
=============================================================================
