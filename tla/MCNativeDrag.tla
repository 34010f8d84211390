---------------------------- MODULE MCNativeDrag ----------------------------
(* NativeDrag for TLC: the drags, the promises and the limits are constants of *)
(* the configuration. *)
EXTENDS NativeDrag
=============================================================================
