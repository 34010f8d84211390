--------------------------- MODULE MCAcceptedFeed ---------------------------
(* AcceptedFeed for TLC: the bounds are constants of the configurations. *)
EXTENDS AcceptedFeed
=============================================================================
