---------------------------- MODULE MCNativeInbox ----------------------------
(* NativeInbox for TLC: events 1 and 3 share an idempotency key. *)
EXTENDS NativeInbox

MCEvent == 1 .. 4
MCKey == [e \in MCEvent |-> IF e = 3 THEN 1 ELSE e]
==============================================================================
