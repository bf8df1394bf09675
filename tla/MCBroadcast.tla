----------------------------- MODULE MCBroadcast -----------------------------
(* Broadcast with two sockets and two versions.  Its liveness properties     *)
(* rule out symmetry.                                                        *)
EXTENDS Broadcast
=============================================================================
