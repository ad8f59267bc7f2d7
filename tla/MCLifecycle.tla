---------------------------- MODULE MCLifecycle ----------------------------
(* A small instance of Lifecycle for TLC: two clients, one connection. *)
EXTENDS Lifecycle, TLC

CONSTANTS c1, c2

MCConn == {c1, c2}
=============================================================================
