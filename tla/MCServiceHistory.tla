-------------------------- MODULE MCServiceHistory --------------------------
(* The instances of MCService, for ServiceHistory. *)
EXTENDS ServiceHistory, MCService
=============================================================================
