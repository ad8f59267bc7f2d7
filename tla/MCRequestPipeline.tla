-------------------------- MODULE MCRequestPipeline --------------------------
(* RequestPipeline has no constants: every request there is. *)
EXTENDS RequestPipeline
=============================================================================
