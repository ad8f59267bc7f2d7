---------------------------- MODULE MCPoolQueue ----------------------------
(* Instances of PoolQueue for TLC. *)
EXTENDS PoolQueue

CONSTANTS r1, r2, r3, r4

FourRequests == {r1, r2, r3, r4}
=============================================================================
