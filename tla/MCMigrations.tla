---------------------------- MODULE MCMigrations ----------------------------
(* Instances of Migrations for TLC. *)
EXTENDS Migrations

CONSTANTS m1, m2

TwoMigrators == {m1, m2}
=============================================================================
