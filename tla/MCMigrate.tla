------------------------------ MODULE MCMigrate ------------------------------
(* Small instances of Migrate for TLC. *)
EXTENDS Migrate

CONSTANTS p1, p2, p3

ThreeProcesses == {p1, p2, p3}
=============================================================================
