------------------------------ MODULE MCShutdown ------------------------------
(* Small instances of Shutdown for TLC. *)
EXTENDS Shutdown

CONSTANTS t1, t2, t3, t4

FourTasks == {t1, t2, t3, t4}
=============================================================================
