------------------------------ MODULE MCOutbox ------------------------------
(* Small instances of Outbox for TLC. *)
EXTENDS Outbox

CONSTANTS w1, w2

OneWorker  == {w1}
TwoWorkers == {w1, w2}
OneSlot    == 1 .. 1
TwoSlots   == 1 .. 2

=============================================================================
