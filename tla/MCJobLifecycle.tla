--------------------------- MODULE MCJobLifecycle ---------------------------
(* Small instances of JobLifecycle for TLC. *)
EXTENDS JobLifecycle, TLC

CONSTANTS w1, w2, c1, c2

OneWorker  == {w1}
TwoWorkers == {w1, w2}
OneCancel  == {c1}
TwoCancels == {c1, c2}

NoCancel   == {}

Symmetry == Permutations(TwoWorkers) \cup Permutations(TwoCancels)
=============================================================================
