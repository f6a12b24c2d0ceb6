------------------------------ MODULE MCMetrics ------------------------------
(* Small instances of Metrics for TLC. *)
EXTENDS Metrics, TLC

CONSTANTS s1, s2, s3, s4, j1, r1, r2, r3

FourScrapes == {s1, s2, s3, s4}
OneJob      == {j1}
ThreeRuns   == {r1, r2, r3}

Symmetry == Permutations(FourScrapes) \cup Permutations(ThreeRuns)
=============================================================================
