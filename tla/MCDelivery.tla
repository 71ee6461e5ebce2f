----------------------------- MODULE MCDelivery -----------------------------
(* TLC instances of Delivery: a few jobs of one key, each run up to MaxRuns *)
(* times, under a chosen set of faults.                                     *)
EXTENDS Delivery, TLC

CONSTANTS j1, j2, j3
TwoJobs == { j1, j2 }
ThreeJobs == { j1, j2, j3 }
JobSymmetry == Permutations(Jobs)
=============================================================================
