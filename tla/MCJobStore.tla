----------------------------- MODULE MCJobStore -----------------------------
(* Instances of the job store small enough for TLC. *)
EXTENDS JobStore, TLC

CONSTANTS w1, w2

OneWorker      == {w1}
TwoWorkers     == {w1, w2}
WorkerSymmetry == Permutations(TwoWorkers)
=============================================================================
