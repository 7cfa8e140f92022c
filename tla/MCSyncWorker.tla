---------------------------- MODULE MCSyncWorker ----------------------------
(* Instances of the workers small enough for TLC. *)
EXTENDS SyncWorker, TLC

CONSTANTS p1, p2

OneProc      == {p1}
TwoProcs     == {p1, p2}
ProcSymmetry == Permutations(TwoProcs)

(* Every process has an ID of its own. *)
OwnIDs    == [p \in Procs |-> p]
WorkerIDs == {<<BaseID[p], i>> : p \in Procs, i \in 0..Concurrency - 1}
=============================================================================
