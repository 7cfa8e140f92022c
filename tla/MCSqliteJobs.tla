---------------------------- MODULE MCSqliteJobs ----------------------------
(* Instances of the SQLite job store small enough for TLC. *)
EXTENDS SqliteJobs, TLC

CONSTANTS c1, c2

TwoClients     == {c1, c2}
ClientSymmetry == Permutations(TwoClients)
=============================================================================
