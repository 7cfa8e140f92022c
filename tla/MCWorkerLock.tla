---------------------------- MODULE MCWorkerLock ----------------------------
(* Instances of the worker lock small enough for TLC. *)
EXTENDS WorkerLock, TLC

CONSTANTS p1, p2

(* Two processes with names of their own, or with the name of their host. *)
OwnOrHosts == {p1 :> "w1" @@ p2 :> "w2", p1 :> "w1" @@ p2 :> "w1"}
=============================================================================
