----------------------------- MODULE MCHostLoop -----------------------------
(* Instances of the host loop small enough for TLC. *)
EXTENDS HostLoop

CONSTANTS c1, c2, w1, w2
=============================================================================
