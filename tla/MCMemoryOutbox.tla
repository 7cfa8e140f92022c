--------------------------- MODULE MCMemoryOutbox ---------------------------
(* Instances of the in-memory outbox small enough for TLC. *)
EXTENDS MemoryOutbox, TLC

CONSTANTS w1, k1, k2

MCWorkers   == {w1}
MCKeys      == {k1, k2}
KeySymmetry == Permutations(MCKeys)
=============================================================================
