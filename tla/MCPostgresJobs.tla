--------------------------- MODULE MCPostgresJobs ---------------------------
(* Instances of the PostgreSQL job store small enough for TLC. *)
EXTENDS PostgresJobs, TLC

CONSTANTS c1, c2

TwoClients     == {c1, c2}
ClientSymmetry == Permutations(TwoClients)

(* The clocks agree, or one of the two is ahead. *)
OneMayBeAhead ==
  {k \in [TwoClients -> {0, 1}] : \E c \in TwoClients : k[c] = 0}
=============================================================================
