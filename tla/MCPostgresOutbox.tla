-------------------------- MODULE MCPostgresOutbox --------------------------
(* Instances of the PostgreSQL outbox small enough for TLC. *)
EXTENDS PostgresOutbox, TLC

CONSTANTS p1, p2, d1, d2

(* Two changes, the one enqueued second by p1 occurred first. *)
first  == [sync |-> "s1", key |-> "k1", window |-> "w1", at |-> 1]
second == [sync |-> "s1", key |-> "k2", window |-> "w1", at |-> 0]

(* A transaction and a batch with the changes in opposite orders, and a     *)
(* single enqueue.                                                          *)
OppositeOrders ==
  (p1 :> {[op |-> "app", items |-> <<first, second>>],
          [op |-> "enqueue", items |-> <<first>>]})
  @@ (p2 :> {[op |-> "batch", items |-> <<second, first>>]})
=============================================================================
