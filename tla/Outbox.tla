------------------------------- MODULE Outbox -------------------------------
(***************************************************************************)
(* What every outbox of DeltaFlow promises: a recorded change is pending   *)
(* until it is dispatched, and it is dispatched together with a job.       *)
(*                                                                         *)
(* A delta is recorded alone or with others at one commit.  Of the deltas  *)
(* that claim one dedup slot (a key in a window) at most one is recorded.  *)
(* A job may exist before its delta is dispatched: callers of the job      *)
(* store's Create can map a delta themselves, and callers of               *)
(* MarkDispatched can take a delta out of the queue by hand.               *)
(***************************************************************************)
EXTENDS Integers

CONSTANTS
  Deltas,   \* delta IDs
  Slots,    \* dedup keys
  NoSlot    \* no dedup key, not in Slots

VARIABLES
  status,   \* status[d]: "absent", "pending" or "dispatched"
  slot,     \* slot[d]: the dedup key of a recorded delta
  jobs      \* jobs[d]: the number of outbox jobs of d

deliveryVars == <<status, slot, jobs>>

Recorded == {d \in Deltas : status[d] # "absent"}

DeliveryInit ==
  /\ status = [d \in Deltas |-> "absent"]
  /\ slot = [d \in Deltas |-> NoSlot]
  /\ jobs = [d \in Deltas |-> 0]

Record(D) ==
  /\ D # {}
  /\ D \cap Recorded = {}
  /\ status' = [d \in Deltas |-> IF d \in D THEN "pending" ELSE status[d]]
  /\ slot' \in [Deltas -> Slots \cup {NoSlot}]
  /\ \A d \in Deltas \ D : slot'[d] = slot[d]
  /\ \A d \in D : slot'[d] # NoSlot =>
        \A e \in (Recorded \cup D) \ {d} : slot'[e] # slot'[d]
  /\ UNCHANGED jobs

(* The deltas of D leave the queue at one commit, those without a job with *)
(* a new one.                                                              *)
Dispatch(D) ==
  /\ D # {}
  /\ \A d \in D : status[d] = "pending"
  /\ status' = [d \in Deltas |-> IF d \in D THEN "dispatched" ELSE status[d]]
  /\ jobs' = [d \in Deltas |-> IF d \in D THEN 1 ELSE jobs[d]]
  /\ UNCHANGED slot

Map(d) ==
  /\ d \in Recorded
  /\ jobs[d] = 0
  /\ jobs' = [jobs EXCEPT ![d] = 1]
  /\ UNCHANGED <<status, slot>>

Mark(d) ==
  /\ status[d] = "pending"
  /\ status' = [status EXCEPT ![d] = "dispatched"]
  /\ UNCHANGED <<slot, jobs>>

DeliveryNext ==
  \/ \E D \in SUBSET Deltas : Record(D) \/ Dispatch(D)
  \/ \E d \in Deltas : Map(d) \/ Mark(d)

DeliverySpec == DeliveryInit /\ [][DeliveryNext]_deliveryVars
=============================================================================
