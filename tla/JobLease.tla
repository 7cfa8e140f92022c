------------------------------ MODULE JobLease ------------------------------
(***************************************************************************)
(* What every job store of DeltaFlow promises to the workers that share    *)
(* it, with the clock and the queue order abstracted away.                 *)
(*                                                                         *)
(* A job is queued until it is granted to one worker.  While the grant is  *)
(* held, only its holder may settle the job (synced, dead), send it back   *)
(* for another attempt, or release it unattempted.  A grant that is not    *)
(* renewed in time lapses: its holder can do nothing with the job any      *)
(* more, and the job may be granted again or recalled to the queue by an   *)
(* operator.  Only a failed attempt that its holder reported is counted.   *)
(*                                                                         *)
(* JobStore implements this specification; SyncWorker is composed with it. *)
(***************************************************************************)
EXTENDS Naturals

CONSTANTS
  Jobs,          \* the job slots of the store
  Workers,       \* worker IDs
  NoWorker,      \* the absent locked_by
  MaxCount       \* bound on attempt_count

ASSUME JobLeaseAssumption == NoWorker \notin Workers /\ MaxCount \in Nat

VARIABLES
  status,        \* status[j]: where the job is in its life
  holder,        \* holder[j]: the worker whose unexpired lease it is under
  attempts       \* attempts[j]: its attempt_count

leaseVars == <<status, holder, attempts>>

Statuses == {"absent", "queued", "held", "lapsed", "synced", "dead"}

(* The jobs that may be granted. *)
Waiting == {"queued", "lapsed"}

LeaseTypeOK ==
  /\ status \in [Jobs -> Statuses]
  /\ holder \in [Jobs -> Workers \cup {NoWorker}]
  /\ attempts \in [Jobs -> 0..MaxCount]

LeaseInit ==
  /\ status = [j \in Jobs |-> "absent"]
  /\ holder = [j \in Jobs |-> NoWorker]
  /\ attempts = [j \in Jobs |-> 0]

Holds(j, w) == status[j] = "held" /\ holder[j] = w
-----------------------------------------------------------------------------
(* New jobs appear, from dispatched deltas or from a caller of Create. *)
Add(A) ==
  /\ \A j \in A : status[j] = "absent"
  /\ status' = [j \in Jobs |-> IF j \in A THEN "queued" ELSE status[j]]
  /\ UNCHANGED <<holder, attempts>>

(* Worker w is granted a batch of jobs nobody holds. *)
Grant(C, w) ==
  /\ \A j \in C : status[j] \in Waiting
  /\ status' = [j \in Jobs |-> IF j \in C THEN "held" ELSE status[j]]
  /\ holder' = [j \in Jobs |-> IF j \in C THEN w ELSE holder[j]]
  /\ UNCHANGED attempts

(* The holder reports an outcome: the grant ends. *)
End(j, w, outcome, failures) ==
  /\ Holds(j, w)
  /\ attempts[j] + failures <= MaxCount
  /\ status' = [status EXCEPT ![j] = outcome]
  /\ holder' = [holder EXCEPT ![j] = NoWorker]
  /\ attempts' = [attempts EXCEPT ![j] = @ + failures]

Settle(j, w)  == End(j, w, "synced", 0)
Kill(j, w)    == End(j, w, "dead", 1)
Retry(j, w)   == End(j, w, "queued", 1)
Release(j, w) == End(j, w, "queued", 0)

(* Leases expire. *)
Lapse(C) ==
  /\ \A j \in C : status[j] = "held"
  /\ status' = [j \in Jobs |-> IF j \in C THEN "lapsed" ELSE status[j]]
  /\ holder' = [j \in Jobs |-> IF j \in C THEN NoWorker ELSE holder[j]]
  /\ UNCHANGED attempts

(* An operator sends a lapsed job back to the queue. *)
Recall(j) ==
  /\ status[j] = "lapsed"
  /\ status' = [status EXCEPT ![j] = "queued"]
  /\ UNCHANGED <<holder, attempts>>

LeaseNext ==
  \/ \E A \in SUBSET Jobs : Add(A) \/ Lapse(A)
  \/ \E C \in SUBSET Jobs, w \in Workers : Grant(C, w)
  \/ \E j \in Jobs, w \in Workers :
       Settle(j, w) \/ Kill(j, w) \/ Retry(j, w) \/ Release(j, w)
  \/ \E j \in Jobs : Recall(j)

LeaseSpec == LeaseInit /\ [][LeaseNext]_leaseVars
=============================================================================
