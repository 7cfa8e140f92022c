----------------------------- MODULE SyncWorker -----------------------------
(***************************************************************************)
(* Workers that keep a destination up to date: SyncWorker.RunOnce of       *)
(* pkg/deltaflow/worker.go, run by several processes that share a job      *)
(* store, composed with what every store promises (JobLease) and with the  *)
(* application's Projector and Applier.                                    *)
(*                                                                         *)
(* Change n is the n-th write of the application; it enqueues delta n,     *)
(* whose outbox job is job n.  The projection of a key, read after change  *)
(* n of that key, has version n.                                           *)
(*                                                                         *)
(* A store call is one step.  It may fail, and the caller cannot tell      *)
(* whether a failed call took effect.  Clocks are left out: a lease may    *)
(* expire at any time, or, when LeaseSized, only when no routine has the   *)
(* job in its batch any more.                                              *)
(***************************************************************************)
EXTENDS JobLease, FiniteSets, Sequences

CONSTANTS
  Keys,          \* projection identities
  Procs,         \* processes that run a SyncWorker of one sync
  BaseID,        \* BaseID[p]: the WorkerID process p is configured with
  Concurrency,   \* routines per process
  BatchSize,     \* jobs a routine claims at once
  PullSize,      \* deltas a cycle dispatches
  MaxAttempts,   \* max_attempts of every job
  OneByOne,      \* the store has no ClaimNextBatch
  LeaseSized,    \* lock_for covers the drain of a batch and renewals arrive
  MaxCancels,    \* bound on cancellations of the context given to RunOnce
  MaxStops,      \* bound on cancellations and crashes of processes together
  MaxFaults      \* bound on the store calls that fail

Routines == Procs \X (0..Concurrency - 1)
Of(p)    == {r \in Routines : r[1] = p}

(* WorkerIDForRoutine: the base ID and the routine's number. *)
WorkerID(r) == <<BaseID[r[1]], r[2]>>

ASSUME SyncWorkerAssumption ==
  /\ Jobs \subseteq Nat \ {0}
  /\ Concurrency \in Nat \ {0}
  /\ BatchSize \in Nat \ {0}
  /\ PullSize \in Nat \ {0}
  /\ MaxAttempts \in Nat \ {0}
  /\ OneByOne \in BOOLEAN /\ LeaseSized \in BOOLEAN
  /\ MaxCancels \in Nat /\ MaxStops \in Nat /\ MaxFaults \in Nat
  /\ \A r \in Routines : WorkerID(r) \in Workers

VARIABLES
  changes,    \* changes[n]: the key that change n wrote
  target,     \* target[k]: the version of k the destination shows
  applied,    \* history: the highest version of k an Apply reported applied
  overlapped, \* history: keys that one routine read while another was between
              \*   its read and its Apply
  pc,         \* pc[r]: where routine r is in processBatch
  batch,      \* batch[r]: jobs claimed and not finished, as they were claimed
  read,       \* read[r]: the version Project returned
  beatFailed, \* beatFailed[r]: the current job's heartbeat sent an error
  cancelled,  \* cancelled[p]: the context of the cycle is cancelled
  crashes, cancels, faults

destVars   == <<changes, target, applied, overlapped>>
workVars   == <<pc, batch, read, beatFailed, cancelled>>
countVars  == <<crashes, cancels, faults>>
workerVars == <<leaseVars, destVars, workVars, countVars>>

Claimed == [job : Jobs, attempts : 0..MaxCount]
Working == {"project", "apply", "applied"}
Places  == Working \cup {"done", "claim", "next", "failed", "requeue"}

DestTypeOK ==
  /\ changes \in Seq(Keys)
  /\ target \in [Keys -> 0..Len(changes)]
  /\ applied \in [Keys -> 0..Len(changes)]
  /\ overlapped \subseteq Keys
  /\ read \in [Routines -> 0..Len(changes)]

PlaceTypeOK ==
  /\ pc \in [Routines -> Places]
  /\ beatFailed \in [Routines -> BOOLEAN]
  /\ cancelled \in [Procs -> BOOLEAN]

(* A routine at work has its job in hand, one that is done has none.        *)
BatchTypeOK ==
  /\ batch \in [Routines -> Seq(Claimed)]
  /\ \A r \in Routines :
       /\ pc[r] \in Working \cup {"failed"} => batch[r] # <<>>
       /\ pc[r] = "done" \/ (pc[r] = "claim" /\ ~OneByOne) => batch[r] = <<>>

CountTypeOK ==
  /\ crashes \in Nat /\ cancels \in 0..MaxCancels
  /\ crashes + cancels <= MaxStops
  /\ faults \in 0..MaxFaults

(* Type invariant. *)
WorkerTypeOK ==
  LeaseTypeOK /\ DestTypeOK /\ PlaceTypeOK /\ BatchTypeOK /\ CountTypeOK

WorkerInit ==
  /\ LeaseInit
  /\ changes = <<>>
  /\ target = [k \in Keys |-> 0]
  /\ applied = [k \in Keys |-> 0]
  /\ overlapped = {}
  /\ pc = [r \in Routines |-> "done"]
  /\ batch = [r \in Routines |-> <<>>]
  /\ read = [r \in Routines |-> 0]
  /\ beatFailed = [r \in Routines |-> FALSE]
  /\ cancelled = [p \in Procs |-> FALSE]
  /\ crashes = 0 /\ cancels = 0 /\ faults = 0
-----------------------------------------------------------------------------
(* What the projection of k reads as now: the last change of k. *)
Version(k) ==
  LET of == {n \in DOMAIN changes : changes[n] = k}
  IN  IF of = {} THEN 0 ELSE CHOOSE n \in of : \A m \in of : m <= n

Pending    == {n \in DOMAIN changes : status[n] = "absent"}
Current(r) == Head(batch[r])
Key(r)     == changes[Current(r).job]

Goto(r, place) == pc' = [pc EXCEPT ![r] = place]
Fault          == faults < MaxFaults /\ faults' = faults + 1

(* The application changes k and enqueues a delta in one transaction. *)
Change(k) ==
  /\ Len(changes) + 1 \in Jobs
  /\ changes' = Append(changes, k)
  /\ UNCHANGED <<leaseVars, target, applied, overlapped, workVars, countVars>>

(* Whoever calls RunOnce again, the process or one started in its place,    *)
(* does so under a context that is not cancelled yet.                       *)
NewContext_Reused(p) == UNCHANGED cancelled
NewContext(p) == cancelled' = [cancelled EXCEPT ![p] = FALSE]

(* A cycle starts: RunOnce dispatches up to PullSize pending deltas and     *)
(* starts the routines.                                                     *)
RunOnce(p) ==
  /\ \A r \in Of(p) : pc[r] = "done"
  /\ \E A \in SUBSET Pending :
       /\ \/ Cardinality(A) = PullSize
          \/ Cardinality(A) < PullSize /\ A = Pending
       /\ Add(A)
  /\ pc' = [r \in Routines |-> IF r \in Of(p) THEN "claim" ELSE pc[r]]
  /\ NewContext(p)
  /\ UNCHANGED <<destVars, batch, read, beatFailed, countVars>>

(* The dispatcher returned an error, perhaps for a transaction that did     *)
(* commit: the cycle is over.                                               *)
DispatchFails(p) ==
  /\ \A r \in Of(p) : pc[r] = "done"
  /\ Pending # {}
  /\ \E A \in SUBSET Pending : Cardinality(A) <= PullSize /\ Add(A)
  /\ Fault
  /\ UNCHANGED <<destVars, workVars, crashes, cancels>>

(* The ways to list a set of jobs, each as its row reads at the claim. *)
Batches(C) ==
  {[i \in 1..Cardinality(C) |-> [job |-> q[i], attempts |-> attempts[q[i]]]] :
     q \in {f \in [1..Cardinality(C) -> C] :
              \A i, j \in 1..Cardinality(C) : f[i] = f[j] => i = j}}

(* claimBatch.  Any waiting jobs: some are not due yet, some rows are       *)
(* locked by another claim.                                                 *)
ClaimBatch(r) ==
  /\ pc[r] = "claim" /\ ~OneByOne
  /\ ~cancelled[r[1]]
  /\ \E C \in SUBSET Jobs :
       /\ Cardinality(C) <= BatchSize
       /\ Grant(C, WorkerID(r))
       /\ \/ /\ \E q \in Batches(C) : batch' = [batch EXCEPT ![r] = q]
             /\ Goto(r, "next")
             /\ UNCHANGED faults
          \/ /\ Fault
             /\ Goto(r, "requeue")
             /\ UNCHANGED batch
  /\ UNCHANGED <<destVars, read, beatFailed, cancelled, crashes, cancels>>

(* claimBatch for a store that claims one job at a time: the loop ends with *)
(* a full batch, with no job left, or with an error, which gives back what  *)
(* was claimed so far.                                                      *)
ClaimNext(r) ==
  /\ pc[r] = "claim" /\ OneByOne
  /\ ~cancelled[r[1]]
  /\ \/ /\ \E j \in Jobs :
            /\ Grant({j}, WorkerID(r))
            /\ batch' = [batch EXCEPT ![r] = Append(@, [job |-> j, attempts |-> attempts[j]])]
       /\ Goto(r, IF Len(batch'[r]) = BatchSize THEN "next" ELSE "claim")
       /\ UNCHANGED faults
     \/ /\ Goto(r, "next")
        /\ UNCHANGED <<leaseVars, batch, faults>>
     \/ /\ \E C \in SUBSET Jobs : Cardinality(C) <= 1 /\ Grant(C, WorkerID(r))
        /\ Fault
        /\ Goto(r, "requeue")
        /\ UNCHANGED batch
  /\ UNCHANGED <<destVars, read, beatFailed, cancelled, crashes, cancels>>

ClaimFails(r) ==
  /\ pc[r] = "claim"
  /\ cancelled[r[1]]
  /\ Goto(r, "requeue")
  /\ UNCHANGED <<leaseVars, destVars, batch, read, beatFailed, cancelled, countVars>>

(* The head of the loop over the batch. *)
StartJob(r) ==
  /\ pc[r] = "next" /\ batch[r] # <<>>
  /\ ~cancelled[r[1]]
  /\ Goto(r, "project")
  /\ UNCHANGED <<leaseVars, destVars, batch, read, beatFailed, cancelled, countVars>>

LeaveLoop(r) ==
  /\ pc[r] = "next"
  /\ \/ batch[r] = <<>> /\ Goto(r, "done")
     \/ batch[r] # <<>> /\ cancelled[r[1]] /\ Goto(r, "requeue")
  /\ UNCHANGED <<leaseVars, destVars, batch, read, beatFailed, cancelled, countVars>>
-----------------------------------------------------------------------------
(* processJob.  A projection that is not found is a version like any other: *)
(* applying it deletes.  Projector and Applier may fail at any time, with   *)
(* or without the job's context being cancelled.  Locals that are not read  *)
(* again are reset.                                                         *)

Projection_Captured(r) == Current(r).job
Projection(r) == Version(Key(r))

Project(r) ==
  /\ pc[r] = "project"
  /\ read' = [read EXCEPT ![r] = Projection(r)]
  /\ overlapped' = overlapped \cup
       {Key(q) : q \in {q \in Routines : pc[q] = "apply" /\ Key(q) = Key(r)}}
  /\ Goto(r, "apply")
  /\ UNCHANGED <<leaseVars, changes, target, applied, batch, beatFailed, cancelled,
                 countVars>>

ProjectFails(r) ==
  /\ pc[r] = "project"
  /\ Goto(r, "failed")
  /\ beatFailed' = [beatFailed EXCEPT ![r] = FALSE]
  /\ UNCHANGED <<leaseVars, destVars, batch, read, cancelled, countVars>>

Larger(m, n) == IF m > n THEN m ELSE n

Apply(r) ==
  /\ pc[r] = "apply"
  /\ target' = [target EXCEPT ![Key(r)] = read[r]]
  /\ applied' = [applied EXCEPT ![Key(r)] = Larger(@, read[r])]
  /\ Goto(r, "applied")
  /\ read' = [read EXCEPT ![r] = 0]
  /\ UNCHANGED <<leaseVars, changes, overlapped, batch, beatFailed, cancelled, countVars>>

(* The destination may have changed although Apply returned an error. *)
ApplyFails(r) ==
  /\ pc[r] = "apply"
  /\ target' \in {target, [target EXCEPT ![Key(r)] = read[r]]}
  /\ Goto(r, "failed")
  /\ read' = [read EXCEPT ![r] = 0]
  /\ beatFailed' = [beatFailed EXCEPT ![r] = FALSE]
  /\ UNCHANGED <<leaseVars, changes, applied, overlapped, batch, cancelled, countVars>>

(* A renewal fails: the lease is not the worker's any more, the context is  *)
(* cancelled, or the store fails.  It cancels the job's context only.       *)
HeartbeatFails(r) ==
  /\ pc[r] \in Working /\ ~beatFailed[r]
  /\ \/ ~Holds(Current(r).job, WorkerID(r)) /\ UNCHANGED faults
     \/ cancelled[r[1]] /\ UNCHANGED faults
     \/ Fault
  /\ beatFailed' = [beatFailed EXCEPT ![r] = TRUE]
  /\ UNCHANGED <<leaseVars, destVars, pc, batch, read, cancelled, crashes, cancels>>

(* The current job's outcome is reported.  When that fails the rest of the  *)
(* batch is given back.                                                     *)
Report(r, outcome) ==
  /\ batch' = [batch EXCEPT ![r] = Tail(@)]
  /\ \/ outcome /\ Goto(r, "next") /\ UNCHANGED faults
     \/ /\ ~Holds(Current(r).job, WorkerID(r))
        /\ Goto(r, "requeue")
        /\ UNCHANGED <<leaseVars, faults>>
     \/ /\ outcome \/ UNCHANGED leaseVars
        /\ Goto(r, "requeue")
        /\ Fault
  /\ beatFailed' = [beatFailed EXCEPT ![r] = FALSE]
  /\ UNCHANGED <<destVars, read, cancelled, crashes, cancels>>

MarkSynced_AfterFailure(r) ==
  /\ pc[r] \in {"applied", "failed"} /\ ~beatFailed[r]
  /\ Report(r, Settle(Current(r).job, WorkerID(r)))
MarkSynced(r) ==
  /\ pc[r] = "applied" /\ ~beatFailed[r]
  /\ Report(r, Settle(Current(r).job, WorkerID(r)))

(* failOrRetry decides with the attempt count the job had at its claim. *)
LastAttempt_OneMore(job) == job.attempts >= MaxAttempts
LastAttempt(job) == job.attempts + 1 >= MaxAttempts

FailOrRetry(r) ==
  /\ \/ pc[r] = "failed"
     \/ pc[r] = "applied" /\ beatFailed[r]
  /\ LET job == Current(r)
     IN  Report(r, IF LastAttempt(job) THEN Kill(job.job, WorkerID(r))
                                       ELSE Retry(job.job, WorkerID(r)))
-----------------------------------------------------------------------------
(* requeueClaimedJobs, job by job; its failures are only logged.            *)
RequeueClaimed_Skips(r) ==
  /\ pc[r] = "requeue" /\ batch[r] # <<>>
  /\ batch' = [batch EXCEPT ![r] = <<>>]
  /\ Release(Current(r).job, WorkerID(r)) \/ UNCHANGED leaseVars
  /\ UNCHANGED <<destVars, pc, read, beatFailed, cancelled, countVars>>
RequeueClaimed(r) ==
  /\ pc[r] = "requeue" /\ batch[r] # <<>>
  /\ batch' = [batch EXCEPT ![r] = Tail(@)]
  /\ \/ Release(Current(r).job, WorkerID(r)) /\ UNCHANGED faults
     \/ ~Holds(Current(r).job, WorkerID(r)) /\ UNCHANGED <<leaseVars, faults>>
     \/ UNCHANGED leaseVars /\ Fault
  /\ UNCHANGED <<destVars, pc, read, beatFailed, cancelled, crashes, cancels>>

(* The error returned cancels the cycle's other routines. *)
ReturnError(r) ==
  /\ pc[r] = "requeue" /\ batch[r] = <<>>
  /\ Goto(r, "done")
  /\ cancelled' = [cancelled EXCEPT ![r[1]] = TRUE]
  /\ UNCHANGED <<leaseVars, destVars, batch, read, beatFailed, countVars>>
-----------------------------------------------------------------------------
(* What disturbs a cycle.                                                   *)

Running(p) == \E r \in Of(p) : pc[r] # "done"

Cancel(p) ==
  /\ Running(p) /\ ~cancelled[p]
  /\ cancels < MaxCancels
  /\ crashes + cancels < MaxStops
  /\ cancels' = cancels + 1
  /\ cancelled' = [cancelled EXCEPT ![p] = TRUE]
  /\ UNCHANGED <<leaseVars, destVars, pc, batch, read, beatFailed, crashes, faults>>

Crash(p) ==
  /\ Running(p)
  /\ crashes + cancels < MaxStops
  /\ crashes' = crashes + 1
  /\ pc' = [r \in Routines |-> IF r \in Of(p) THEN "done" ELSE pc[r]]
  /\ batch' = [r \in Routines |-> IF r \in Of(p) THEN <<>> ELSE batch[r]]
  /\ read' = [r \in Routines |-> IF r \in Of(p) THEN 0 ELSE read[r]]
  /\ beatFailed' = [r \in Routines |-> r \notin Of(p) /\ beatFailed[r]]
  /\ cancelled' = [cancelled EXCEPT ![p] = FALSE]
  /\ UNCHANGED <<leaseVars, destVars, cancels, faults>>

InBatch(j, r) == \E i \in DOMAIN batch[r] : batch[r][i].job = j

LeaseExpires(j) ==
  /\ LeaseSized => ~\E r \in Routines : Holds(j, WorkerID(r)) /\ InBatch(j, r)
  /\ Lapse({j})
  /\ UNCHANGED <<destVars, workVars, countVars>>

(* RequeueExpiredLease. *)
OperatorRequeues(j) ==
  /\ Recall(j)
  /\ UNCHANGED <<destVars, workVars, countVars>>
-----------------------------------------------------------------------------
(* What a routine does of itself. *)
Step(r) ==
  \/ ClaimBatch(r) \/ ClaimNext(r) \/ ClaimFails(r) \/ StartJob(r) \/ LeaveLoop(r)
  \/ Project(r) \/ ProjectFails(r) \/ Apply(r) \/ ApplyFails(r)
  \/ MarkSynced(r) \/ FailOrRetry(r)
  \/ RequeueClaimed(r) \/ ReturnError(r)

WorkerNext ==
  \/ \E k \in Keys : Change(k)
  \/ \E p \in Procs : RunOnce(p) \/ DispatchFails(p) \/ Cancel(p) \/ Crash(p)
  \/ \E r \in Routines : Step(r) \/ HeartbeatFails(r)
  \/ \E j \in Jobs : LeaseExpires(j) \/ OperatorRequeues(j)

WorkerSpec == WorkerInit /\ [][WorkerNext]_workerVars

ClaimsSome(r) ==
  (ClaimBatch(r) \/ ClaimNext(r)) /\ \E j \in Jobs : status[j] # "held" /\ status'[j] = "held"

(* Processes are scheduled and keep calling RunOnce, abandoned leases       *)
(* expire, and a job that waits becomes due: claims do not miss it forever. *)
WorkerFairness ==
  /\ \A p \in Procs : WF_workerVars(RunOnce(p))
  /\ \A r \in Routines : WF_workerVars(Step(r))
  /\ \A j \in Jobs : WF_workerVars(LeaseExpires(j))
  /\ SF_workerVars(\E r \in Routines : ClaimsSome(r))

FairWorkerSpec == WorkerSpec /\ WorkerFairness
-----------------------------------------------------------------------------
(* A job is synced only after an Apply succeeded with a projection read     *)
(* after the job's change: no heartbeat error, lost lease, cancelled cycle  *)
(* or failed report makes a worker settle a job it did not deliver.         *)
SyncedMeansApplied ==
  \A n \in DOMAIN changes : status[n] = "synced" => applied[changes[n]] >= n

(* max_attempts is honoured by workers with IDs of their own that claim a   *)
(* batch at once or keep its leases: a job is dead exactly when its last    *)
(* attempt failed, although failOrRetry decides with the count it read when *)
(* it claimed the job, perhaps a lost lease ago.                            *)
DeadAfterLastAttempt ==
  \A j \in Jobs : /\ attempts[j] <= MaxAttempts
                  /\ status[j] = "dead" <=> attempts[j] = MaxAttempts

(* A routine that returned leaves no lease behind, unless it crashed or the *)
(* store failed it: every claimed job was finished, given back or lost.     *)
NoLeaseLeftBehind ==
  crashes = 0 /\ faults = 0 =>
    \A r \in Routines, j \in Jobs : pc[r] = "done" => ~Holds(j, WorkerID(r))

(* Routines, their batches and the leases in the store agree.               *)
BatchesConsistent == WorkerTypeOK /\ NoLeaseLeftBehind

(* When every change is dispatched and synced the destination shows the     *)
(* newest version of every key: it can end at an older one only when two    *)
(* routines had that key in hand at once, never because a job was repeated  *)
(* after a crash, a lost lease or a failure.                                *)
ConvergedUnlessOverlapped ==
  (\A n \in DOMAIN changes : status[n] = "synced") =>
    \A k \in Keys \ overlapped : target[k] = Version(k)

(* Latest-state delivery: the same of every key.                            *)
Converged ==
  (\A n \in DOMAIN changes : status[n] = "synced") =>
    \A k \in Keys : target[k] = Version(k)

(* Every change is synced or its job dies, after any bounded number of      *)
(* crashes, cancellations and store failures.                               *)
EveryChangeSettles ==
  \A n \in Jobs : n \in DOMAIN changes ~> status[n] \in {"synced", "dead"}
=============================================================================
